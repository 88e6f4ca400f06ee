------------------------- MODULE RunLifecycleProofs -------------------------
(***************************************************************************)
(* Theorems about RunLifecycle, for any Steps and needs, any number of     *)
(* replicas and any number of reruns and cancels.                          *)
(***************************************************************************)
EXTENDS RunLifecycle, TLAPS

\* The parts of the type, by what changes together.
RunTyped == run \in RunStatus /\ gen \in Nat /\ posts \subseteq (Nat \X RunStatus)

StepsTyped ==
  /\ st \in Snapshot /\ tries \in [Steps -> Nat]
  /\ out \in [Steps -> AttemptOutcome]
  /\ work \in [Steps -> {"none", "intent", "unit"}]
  /\ \A s \in Steps : out[s] = "Running" => st[s] = "Running"

DataTyped ==
  /\ ident \in [Steps -> Identity]
  /\ sig \in [Steps -> Signature \cup {NoSig}]
  /\ input \in [Steps -> Signature] /\ made \in [Steps -> Signature]

ActorsTyped ==
  /\ leader \in Replicas
  /\ loop \in [Replicas -> LoopState] /\ api \in ApiState /\ cancel \in CancelState
  /\ count \in [reruns : Nat, cancels : Nat, terms : Nat]

\* The type invariant, by its parts.
LEMMA TypeOKParts == TypeOK <=> RunTyped /\ StepsTyped /\ DataTyped /\ ActorsTyped
BY DEF TypeOK, RunTyped, StepsTyped, DataTyped, ActorsTyped

-----------------------------------------------------------------------------
(* The constants.                                                          *)

\* The row order is not empty and lists Steps.
LEMMA OrderTyped ==
  /\ Len(Order) \in Nat \ {0}
  /\ \A i \in Index : Order[i] \in Steps
  /\ 1 \in Index
<1>1. PICK s : s \in Steps
  BY RunLifecycleAssumption
<1>2. PICK i \in DOMAIN Order : Order[i] = s
  BY <1>1, RunLifecycleAssumption
<1>3. Order \in Seq(Steps) /\ DOMAIN Order = 1..Len(Order) /\ Len(Order) \in Nat
  BY RunLifecycleAssumption
<1>4. QED
  BY <1>2, <1>3 DEF Index

\* The idle actors have their type.
LEMMA IdleTyped ==
  /\ Fresh \in Snapshot /\ Blank \in [Steps -> Identity]
  /\ IdleLoop \in LoopState /\ IdleApi \in ApiState /\ IdleCancel \in CancelState
<1>1. Fresh \in Snapshot /\ Blank \in [Steps -> Identity]
  BY DEF Fresh, Blank, Snapshot, Identity, StepStatus
<1>2. Order[1] \in Steps /\ 1 \in Index
  BY OrderTyped
<1>3. "Running" \in RunStatus
  BY DEF RunStatus
<1>4. QED
  BY <1>1, <1>2, <1>3
  DEF IdleLoop, IdleApi, IdleCancel, LoopState, ApiState, CancelState

\* What a Step consumes is a signature.
LEMMA ConsumedTyped ==
  ASSUME NEW s \in Steps, NEW ids \in [Steps -> Identity]
  PROVE  Consumed(s, ids) \in Signature
BY DEF Consumed, Signature, Identity

-----------------------------------------------------------------------------
(* The commits.                                                            *)

\* A Step's move keeps the Steps' type: its in-flight Attempt, if it has one,
\* ends in the same commit.
LEMMA MoveStepTyped ==
  ASSUME StepsTyped, NEW s \in Steps, NEW to \in StepStatus,
         NEW outcome \in AttemptOutcome \ {"Running"}, MoveStep(s, to, outcome)
  PROVE  StepsTyped'
BY DEF StepsTyped, MoveStep, Snapshot

\* A Run's transition keeps the type of its row.
LEMMA MoveRunTyped ==
  ASSUME RunTyped, NEW to \in RunStatus, MoveRun(to)
  PROVE  RunTyped'
BY DEF RunTyped, MoveRun, PostKey

\* What is left alone keeps its type.
LEMMA KeepsTyped ==
  /\ RunTyped /\ UNCHANGED runRow => RunTyped'
  /\ StepsTyped /\ UNCHANGED stepRows => StepsTyped'
  /\ DataTyped /\ UNCHANGED data => DataTyped'
  /\ ActorsTyped /\ UNCHANGED actors => ActorsTyped'
BY DEF RunTyped, StepsTyped, DataTyped, ActorsTyped, runRow, stepRows, data, actors

\* A replica's loop moves and the other actors do not.
LEMMA LoopTyped ==
  ASSUME ActorsTyped, NEW r \in Replicas, NEW l \in LoopState,
         loop' = [loop EXCEPT ![r] = l], UNCHANGED <<leader, api, cancel, count>>
  PROVE  ActorsTyped'
BY DEF ActorsTyped

\* A loop that ends its pass has its type.
LEMMA LeaveTyped ==
  ASSUME ActorsTyped, NEW r \in Replicas, Leave(r), UNCHANGED <<leader, api, cancel, count>>
  PROVE  ActorsTyped'
BY IdleTyped, LoopTyped DEF Leave

\* A loop that goes on to the next Step has its type.
LEMMA AdmitMoveTyped ==
  ASSUME ActorsTyped, NEW r \in Replicas, AdmitMove(r), UNCHANGED <<leader, api, cancel, count>>
  PROVE  ActorsTyped'
<1> DEFINE l == [loop[r] EXCEPT !.i = IF @ < Len(Order) THEN @ + 1 ELSE 1,
                                !.pc = IF loop[r].i < Len(Order) THEN "steps" ELSE "claim"]
<1>1. loop[r] \in LoopState
  BY DEF ActorsTyped
<1>2. (IF loop[r].i < Len(Order) THEN loop[r].i + 1 ELSE 1) \in Index
  BY <1>1, OrderTyped DEF LoopState, Index
<1>3. l \in LoopState
  BY <1>1, <1>2 DEF LoopState
<1>4. loop' = [loop EXCEPT ![r] = l]
  BY <1>1 DEF AdmitMove, ActorsTyped
<1>5. QED
  BY <1>3, <1>4, LoopTyped

-----------------------------------------------------------------------------
(* The actions.                                                            *)

\* Admission keeps the type.
LEMMA AdmitKeepsType ==
  ASSUME TypeOK, NEW r \in Replicas, Admit(r)
  PROVE  TypeOK'
<1>1. RunTyped /\ StepsTyped /\ DataTyped /\ ActorsTyped /\ loop[r] \in LoopState
  BY TypeOKParts DEF ActorsTyped
<1>2. SUFFICES RunTyped' /\ StepsTyped' /\ DataTyped' /\ ActorsTyped'
  BY TypeOKParts, <1>2 DEF TypeOK, RunTyped, StepsTyped, DataTyped, ActorsTyped
<1>3. Turn(r) \in Steps
  BY <1>1, OrderTyped DEF Turn, LoopState
<1>4. {"Succeeded", "Ready", "Skipped"} \subseteq StepStatus /\ "none" \in AttemptOutcome
  BY DEF StepStatus, AttemptOutcome
<1>5. CASE AdmitBegin(r)
  <2>1. [loop[r] EXCEPT !.pc = "ids", !.snap = st] \in LoopState
    BY <1>1 DEF LoopState, StepsTyped
  <2>2. loop' = [loop EXCEPT ![r] = [loop[r] EXCEPT !.pc = "ids", !.snap = st]]
    BY <1>1, <1>5 DEF AdmitBegin, ActorsTyped
  <2>3. QED
    BY <1>1, <1>5, <2>1, <2>2, LoopTyped, KeepsTyped DEF AdmitBegin
<1>6. CASE AdmitIdentities(r)
  <2>1. [loop[r] EXCEPT !.pc = "steps", !.ids = ident] \in LoopState
    BY <1>1 DEF LoopState, DataTyped
  <2>2. loop' = [loop EXCEPT ![r] = [loop[r] EXCEPT !.pc = "steps", !.ids = ident]]
    BY <1>1, <1>6 DEF AdmitIdentities, ActorsTyped
  <2>3. QED
    BY <1>1, <1>6, <2>1, <2>2, LoopTyped, KeepsTyped DEF AdmitIdentities
<1>7. CASE AdmitUnchanged(r)
  <2>1. StepsTyped'
    BY <1>1, <1>3, <1>4, <1>7, MoveStepTyped, KeepsTyped DEF AdmitUnchanged
  <2>2. QED
    BY <1>1, <1>7, <2>1, AdmitMoveTyped, KeepsTyped DEF AdmitUnchanged
<1>8. CASE AdmitPromote(r)
  <2>1. StepsTyped'
    BY <1>1, <1>3, <1>4, <1>8, MoveStepTyped, KeepsTyped DEF AdmitPromote
  <2>2. Consumed(Turn(r), loop[r].ids) \in Signature
    BY <1>1, <1>3, ConsumedTyped DEF LoopState
  <2>3. DataTyped'
    BY <1>1, <1>8, <2>2 DEF AdmitPromote, DataTyped
  <2>4. QED
    BY <1>1, <1>8, <2>1, <2>3, AdmitMoveTyped, KeepsTyped DEF AdmitPromote
<1>9. CASE AdmitSkip(r)
  <2>1. StepsTyped'
    BY <1>1, <1>3, <1>4, <1>9, MoveStepTyped, KeepsTyped DEF AdmitSkip
  <2>2. QED
    BY <1>1, <1>9, <2>1, AdmitMoveTyped, KeepsTyped DEF AdmitSkip
<1>10. CASE AdmitPass(r)
  BY <1>1, <1>10, AdmitMoveTyped, KeepsTyped DEF AdmitPass
<1>11. CASE AdmitClaim(r)
  <2>1. StepsTyped'
    BY <1>1, <1>11 DEF AdmitClaim, StepsTyped, Snapshot, StepStatus, AttemptOutcome
  <2>2. QED
    BY <1>1, <1>11, <2>1, LeaveTyped, KeepsTyped DEF AdmitClaim
<1>12. CASE FencedOff(r)
  BY <1>1, <1>12, LeaveTyped, KeepsTyped DEF FencedOff
<1>13. QED
  BY <1>5, <1>6, <1>7, <1>8, <1>9, <1>10, <1>11, <1>12 DEF Admit

\* So does advance.
LEMMA AdvanceKeepsType ==
  ASSUME TypeOK, NEW r \in Replicas, Advance(r)
  PROVE  TypeOK'
<1>1. RunTyped /\ StepsTyped /\ DataTyped /\ ActorsTyped /\ loop[r] \in LoopState
  BY TypeOKParts DEF ActorsTyped
<1>2. SUFFICES RunTyped' /\ StepsTyped' /\ DataTyped' /\ ActorsTyped'
  BY TypeOKParts, <1>2 DEF TypeOK, RunTyped, StepsTyped, DataTyped, ActorsTyped
<1>3. CASE AdvanceRead(r)
  <2>1. PICK to \in Verdicts(st) : loop' = [loop EXCEPT ![r].pc = "status", ![r].to = to]
    BY <1>3 DEF AdvanceRead
  <2>2. to \in RunStatus
    BY <2>1 DEF Verdicts, RunStatus, RunOver
  <2>3. [loop[r] EXCEPT !.pc = "status", !.to = to] \in LoopState
    BY <1>1, <2>2 DEF LoopState
  <2>4. loop' = [loop EXCEPT ![r] = [loop[r] EXCEPT !.pc = "status", !.to = to]]
    BY <1>1, <2>1 DEF ActorsTyped
  <2>5. QED
    BY <1>1, <1>3, <2>3, <2>4, LoopTyped, KeepsTyped DEF AdvanceRead
<1>4. CASE AdvanceStatus(r)
  <2>1. CASE run \in RunOver
    BY <1>1, <1>4, <2>1, LeaveTyped, KeepsTyped DEF AdvanceStatus
  <2>2. CASE run \notin RunOver
    <3>1. [loop[r] EXCEPT !.pc = "settle", !.gen = gen] \in LoopState
      BY <1>1 DEF LoopState, RunTyped
    <3>2. loop' = [loop EXCEPT ![r] = [loop[r] EXCEPT !.pc = "settle", !.gen = gen]]
      BY <1>1, <1>4, <2>2 DEF AdvanceStatus, ActorsTyped
    <3>3. QED
      BY <1>1, <1>4, <3>1, <3>2, LoopTyped, KeepsTyped DEF AdvanceStatus
  <2>3. QED
    BY <2>1, <2>2
<1>5. CASE AdvanceCommit(r)
  <2>1. RunTyped'
    BY <1>1, <1>5, MoveRunTyped, KeepsTyped DEF AdvanceCommit, LoopState
  <2>2. QED
    BY <1>1, <1>5, <2>1, LeaveTyped, KeepsTyped DEF AdvanceCommit
<1>6. QED
  BY <1>3, <1>4, <1>5 DEF Advance

\* So do the drivers.
LEMMA DriveKeepsType ==
  ASSUME TypeOK, NEW s \in Steps, Drive(s)
  PROVE  TypeOK'
<1>1. RunTyped /\ StepsTyped /\ DataTyped /\ ActorsTyped
  BY TypeOKParts
<1>2. SUFFICES RunTyped' /\ StepsTyped' /\ DataTyped' /\ ActorsTyped'
  BY TypeOKParts, <1>2 DEF TypeOK, RunTyped, StepsTyped, DataTyped, ActorsTyped
<1>3. CASE Launch(s)
  <2>1. Consumed(s, ident) \in Signature
    BY <1>1, ConsumedTyped DEF DataTyped
  <2>2. StepsTyped' /\ DataTyped'
    BY <1>1, <1>3, <2>1 DEF Launch, StepsTyped, DataTyped
  <2>3. QED
    BY <1>1, <1>3, <2>2, KeepsTyped DEF Launch
<1>4. CASE Succeed(s)
  <2>1. StepsTyped'
    BY <1>1, <1>4, MoveStepTyped DEF Succeed, StepStatus, AttemptOutcome
  <2>2. DataTyped'
    BY <1>1, <1>4 DEF Succeed, DataTyped, Identity
  <2>3. QED
    BY <1>1, <1>4, <2>1, <2>2, KeepsTyped DEF Succeed
<1>5. CASE Fail(s)
  <2>1. StepsTyped'
    BY <1>1, <1>5, MoveStepTyped DEF Fail, StepStatus, AttemptOutcome
  <2>2. QED
    BY <1>1, <1>5, <2>1, KeepsTyped DEF Fail
<1>6. QED
  BY <1>3, <1>4, <1>5 DEF Drive

\* So do reruns and retries.
LEMMA RerunKeepsType == ASSUME TypeOK, Rerun PROVE TypeOK'
<1>1. RunTyped /\ StepsTyped /\ DataTyped /\ ActorsTyped
  BY TypeOKParts
<1>2. SUFFICES RunTyped' /\ StepsTyped' /\ DataTyped' /\ ActorsTyped'
  BY TypeOKParts, <1>2 DEF TypeOK, RunTyped, StepsTyped, DataTyped, ActorsTyped
<1>3. ASSUME NEW t \in Steps
      PROVE  [pc |-> "clear", i |-> 1, snap |-> st, target |-> t] \in ApiState
  BY <1>1, OrderTyped DEF ApiState, StepsTyped
<1>4. [count EXCEPT !.reruns = @ + 1] \in [reruns : Nat, cancels : Nat, terms : Nat]
  BY <1>1 DEF ActorsTyped
<1>5. ASSUME NEW t \in Steps, RerunRead(t)
      PROVE  RunTyped' /\ StepsTyped' /\ DataTyped' /\ ActorsTyped'
  <2>1. StepsTyped'
    BY <1>1, <1>5 DEF RerunRead, StepsTyped
  <2>2. ActorsTyped'
    BY <1>1, <1>3, <1>4, <1>5 DEF RerunRead, ActorsTyped
  <2>3. QED
    BY <1>1, <1>5, <2>1, <2>2, KeepsTyped DEF RerunRead
<1>6. ASSUME NEW t \in Steps, RetryRead(t)
      PROVE  RunTyped' /\ StepsTyped' /\ DataTyped' /\ ActorsTyped'
  <2>1. ActorsTyped'
    BY <1>1, <1>3, <1>4, <1>6 DEF RetryRead, ActorsTyped
  <2>2. QED
    BY <1>1, <1>6, <2>1, KeepsTyped DEF RetryRead
<1>7. CASE RerunClear
  <2>1. DataTyped'
    BY <1>1, <1>7 DEF RerunClear, DataTyped
  <2>2. ActorsTyped'
    BY <1>1, <1>7 DEF RerunClear, ActorsTyped, ApiState
  <2>3. QED
    BY <1>1, <1>7, <2>1, <2>2, KeepsTyped DEF RerunClear
<1>8. CASE RerunReopen
  <2>1. RunTyped'
    BY <1>1, <1>8, MoveRunTyped, KeepsTyped DEF RerunReopen, RunStatus
  <2>2. ActorsTyped'
    BY <1>1, <1>8 DEF RerunReopen, ActorsTyped, ApiState
  <2>3. QED
    BY <1>1, <1>8, <2>1, <2>2, KeepsTyped DEF RerunReopen
<1>9. CASE RerunRearm
  <2>1. api.i \in Index /\ Order[api.i] \in Steps
    BY <1>1, OrderTyped DEF ActorsTyped, ApiState
  <2>2. StepsTyped'
    BY <1>1, <1>9, <2>1, MoveStepTyped, KeepsTyped
    DEF RerunRearm, RearmStep, StepStatus, AttemptOutcome
  <2>3. api.i < Len(Order) => api.i + 1 \in Index
    BY <2>1, OrderTyped DEF Index
  <2>4. api' \in ApiState
    BY <1>1, <1>9, <2>3, IdleTyped DEF RerunRearm, ActorsTyped, ApiState
  <2>5. QED
    BY <1>1, <1>9, <2>2, <2>4, KeepsTyped DEF RerunRearm, ActorsTyped
<1>10. QED
  BY <1>5, <1>6, <1>7, <1>8, <1>9 DEF Rerun

\* So do cancels and a change of leader.
LEMMA CancelKeepsType == ASSUME TypeOK, CancelRequest \/ NewLeader PROVE TypeOK'
<1>1. RunTyped /\ StepsTyped /\ DataTyped /\ ActorsTyped
  BY TypeOKParts
<1>2. SUFFICES RunTyped' /\ StepsTyped' /\ DataTyped' /\ ActorsTyped'
  BY TypeOKParts, <1>2 DEF TypeOK, RunTyped, StepsTyped, DataTyped, ActorsTyped
<1>3. CASE CancelRead
  <2>1. [pc |-> "steps", i |-> 1, snap |-> st] \in CancelState
    BY <1>1, OrderTyped DEF CancelState, StepsTyped
  <2>2. ActorsTyped'
    BY <1>1, <1>3, <2>1 DEF CancelRead, ActorsTyped
  <2>3. QED
    BY <1>1, <1>3, <2>2, KeepsTyped DEF CancelRead
<1>4. CASE CancelStep
  <2>1. cancel.i \in Index /\ Order[cancel.i] \in Steps
    BY <1>1, OrderTyped DEF ActorsTyped, CancelState
  <2>2. StepsTyped'
    BY <1>1, <1>4, <2>1, MoveStepTyped, KeepsTyped
    DEF CancelStep, CancelCommit, StepStatus, AttemptOutcome
  <2>3. (cancel.i < Len(Order) => cancel.i + 1 \in Index) /\ 1 \in Index
    BY <2>1, OrderTyped DEF Index
  <2>4. cancel' \in CancelState
    BY <1>1, <1>4, <2>3 DEF CancelStep, ActorsTyped, CancelState
  <2>5. QED
    BY <1>1, <1>4, <2>2, <2>4, KeepsTyped DEF CancelStep, ActorsTyped
<1>5. CASE CancelRun
  <2>1. RunTyped'
    BY <1>1, <1>5, MoveRunTyped, KeepsTyped DEF CancelRun, RunStatus, RunOver
  <2>2. ActorsTyped'
    BY <1>1, <1>5, IdleTyped DEF CancelRun, ActorsTyped
  <2>3. QED
    BY <1>1, <1>5, <2>1, <2>2, KeepsTyped DEF CancelRun
<1>6. CASE NewLeader
  <2>1. ActorsTyped'
    BY <1>1, <1>6 DEF NewLeader, ActorsTyped
  <2>2. QED
    BY <1>1, <1>6, <2>1, KeepsTyped DEF NewLeader
<1>7. QED
  BY <1>3, <1>4, <1>5, <1>6 DEF CancelRequest

\* An admitted Run starts with its type.
LEMMA InitType == Init => TypeOK
<1> SUFFICES ASSUME Init PROVE TypeOK
  OBVIOUS
<1>1. RunTyped
  BY DEF Init, RunTyped, RunStatus
<1>2. StepsTyped
  BY IdleTyped DEF Init, StepsTyped, AttemptOutcome, Blank
<1>3. Blank \in Signature
  BY IdleTyped DEF Signature
<1>4. DataTyped
  BY <1>3, IdleTyped DEF Init, DataTyped
<1>5. ActorsTyped
  BY IdleTyped DEF Init, ActorsTyped
<1>6. QED
  BY <1>1, <1>2, <1>4, <1>5, TypeOKParts

\* Every step keeps the type.
LEMMA NextType == TypeOK /\ [Next]_vars => TypeOK'
<1> SUFFICES ASSUME TypeOK, [Next]_vars PROVE TypeOK'
  OBVIOUS
<1>1. CASE UNCHANGED vars
  BY <1>1 DEF vars, TypeOK
<1>2. CASE Next
  BY <1>2, AdmitKeepsType, AdvanceKeepsType, DriveKeepsType, RerunKeepsType,
     CancelKeepsType DEF Next
<1>3. QED
  BY <1>1, <1>2

\* The state has its type, and an Attempt is in flight only while its Step is
\* Running: whatever takes a Step out of Running ends its Attempt in the same
\* commit.
THEOREM TypeCorrect == Spec => []TypeOK
BY InitType, NextType, PTL DEF Spec

-----------------------------------------------------------------------------
(* Status posts.                                                           *)

\* No post is of a generation to come, and a live Run has posted no verdict in
\* its current generation.
PostsBehind ==
  \A p \in posts : p[1] <= gen /\ (p[1] = gen /\ run \notin RunOver => p[2] \notin RunOver)

\* A commit of the Run keeps PostsBehind, and if it changes the status its post
\* is new.
LEMMA MoveRunPosts ==
  ASSUME RunTyped, PostsBehind, NEW to \in RunStatus, MoveRun(to),
         run \notin RunOver \/ to \notin RunOver
  PROVE  /\ PostsBehind'
         /\ run' # run => PostKey(gen', run') \notin posts /\ posts' # posts
<1>1. posts \subseteq (Nat \X RunStatus) /\ gen \in Nat
  BY DEF RunTyped
<1>2. /\ run' = to /\ gen' \in Nat /\ gen <= gen'
      /\ posts' = posts \cup {<<gen', to>>}
      /\ run \in RunOver <=> gen' # gen
  BY <1>1 DEF MoveRun, PostKey
<1>3. PostsBehind'
  BY <1>1, <1>2 DEF PostsBehind
<1>4. ASSUME run' # run PROVE <<gen', to>> \notin posts
  BY <1>1, <1>2, <1>4 DEF PostsBehind, RunTyped, RunStatus
<1>5. QED
  BY <1>2, <1>3, <1>4 DEF PostKey

\* What any step does to the Run's row.
LEMMA RunRowMoves ==
  ASSUME TypeOK, [Next]_vars
  PROVE  \/ UNCHANGED runRow
         \/ \E to \in RunStatus : MoveRun(to) /\ (run \notin RunOver \/ to \notin RunOver)
<1>1. ASSUME NEW r \in Replicas, Admit(r) PROVE UNCHANGED runRow
  BY <1>1 DEF Admit, AdmitBegin, AdmitIdentities, AdmitUnchanged, AdmitPromote, AdmitSkip,
              AdmitPass, AdmitClaim, FencedOff
<1>2. ASSUME NEW r \in Replicas, Advance(r)
      PROVE  \/ UNCHANGED runRow
             \/ \E to \in RunStatus : MoveRun(to) /\ run \notin RunOver
  <2>1. loop[r].to \in RunStatus
    BY DEF TypeOK, LoopState
  <2>2. QED
    BY <1>2, <2>1 DEF Advance, AdvanceRead, AdvanceStatus, AdvanceCommit, StillSameRun
<1>3. ASSUME NEW s \in Steps, Drive(s) PROVE UNCHANGED runRow
  BY <1>3 DEF Drive, Launch, Succeed, Fail
<1>4. ASSUME Rerun PROVE UNCHANGED runRow \/ MoveRun("Running")
  BY <1>4 DEF Rerun, RerunRead, RetryRead, RerunClear, RerunReopen, RerunRearm
<1>5. ASSUME CancelRequest
      PROVE  UNCHANGED runRow \/ (MoveRun("Cancelled") /\ run \notin RunOver)
  BY <1>5 DEF CancelRequest, CancelRead, CancelStep, CancelRun
<1>6. ASSUME NewLeader \/ UNCHANGED vars PROVE UNCHANGED runRow
  BY <1>6 DEF NewLeader, vars, runRow
<1>7. "Running" \in RunStatus \ RunOver /\ "Cancelled" \in RunStatus
  BY DEF RunStatus, RunOver
<1>8. QED
  BY <1>1, <1>2, <1>3, <1>4, <1>5, <1>6, <1>7 DEF Next

\* However often a Run settles, is reopened and settles again, each transition
\* of it writes a status post under a key no earlier transition used.
THEOREM PostedEach == Spec => EachTransitionPosted
<1>1. Init => TypeOK /\ PostsBehind
  BY InitType DEF Init, PostsBehind
<1>2. ASSUME TypeOK, PostsBehind, [Next]_vars
      PROVE  /\ PostsBehind'
             /\ run' # run => PostKey(gen', run') \notin posts /\ posts' # posts
  <2>1. CASE UNCHANGED runRow
    BY <1>2, <2>1 DEF PostsBehind, runRow
  <2>2. CASE \E to \in RunStatus : MoveRun(to) /\ (run \notin RunOver \/ to \notin RunOver)
    BY <1>2, <2>2, MoveRunPosts, TypeOKParts
  <2>3. QED
    BY <1>2, <2>1, <2>2, RunRowMoves
<1>3. QED
  BY <1>1, <1>2, NextType, PTL DEF Spec, EachTransitionPosted

-----------------------------------------------------------------------------
(* The order of the Steps, when nothing is rerun.                          *)

\* Only a Running Step is driven.
DrivenIsRunning == \A s \in Steps : work[s] # "none" => st[s] = "Running"

NeedsMet(s) == \A d \in Needs[s] : st[d] = "Succeeded"

\* A Step past Pending and not over has its needs met.
StartedInOrder == \A s \in Steps : st[s] \in {"Ready", "Running"} => NeedsMet(s)

\* A snapshot's successes are still successes, however old it is.
SnapshotsHold ==
  \A r \in Replicas, d \in Steps : loop[r].snap[d] = "Succeeded" => st[d] = "Succeeded"

Ordered ==
  TypeOK /\ DrivenIsRunning /\ StartedInOrder /\ SnapshotsHold /\ api.pc = "idle"

\* What a step does to the Steps' rows: a terminal Step stays as it is, and only
\* a Ready Step starts.
Forward ==
  \A s \in Steps : /\ st[s] \in Over => st'[s] = st[s]
                   /\ st'[s] = "Running" => st[s] \in {"Ready", "Running"}

\* A step that leaves the Step rows alone keeps their order.
LEMMA StillForward ==
  ASSUME Ordered, UNCHANGED stepRows
  PROVE  DrivenIsRunning' /\ StartedInOrder' /\ Forward
BY DEF Ordered, DrivenIsRunning, StartedInOrder, NeedsMet, Forward, stepRows

\* A Step that is not over may move anywhere but to Running, and to Ready only
\* with its needs met.
LEMMA MoveForward ==
  ASSUME Ordered, NEW s \in Steps, NEW to \in StepStatus \ {"Running"}, NEW outcome,
         MoveStep(s, to, outcome), st[s] \notin Over, to = "Ready" => NeedsMet(s)
  PROVE  DrivenIsRunning' /\ StartedInOrder' /\ Forward
<1>1. /\ st \in [Steps -> StepStatus] /\ work \in [Steps -> {"none", "intent", "unit"}]
      /\ Needs \in [Steps -> SUBSET Steps]
  BY RunLifecycleAssumption DEF Ordered, TypeOK, Snapshot
<1>2. /\ st'[s] = to /\ work'[s] = "none"
      /\ \A q \in Steps : q # s => st'[q] = st[q] /\ work'[q] = work[q]
  BY <1>1 DEF MoveStep
<1>3. Forward
  BY <1>2 DEF Forward
<1>4. DrivenIsRunning'
  BY <1>2 DEF Ordered, DrivenIsRunning
<1>5. ASSUME NEW q \in Steps, st'[q] \in {"Ready", "Running"} PROVE NeedsMet(q)'
  <2>1. NeedsMet(q)
    BY <1>2, <1>5 DEF Ordered, StartedInOrder
  <2>2. QED
    BY <1>1, <1>3, <2>1 DEF NeedsMet, Forward, Over
<1>6. QED
  BY <1>3, <1>4, <1>5 DEF StartedInOrder

\* A need met in the snapshot is met in the table.
LEMMA SatisfiedIsMet ==
  ASSUME Ordered, NEW r \in Replicas, NEW s \in Steps, Satisfied(s, loop[r].snap)
  PROVE  NeedsMet(s)
BY RunLifecycleAssumption DEF Ordered, SnapshotsHold, Satisfied, NeedsMet

\* Without reruns every step moves the Steps forward only.
LEMMA StepsForward ==
  ASSUME MaxReruns = 0, Ordered, [Next]_vars
  PROVE  DrivenIsRunning' /\ StartedInOrder' /\ Forward /\ api' = api
<1>1. /\ st \in [Steps -> StepStatus] /\ Needs \in [Steps -> SUBSET Steps]
      /\ work \in [Steps -> {"none", "intent", "unit"}]
      /\ count.reruns \in Nat /\ api.pc = "idle" /\ TypeOK
  BY RunLifecycleAssumption DEF Ordered, TypeOK, Snapshot
<1>2. ~Rerun
  BY <1>1 DEF Rerun, RerunRead, RetryRead, RerunClear, RerunReopen, RerunRearm
<1>3. {"Ready", "Succeeded", "Skipped", "Failed", "Cancelled"} \subseteq StepStatus \ {"Running"}
  BY DEF StepStatus
<1>4. ASSUME NEW r \in Replicas, Admit(r)
      PROVE  DrivenIsRunning' /\ StartedInOrder' /\ Forward /\ api' = api
  <2>1. Turn(r) \in Steps
    BY <1>1, OrderTyped DEF Turn, TypeOK, LoopState
  <2>2. CASE AdmitPromote(r)
    <3>1. Admissible(r, Turn(r)) => NeedsMet(Turn(r))
      BY <2>1, SatisfiedIsMet DEF Admissible
    <3>2. QED
      BY <1>3, <2>1, <2>2, <3>1, MoveForward, StillForward DEF AdmitPromote, Over
  <2>3. CASE AdmitUnchanged(r)
    BY <1>3, <2>1, <2>3, MoveForward, StillForward DEF AdmitUnchanged, Over
  <2>4. CASE AdmitSkip(r)
    BY <1>3, <2>1, <2>4, MoveForward, StillForward DEF AdmitSkip, Over
  <2>5. CASE AdmitClaim(r)
    <3>1. \A s \in Steps : /\ st'[s] = IF st[s] = "Ready" THEN "Running" ELSE st[s]
                           /\ work'[s] = IF st[s] = "Ready" THEN "intent" ELSE work[s]
      BY <2>5 DEF AdmitClaim
    <3>2. Forward /\ DrivenIsRunning'
      BY <3>1 DEF Forward, DrivenIsRunning, Ordered, Over
    <3>3. StartedInOrder'
      BY <1>1, <3>1 DEF StartedInOrder, Ordered, NeedsMet
    <3>4. QED
      BY <2>5, <3>2, <3>3 DEF AdmitClaim
  <2>6. CASE AdmitBegin(r) \/ AdmitIdentities(r) \/ AdmitPass(r) \/ FencedOff(r)
    BY <2>6, StillForward DEF AdmitBegin, AdmitIdentities, AdmitPass, FencedOff
  <2>7. QED
    BY <1>4, <2>2, <2>3, <2>4, <2>5, <2>6 DEF Admit
<1>5. ASSUME NEW r \in Replicas, Advance(r)
      PROVE  DrivenIsRunning' /\ StartedInOrder' /\ Forward /\ api' = api
  BY <1>5, StillForward DEF Advance, AdvanceRead, AdvanceStatus, AdvanceCommit
<1>6. ASSUME NEW s \in Steps, Drive(s)
      PROVE  DrivenIsRunning' /\ StartedInOrder' /\ Forward /\ api' = api
  <2>1. st[s] = "Running" /\ st[s] \notin Over /\ NeedsMet(s)
    BY <1>6 DEF Drive, Launch, Succeed, Fail, Ordered, DrivenIsRunning, StartedInOrder, Over
  <2>2. CASE Launch(s)
    <3>1. st' = st /\ \A q \in Steps : work'[q] # "none" => work[q] # "none"
      BY <1>1, <2>2 DEF Launch
    <3>2. QED
      BY <2>2, <3>1
      DEF Launch, actors, Forward, Ordered, DrivenIsRunning, StartedInOrder, NeedsMet
  <2>3. CASE Succeed(s)
    BY <1>3, <2>1, <2>3, MoveForward DEF Succeed, actors
  <2>4. CASE Fail(s)
    <3>1. PICK to \in {"Ready", "Failed"} : MoveStep(s, to, "Failed")
      BY <2>4 DEF Fail
    <3>2. QED
      BY <1>3, <2>1, <2>4, <3>1, MoveForward DEF Fail, actors
  <2>5. QED
    BY <1>6, <2>2, <2>3, <2>4 DEF Drive
<1>7. ASSUME CancelRequest
      PROVE  DrivenIsRunning' /\ StartedInOrder' /\ Forward /\ api' = api
  <2>1. CASE CancelStep
    <3>1. Order[cancel.i] \in Steps
      BY <1>1, OrderTyped DEF TypeOK, CancelState
    <3>2. QED
      BY <1>3, <2>1, <3>1, MoveForward, StillForward DEF CancelStep, CancelCommit, CancelDue
  <2>2. CASE CancelRead \/ CancelRun
    BY <2>2, StillForward DEF CancelRead, CancelRun
  <2>3. QED
    BY <1>7, <2>1, <2>2 DEF CancelRequest
<1>8. CASE NewLeader \/ UNCHANGED vars
  BY <1>8, StillForward DEF NewLeader, vars, stepRows
<1>9. QED
  BY <1>2, <1>4, <1>5, <1>6, <1>7, <1>8 DEF Next

\* A snapshot is of the table as it is, of a fresh loop, or the one there was.
LEMMA SnapshotsTaken ==
  ASSUME MaxReruns = 0, Ordered, [Next]_vars
  PROVE  \A r \in Replicas : loop'[r].snap \in {loop[r].snap, st, Fresh}
<1>1. /\ loop \in [Replicas -> LoopState] /\ count.reruns \in Nat /\ api.pc = "idle"
  BY DEF Ordered, TypeOK
<1>2. ASSUME NEW q \in Replicas, Admit(q) \/ Advance(q)
      PROVE  \A r \in Replicas : loop'[r].snap \in {loop[r].snap, st, Fresh}
  <2>1. ASSUME NEW l \in LoopState, l.snap \in {loop[q].snap, st, Fresh},
               loop' = [loop EXCEPT ![q] = l]
        PROVE  \A r \in Replicas : loop'[r].snap \in {loop[r].snap, st, Fresh}
    BY <1>1, <2>1
  <2>2. ASSUME Leave(q)
        PROVE  \A r \in Replicas : loop'[r].snap \in {loop[r].snap, st, Fresh}
    BY <2>1, <2>2, IdleTyped DEF Leave, IdleLoop
  <2>3. ASSUME AdmitMove(q)
        PROVE  \A r \in Replicas : loop'[r].snap \in {loop[r].snap, st, Fresh}
    BY <1>1, <2>3 DEF AdmitMove, LoopState
  <2>4. CASE AdmitBegin(q)
    BY <1>1, <2>4 DEF AdmitBegin, LoopState
  <2>5. CASE AdmitIdentities(q)
    BY <1>1, <2>5 DEF AdmitIdentities, LoopState
  <2>6. CASE AdvanceRead(q)
    BY <1>1, <2>6 DEF AdvanceRead, LoopState
  <2>7. CASE AdvanceStatus(q)
    BY <1>1, <2>2, <2>7 DEF AdvanceStatus, LoopState
  <2>8. QED
    BY <1>2, <2>2, <2>3, <2>4, <2>5, <2>6, <2>7
    DEF Admit, Advance, AdmitUnchanged, AdmitPromote, AdmitSkip, AdmitPass, AdmitClaim,
        FencedOff, AdvanceCommit
<1>3. ASSUME NEW s \in Steps, Drive(s) PROVE loop' = loop
  BY <1>3 DEF Drive, Launch, Succeed, Fail, actors
<1>4. ~Rerun
  BY <1>1 DEF Rerun, RerunRead, RetryRead, RerunClear, RerunReopen, RerunRearm
<1>5. ASSUME CancelRequest \/ NewLeader \/ UNCHANGED vars PROVE loop' = loop
  BY <1>5 DEF CancelRequest, CancelRead, CancelStep, CancelRun, NewLeader, vars
<1>6. QED
  BY <1>2, <1>3, <1>4, <1>5 DEF Next

\* Without reruns the order of the Steps is an invariant.
LEMMA OrderedInvariant ==
  ASSUME MaxReruns = 0 PROVE (Init => Ordered) /\ (Ordered /\ [Next]_vars => Ordered')
<1>1. Init => Ordered
  <2> SUFFICES ASSUME Init PROVE Ordered
    OBVIOUS
  <2>1. DrivenIsRunning /\ StartedInOrder /\ SnapshotsHold
    BY DEF Init, DrivenIsRunning, StartedInOrder, SnapshotsHold, Fresh, IdleLoop
  <2>2. QED
    BY <2>1, InitType DEF Init, Ordered, IdleApi
<1>2. Ordered /\ [Next]_vars => Ordered'
  <2> SUFFICES ASSUME Ordered, [Next]_vars PROVE Ordered'
    OBVIOUS
  <2>1. DrivenIsRunning' /\ StartedInOrder' /\ Forward /\ api' = api
    BY StepsForward
  <2>2. SnapshotsHold'
    BY <2>1, SnapshotsTaken DEF Ordered, SnapshotsHold, Forward, Fresh, Over
  <2>3. QED
    BY <2>1, <2>2, NextType DEF Ordered
<1>3. QED
  BY <1>1, <1>2

\* Without reruns a Step starts only after its needs succeeded, whatever the
\* graph, however many replicas admit from however old snapshots, with changes
\* of leader and cancels: the snapshots are stale, and harmlessly so, because a
\* success is never taken back.
THEOREM InOrder == ASSUME MaxReruns = 0 PROVE Spec => StartsAfterNeeds
<1>1. ASSUME Ordered, [Next]_vars, NEW s \in Steps, st[s] # "Running", st'[s] = "Running",
             NEW d \in Needs[s]
      PROVE  st[d] = "Succeeded"
  BY <1>1, StepsForward DEF Forward, Ordered, StartedInOrder, NeedsMet
<1>2. Ordered /\ [Next]_vars
        => (\A s \in Steps : st[s] # "Running" /\ st'[s] = "Running"
              => \A d \in Needs[s] : st[d] = "Succeeded")
  BY <1>1
<1>3. QED
  BY <1>2, OrderedInvariant, PTL DEF Spec, StartsAfterNeeds

-----------------------------------------------------------------------------
(* A settled Run, when nothing is rerun.                                   *)

AllOver == \A s \in Steps : st[s] \in Over

\* A cancel request has cancelled the Steps it has passed; those it read as
\* terminal still are.
CancelBehind ==
  /\ cancel.pc = "steps" =>
       /\ \A j \in Index : j < cancel.i => st[Order[j]] \in Over
       /\ \A s \in Steps : cancel.snap[s] \in Over => st[s] \in Over
  /\ cancel.pc = "run" => AllOver

\* Whoever is about to end the Run has seen its Steps end.
SettledInv ==
  /\ Ordered
  /\ \A r \in Replicas : loop[r].pc \in {"status", "settle"} => AllOver
  /\ CancelBehind
  /\ run \in RunOver => AllOver

\* Steps that are over stay over.
LEMMA OverStays ==
  ASSUME Forward
  PROVE  /\ \A s \in Steps : st[s] \in Over => st'[s] \in Over
         /\ AllOver => AllOver'
BY DEF Forward, AllOver

\* Without reruns a cancel leaves no live Step behind it.
LEMMA CancelBehindKept ==
  ASSUME MaxReruns = 0, SettledInv, [Next]_vars
  PROVE  CancelBehind'
<1>1. Forward /\ Ordered /\ cancel \in CancelState /\ st \in [Steps -> StepStatus]
  BY StepsForward DEF SettledInv, Ordered, TypeOK, Snapshot
<1>2. CASE UNCHANGED cancel
  <2>1. CASE cancel.pc = "steps"
    BY <1>1, <1>2, <2>1, OverStays, OrderTyped DEF SettledInv, CancelBehind
  <2>2. CASE cancel.pc = "run"
    BY <1>1, <1>2, <2>2, OverStays DEF SettledInv, CancelBehind
  <2>3. CASE cancel.pc = "idle"
    BY <1>2, <2>3 DEF CancelBehind
  <2>4. QED
    BY <1>1, <2>1, <2>2, <2>3 DEF CancelState
<1>3. CASE CancelRead
  <2>1. cancel' = [pc |-> "steps", i |-> 1, snap |-> st]
    BY <1>3 DEF CancelRead
  <2>2. ~\E j \in Index : j < 1
    BY OrderTyped DEF Index
  <2>3. QED
    BY <1>1, <2>1, <2>2, OverStays DEF CancelBehind
<1>4. CASE CancelStep
  <2> DEFINE s == Order[cancel.i]
  <2>1. cancel.pc = "steps" /\ cancel.i \in Index /\ s \in Steps
    BY <1>1, <1>4, OrderTyped DEF CancelStep, CancelState
  <2>2. st'[s] \in Over
    <3>1. CASE CancelDue(s)
      BY <1>1, <1>4, <2>1, <3>1 DEF CancelStep, CancelCommit, MoveStep, Over
    <3>2. CASE ~CancelDue(s)
      BY <1>1, <2>1, <3>2, OverStays DEF CancelDue, SettledInv, CancelBehind
    <3>3. QED
      BY <3>1, <3>2
  <2>3. \A j \in Index : j < cancel.i => st'[Order[j]] \in Over
    BY <1>1, <2>1, OverStays, OrderTyped DEF SettledInv, CancelBehind
  <2>4. \A j \in Index : j <= cancel.i => st'[Order[j]] \in Over
    BY <2>1, <2>2, <2>3 DEF Index
  <2>5. CASE cancel.i < Len(Order)
    <3>1. /\ cancel'.pc = "steps" /\ cancel'.i = cancel.i + 1
          /\ cancel'.snap = cancel.snap
      BY <1>1, <1>4, <2>1, <2>5 DEF CancelStep, CancelState
    <3>2. \A j \in Index : j < cancel.i + 1 => j <= cancel.i
      BY <2>1 DEF Index
    <3>3. QED
      BY <1>1, <2>1, <2>4, <3>1, <3>2, OverStays DEF SettledInv, CancelBehind
  <2>6. CASE ~(cancel.i < Len(Order))
    <3>1. cancel'.pc = "run"
      BY <1>1, <1>4, <2>1, <2>6 DEF CancelStep, CancelState
    <3>2. \A j \in Index : j <= cancel.i
      BY <2>1, <2>6, OrderTyped DEF Index
    <3>3. ASSUME NEW q \in Steps PROVE st'[q] \in Over
      <4>1. PICK j \in DOMAIN Order : Order[j] = q
        BY RunLifecycleAssumption
      <4>2. j \in Index
        BY <4>1, RunLifecycleAssumption DEF Index
      <4>3. QED
        BY <2>4, <3>2, <4>1, <4>2
    <3>4. QED
      BY <3>1, <3>3 DEF CancelBehind, AllOver
  <2>7. QED
    BY <2>5, <2>6
<1>5. CASE CancelRun
  BY <1>5 DEF CancelRun, CancelBehind, IdleCancel
<1>6. ASSUME NEW r \in Replicas, Admit(r) \/ Advance(r) PROVE UNCHANGED cancel
  BY <1>6 DEF Admit, AdmitBegin, AdmitIdentities, AdmitUnchanged, AdmitPromote, AdmitSkip,
              AdmitPass, AdmitClaim, FencedOff, Advance, AdvanceRead, AdvanceStatus,
              AdvanceCommit
<1>7. ASSUME NEW s \in Steps, Drive(s) PROVE UNCHANGED cancel
  BY <1>7 DEF Drive, Launch, Succeed, Fail, actors
<1>8. ASSUME Rerun \/ NewLeader \/ UNCHANGED vars PROVE UNCHANGED cancel
  BY <1>8 DEF Rerun, RerunRead, RetryRead, RerunClear, RerunReopen, RerunRearm, NewLeader, vars
<1>9. QED
  BY <1>2, <1>3, <1>4, <1>5, <1>6, <1>7, <1>8 DEF Next, CancelRequest

\* Without reruns SettledInv is inductive.
LEMMA SettledKept == ASSUME MaxReruns = 0 PROVE SettledInv /\ [Next]_vars => SettledInv'
<1> SUFFICES ASSUME SettledInv, [Next]_vars PROVE SettledInv'
  OBVIOUS
<1>1. /\ Forward /\ Ordered /\ Ordered' /\ CancelBehind'
      /\ loop \in [Replicas -> LoopState] /\ api.pc = "idle" /\ count.reruns \in Nat
  BY StepsForward, OrderedInvariant, CancelBehindKept DEF SettledInv, Ordered, TypeOK
<1>2. AllOver => AllOver'
  BY <1>1, OverStays
<1>3. ASSUME NEW r \in Replicas, loop'[r].pc \in {"status", "settle"} PROVE AllOver'
  <2>1. SUFFICES loop[r].pc \in {"status", "settle"} \/ AllOver
    BY <1>2, <2>1 DEF SettledInv
  <2>2. ASSUME NEW q \in Replicas, Admit(q)
        PROVE  loop[r].pc \in {"status", "settle"}
    <3>1. loop'[q].pc \in {"idle", "ids", "steps", "claim"}
      BY <1>1, <2>2 DEF Admit, AdmitBegin, AdmitIdentities, AdmitUnchanged, AdmitPromote,
         AdmitSkip, AdmitPass, AdmitClaim, FencedOff, AdmitMove, Leave, IdleLoop, LoopState
    <3>2. q # r => loop'[r] = loop[r]
      BY <1>1, <2>2 DEF Admit, AdmitBegin, AdmitIdentities, AdmitUnchanged, AdmitPromote,
         AdmitSkip, AdmitPass, AdmitClaim, FencedOff, AdmitMove, Leave
    <3>3. QED
      BY <1>3, <3>1, <3>2
  <2>3. ASSUME NEW q \in Replicas, Advance(q)
        PROVE  loop[r].pc \in {"status", "settle"} \/ AllOver
    <3>1. AdvanceRead(q) => AllOver
      BY DEF AdvanceRead, AllOver
    <3>2. CASE AdvanceStatus(q) \/ AdvanceCommit(q)
      <4>1. q # r => loop'[r] = loop[r]
        BY <1>1, <3>2 DEF AdvanceStatus, AdvanceCommit, Leave
      <4>2. loop[q].pc \in {"status", "settle"}
        BY <3>2 DEF AdvanceStatus, AdvanceCommit, LoopAt
      <4>3. QED
        BY <1>3, <4>1, <4>2
    <3>3. QED
      BY <2>3, <3>1, <3>2 DEF Advance
  <2>4. ASSUME NEW s \in Steps, Drive(s) PROVE loop' = loop
    BY <2>4 DEF Drive, Launch, Succeed, Fail, actors
  <2>5. ~Rerun
    BY <1>1 DEF Rerun, RerunRead, RetryRead, RerunClear, RerunReopen, RerunRearm
  <2>6. ASSUME CancelRequest \/ NewLeader \/ UNCHANGED vars PROVE loop' = loop
    BY <2>6 DEF CancelRequest, CancelRead, CancelStep, CancelRun, NewLeader, vars
  <2>7. QED
    BY <1>3, <2>2, <2>3, <2>4, <2>5, <2>6 DEF Next
<1>4. ASSUME run' \in RunOver PROVE AllOver'
  <2>1. SUFFICES run \in RunOver \/ AllOver
    BY <1>2, <2>1 DEF SettledInv
  <2>2. ASSUME NEW r \in Replicas, Admit(r) PROVE run' = run
    BY <2>2 DEF Admit, AdmitBegin, AdmitIdentities, AdmitUnchanged, AdmitPromote, AdmitSkip,
                AdmitPass, AdmitClaim, FencedOff, runRow
  <2>3. ASSUME NEW r \in Replicas, Advance(r) PROVE run' = run \/ AllOver
    <3>1. AdvanceCommit(r) => AllOver
      BY DEF AdvanceCommit, LoopAt, SettledInv
    <3>2. QED
      BY <2>3, <3>1 DEF Advance, AdvanceRead, AdvanceStatus, runRow
  <2>4. ASSUME NEW s \in Steps, Drive(s) PROVE run' = run
    BY <2>4 DEF Drive, Launch, Succeed, Fail, runRow
  <2>5. ~Rerun
    BY <1>1 DEF Rerun, RerunRead, RetryRead, RerunClear, RerunReopen, RerunRearm
  <2>6. ASSUME CancelRequest PROVE run' = run \/ AllOver
    <3>1. CancelRun => AllOver
      BY DEF CancelRun, SettledInv, CancelBehind
    <3>2. QED
      BY <2>6, <3>1 DEF CancelRequest, CancelRead, CancelStep, runRow
  <2>7. ASSUME NewLeader \/ UNCHANGED vars PROVE run' = run
    BY <2>7 DEF NewLeader, vars, runRow
  <2>8. QED
    BY <1>4, <2>2, <2>3, <2>4, <2>5, <2>6, <2>7 DEF Next
<1>5. QED
  BY <1>1, <1>3, <1>4 DEF SettledInv

\* Without reruns a terminal Run has no Step left waiting or running, whatever
\* the graph and however admission, drivers, advance and cancels interleave:
\* whoever ends the Run saw every Step end, and an ended Step stays ended.  The
\* hypothesis is needed: with a rerun it is false (the run run_reopen).
THEOREM Settled == ASSUME MaxReruns = 0 PROVE Spec => []SettledIsSettled
<1>1. Init => SettledInv
  <2> SUFFICES ASSUME Init PROVE SettledInv
    OBVIOUS
  <2>1. run \notin RunOver /\ cancel.pc = "idle" /\ \A r \in Replicas : loop[r].pc = "idle"
    BY DEF Init, RunOver, IdleCancel, IdleLoop
  <2>2. QED
    BY <2>1, OrderedInvariant DEF SettledInv, CancelBehind
<1>2. SettledInv => SettledIsSettled
  BY DEF SettledInv, SettledIsSettled, AllOver
<1>3. QED
  BY <1>1, <1>2, SettledKept, PTL DEF Spec

=============================================================================
