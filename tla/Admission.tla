----------------------------- MODULE Admission -----------------------------
(***************************************************************************)
(* How Runs come to run: a server creates a Run in several writes, the     *)
(* leader's sweep ends one whose creation stopped, and the leader starts a *)
(* Pending Run after cancelling the older ones it supersedes, under the    *)
(* caps and with its concurrency group's slot.  A Run that runs is one     *)
(* step here: it may suspend, settle, be cancelled and be reopened         *)
(* (RunLifecycle, GateWaits).                                              *)
(***************************************************************************)
EXTENDS Naturals, Sequences, FiniteSets

CONSTANTS
  Runs,        \* the Runs that may be created: numbers, in order of created_at
  Group,       \* [Runs -> groups], NoGroup for none
  NoGroup,
  CancelsHolder,   \* the Runs whose policy is cancel-in-progress
  Keyed,       \* the Runs that get the (one) supersede key
  Replicas,    \* the server processes that run a scheduler loop
  GlobalCap,   \* global_run_cap
  ProjectCap,  \* project_run_cap (all Runs are of one project)
  Nobody,      \* a free slot's holder
  MaxFaults, MaxCancels, MaxReruns   \* bounds: faults and leader changes, cancels, reruns

Groups == {Group[x] : x \in Runs} \ {NoGroup}

ASSUME AdmissionAssumption ==
  /\ Runs \subseteq Nat /\ CancelsHolder \subseteq Runs /\ Keyed \subseteq Runs
  /\ Replicas # {} /\ GlobalCap \in Nat \ {0} /\ ProjectCap \in Nat \ {0}
  /\ Nobody \notin Runs /\ {MaxFaults, MaxCancels, MaxReruns} \subseteq Nat

VARIABLES
  status,    \* each Run's status, "none" before it is created
  elders,    \* history: the Runs whose key was written when each keyed Run's creation began
  creating,  \* the Runs whose row says `creating`
  keyed,     \* the Runs whose supersede key is written
  maker,     \* where each Run's creating server is
  old,       \* the Runs still being created that are older than unfinished_creation_bound_ms
  slot,      \* concurrency_slots: each group's holder
  owes,      \* the Runs some process still has to release the slot of
  gutted,    \* the Runs whose Steps a cancel has ended
  leader,    \* the replica that holds the lease
  pass,      \* each replica's leg: sweep, or one Run's admission
  count

vars == <<status, elders, creating, keyed, maker, old, slot, owes, gutted, leader, pass, count>>

InFlight == {"Running", "Suspended"}
Over == {"Over"}   \* every terminal status: none is told apart here
Live == {"Pending"} \cup InFlight

IdlePass == [pc |-> "idle", run |-> Nobody, todo |-> {}, victim |-> Nobody, after |-> "idle",
             seen |-> "none"]

\* The type of the state.  Nobody but a created Run holds a slot or runs.
AdmissionTypeOK ==
  /\ status \in [Runs -> {"none"} \cup Live \cup Over]
  /\ elders \in [Runs -> SUBSET Runs]
  /\ creating \subseteq Runs /\ keyed \subseteq Keyed /\ old \subseteq Runs
  /\ \A x \in creating : status[x] \notin InFlight
  /\ maker \in [Runs -> {"idle", "key", "finish", "fail"}]
  /\ slot \in [Groups -> Runs \cup {Nobody}]
  /\ owes \subseteq Runs /\ gutted \subseteq Runs
  /\ leader \in Replicas
  /\ \A r \in Replicas : pass[r].pc \in {"idle", "sweep", "older", "cancel", "commit", "release", "slot", "start"}
  /\ count \in [faults : Nat, cancels : Nat, reruns : Nat]

Init ==
  /\ status = [x \in Runs |-> "none"] /\ elders = [x \in Runs |-> {}]
  /\ creating = {} /\ keyed = {} /\ maker = [x \in Runs |-> "idle"] /\ old = {}
  /\ slot = [g \in Groups |-> Nobody] /\ owes = {} /\ gutted = {}
  /\ leader \in Replicas /\ pass = [r \in Replicas |-> IdlePass]
  /\ count = [faults |-> 0, cancels |-> 0, reruns |-> 0]

Moves(x, to) == status' = [status EXCEPT ![x] = to]

-----------------------------------------------------------------------------
(* persist_run_from_ir: the creating server.                               *)

\* `begin_run_creation`.
BeginCreation(x) ==
  /\ status[x] = "none" /\ \A y \in Runs : y < x => status[y] # "none"
  /\ Moves(x, "Pending")
  /\ elders' = [elders EXCEPT ![x] = IF x \in Keyed THEN keyed ELSE {}]
  /\ creating' = creating \cup {x}
  /\ maker' = [maker EXCEPT ![x] = IF x \in Keyed THEN "key" ELSE "finish"]
  /\ UNCHANGED <<keyed, old, slot, owes, gutted, leader, pass, count>>

\* `write_run_from_ir`, up to the supersede key.
WriteKey(x) ==
  /\ maker[x] = "key"
  /\ keyed' = keyed \cup {x} /\ maker' = [maker EXCEPT ![x] = "finish"]
  /\ UNCHANGED <<status, elders, creating, old, slot, owes, gutted, leader, pass, count>>

Fault == count.faults < MaxFaults /\ count' = [count EXCEPT !.faults = @ + 1]

\* `finish_run_creation`.
FinishCreation(x) ==
  /\ maker[x] = "finish"
  /\ creating' = creating \ {x} /\ maker' = [maker EXCEPT ![x] = "idle"]
  /\ UNCHANGED <<status, elders, keyed, old, slot, owes, gutted, leader, pass, count>>

\* A write fails; the last one may have landed all the same.
WriteFails(x) ==
  /\ maker[x] \in {"key", "finish"} /\ Fault
  /\ \/ UNCHANGED creating
     \/ maker[x] = "finish" /\ creating' = creating \ {x}
  /\ maker' = [maker EXCEPT ![x] = "fail"]
  /\ UNCHANGED <<status, elders, keyed, old, slot, owes, gutted, leader, pass>>

\* `fail_run_creation` then: from Pending, or a conflict.
FailCreation(x) ==
  /\ maker[x] = "fail"
  /\ IF status[x] = "Pending" THEN Moves(x, "Over") ELSE UNCHANGED status
  /\ maker' = [maker EXCEPT ![x] = "idle"]
  /\ UNCHANGED <<elders, creating, keyed, old, slot, owes, gutted, leader, pass, count>>

\* The creating server stops.
MakerStops(x) ==
  /\ maker[x] # "idle" /\ Fault
  /\ maker' = [maker EXCEPT ![x] = "idle"]
  /\ UNCHANGED <<status, elders, creating, keyed, old, slot, owes, gutted, leader, pass>>

\* A Run gets older than the sweep's bound.
GrowsOld(x) ==
  /\ status[x] = "Pending" /\ x \in creating \ old /\ old' = old \cup {x}
  /\ UNCHANGED <<status, elders, creating, keyed, maker, slot, owes, gutted, leader, pass, count>>

-----------------------------------------------------------------------------
(* The leader: sweep_unfinished_creations, then admit_as_leader.           *)

At(r, pc) == pass[r].pc = pc
Goes(r, p) == pass' = [pass EXCEPT ![r] = p]
Leave(r) == Goes(r, IdlePass)

\* Mutant: the bound is compared the other way round.
UnfinishedSince == {x \in creating \ old : status[x] = "Pending"}

\* `unfinished_creations_before`.
Unfinished == {x \in creating \cap old : status[x] = "Pending"}

SweepRead(r) ==
  /\ At(r, "idle") /\ leader = r /\ Unfinished # {}
  /\ Goes(r, [IdlePass EXCEPT !.pc = "sweep", !.todo = Unfinished])
  /\ UNCHANGED <<status, elders, creating, keyed, maker, old, slot, owes, gutted, leader, count>>

\* `fail_run_creation_as`, fenced.
SweepFail(r) ==
  \E x \in pass[r].todo :
    /\ At(r, "sweep") /\ leader = r
    /\ IF status[x] = "Pending" THEN Moves(x, "Over") ELSE UNCHANGED status
    /\ Goes(r, IF pass[r].todo = {x} THEN IdlePass ELSE [pass[r] EXCEPT !.todo = @ \ {x}])
    /\ UNCHANGED <<elders, creating, keyed, maker, old, slot, owes, gutted, leader, count>>

\* Mutant: only Runs that already run are superseded.
SupersededInFlight(x) == {y \in keyed : x \in keyed /\ y < x /\ status[y] \in InFlight}

\* `superseded_by`: the older live Runs with the same key.
SupersededBy(x) == {y \in keyed : x \in keyed /\ y < x /\ status[y] \in Live}

\* A Run's Steps are ended, then its status is read.
CancelBegins(r, y, after) ==
  /\ gutted' = gutted \cup {y}
  /\ Goes(r, [pass[r] EXCEPT !.pc = IF status[y] \in Over THEN "release" ELSE "commit",
                             !.victim = y, !.todo = @ \ {y}, !.seen = status[y], !.after = after])

\* Mutant: a Run still being created is active too.
ActiveOnceBegun == {x \in Runs : status[x] \in Live}

\* `active_runs`.
ActiveRuns == {x \in Runs \ creating : status[x] \in Live}

\* An active Run, still Pending, is looked at.
AdmitRead(r, x) ==
  /\ At(r, "idle") /\ leader = r
  /\ x \in ActiveRuns /\ status[x] = "Pending"
  /\ Goes(r, [IdlePass EXCEPT !.pc = "older", !.run = x, !.todo = SupersededBy(x)])
  /\ UNCHANGED <<status, elders, creating, keyed, maker, old, slot, owes, gutted, leader, count>>

\* `cancel_run` of the next older Run: its Steps, unfenced, then its status.
CancelSteps(r) ==
  \/ /\ At(r, "older") /\ \E y \in pass[r].todo : CancelBegins(r, y, "older")
     /\ UNCHANGED <<status, elders, creating, keyed, maker, old, slot, owes, leader, count>>
  \/ /\ At(r, "cancel") /\ CancelBegins(r, pass[r].victim, "idle")
     /\ UNCHANGED <<status, elders, creating, keyed, maker, old, slot, owes, leader, count>>

\* The Run's transition, fenced, from the status read; a conflict is ignored.
CancelCommit(r) ==
  LET y == pass[r].victim IN
  /\ At(r, "commit") /\ leader = r
  /\ IF status[y] = pass[r].seen THEN Moves(y, "Over") ELSE UNCHANGED status
  /\ Goes(r, [pass[r] EXCEPT !.pc = "release"])
  /\ UNCHANGED <<elders, creating, keyed, maker, old, slot, owes, gutted, leader, count>>

\* `release_slot`: the group's slot, if this Run holds it.
Released(x) == IF Group[x] # NoGroup /\ slot[Group[x]] = x THEN [slot EXCEPT ![Group[x]] = Nobody]
               ELSE slot

CancelRelease(r) ==
  /\ At(r, "release")
  /\ slot' = Released(pass[r].victim)
  /\ IF pass[r].after = "older" THEN Goes(r, [pass[r] EXCEPT !.pc = "older", !.victim = Nobody, !.seen = "none", !.after = "idle"])
     ELSE Leave(r)
  /\ UNCHANGED <<status, elders, creating, keyed, maker, old, owes, gutted, leader, count>>

InFlightRuns == {x \in Runs : status[x] \in InFlight}

\* `count_in_flight_runs` and `count_running_runs` leave room.
CapsAllow ==
  /\ Cardinality(InFlightRuns) < GlobalCap
  /\ Cardinality({x \in Runs : status[x] = "Running"}) < ProjectCap

CapsRead(r) ==
  /\ At(r, "older") /\ pass[r].todo = {}
  /\ IF CapsAllow THEN Goes(r, [pass[r] EXCEPT !.pc = "slot"]) ELSE Leave(r)
  /\ UNCHANGED <<status, elders, creating, keyed, maker, old, slot, owes, gutted, leader, count>>

\* Mutant: a Run that waits at its gates lets the slot go.
FreeIfSuspended(x) == slot[Group[x]] \in {Nobody, x} \/ status[slot[Group[x]]] \notin {"Pending", "Running"}

\* Mutant: a holder that settled without releasing keeps the slot.
FreeIfReleased(x) == slot[Group[x]] \in {Nobody, x}

\* The slot is free, this Run's already, or its holder is over.
SlotFree(x) == slot[Group[x]] \in {Nobody, x} \/ status[slot[Group[x]]] \in Over

\* `acquire_slot`, fenced.  A busy slot is waited for; cancel-in-progress
\* cancels its holder first.
AcquireSlot(r) ==
  LET x == pass[r].run IN
  /\ At(r, "slot") /\ leader = r
  /\ IF Group[x] = NoGroup THEN UNCHANGED slot /\ Goes(r, [pass[r] EXCEPT !.pc = "start"])
     ELSE IF SlotFree(x)
     THEN slot' = [slot EXCEPT ![Group[x]] = x] /\ Goes(r, [pass[r] EXCEPT !.pc = "start"])
     ELSE /\ UNCHANGED slot
          /\ IF x \in CancelsHolder
             THEN Goes(r, [pass[r] EXCEPT !.pc = "cancel", !.victim = slot[Group[x]], !.after = "idle"])
             ELSE Leave(r)
  /\ UNCHANGED <<status, elders, creating, keyed, maker, old, owes, gutted, leader, count>>

\* Mutant: the Run's start is not fenced.
Unfenced(r) == TRUE

\* `begin_fenced`: the lease row still names this replica's term.
Fenced(r) == leader = r

\* The Run starts.
Start(r) ==
  LET x == pass[r].run IN
  /\ At(r, "start") /\ Fenced(r)
  /\ IF status[x] = "Pending" THEN Moves(x, "Running") ELSE UNCHANGED status
  /\ Leave(r)
  /\ UNCHANGED <<elders, creating, keyed, maker, old, slot, owes, gutted, leader, count>>

\* A deposed leader's next fenced write is refused.
FencedOff(r) ==
  /\ pass[r].pc \in {"sweep", "commit", "slot", "start"} /\ ~Fenced(r)
  /\ Leave(r)
  /\ UNCHANGED <<status, elders, creating, keyed, maker, old, slot, owes, gutted, leader, count>>

\* Another replica, or a restarted one, takes the lease and begins afresh.
NewLeader(r) ==
  /\ Fault
  /\ leader' = r /\ pass' = [pass EXCEPT ![r] = IdlePass]
  /\ UNCHANGED <<status, elders, creating, keyed, maker, old, slot, owes, gutted>>

-----------------------------------------------------------------------------
(* The rest of a Run's life.                                               *)

\* `advance` settles an active Run whose Steps are over, also one that never
\* started and was cancelled half-way, and then has the slot to release.
\* `dead_letter_run` settles it too.
Settle(x) ==
  /\ status[x] \in InFlight \/ (status[x] = "Pending" /\ x \in gutted \ creating)
  /\ Moves(x, "Over") /\ owes' = owes \cup {x}
  /\ UNCHANGED <<elders, creating, keyed, maker, old, slot, gutted, leader, pass, count>>

\* So has `cancel_run_request`, of any live Run.
CancelRequest(x) ==
  /\ status[x] \in Live /\ count.cancels < MaxCancels
  /\ count' = [count EXCEPT !.cancels = @ + 1]
  /\ Moves(x, "Over") /\ gutted' = gutted \cup {x} /\ owes' = owes \cup {x}
  /\ UNCHANGED <<elders, creating, keyed, maker, old, slot, leader, pass>>

ReleaseSlot(x) ==
  /\ x \in owes /\ owes' = owes \ {x}
  /\ slot' = Released(x)
  /\ UNCHANGED <<status, elders, creating, keyed, maker, old, gutted, leader, pass, count>>

\* The process stops before it does.
ReleaseLost(x) ==
  /\ x \in owes /\ owes' = owes \ {x} /\ Fault
  /\ UNCHANGED <<status, elders, creating, keyed, maker, old, slot, gutted, leader, pass>>

\* Gates suspend a Run, in a leg of its own of the leader's tick; the leader or
\* an API call resumes it.
Suspend(x) ==
  /\ status[x] = "Running" /\ x \notin gutted /\ At(leader, "idle") /\ Moves(x, "Suspended")
  /\ UNCHANGED <<elders, creating, keyed, maker, old, slot, owes, gutted, leader, pass, count>>

Resume(x) ==
  /\ status[x] = "Suspended" /\ Moves(x, "Running")
  /\ UNCHANGED <<elders, creating, keyed, maker, old, slot, owes, gutted, leader, pass, count>>

\* A rerun of a settled Run reopens it (`ensure_creation_finished`).
Reopen(x) ==
  /\ status[x] \in Over /\ x \notin creating /\ count.reruns < MaxReruns
  /\ Moves(x, "Running") /\ gutted' = gutted \ {x}
  /\ count' = [count EXCEPT !.reruns = @ + 1]
  /\ UNCHANGED <<elders, creating, keyed, maker, old, slot, owes, leader, pass>>

-----------------------------------------------------------------------------

Leg(r) ==
  \/ SweepFail(r) \/ CancelSteps(r) \/ CancelCommit(r) \/ CancelRelease(r)
  \/ CapsRead(r) \/ AcquireSlot(r) \/ Start(r) \/ FencedOff(r)

Next ==
  \/ \E x \in Runs : \/ BeginCreation(x) \/ WriteKey(x) \/ FinishCreation(x) \/ WriteFails(x) \/ FailCreation(x)
                     \/ MakerStops(x) \/ GrowsOld(x)
                     \/ Settle(x) \/ CancelRequest(x) \/ ReleaseSlot(x) \/ ReleaseLost(x)
                     \/ Suspend(x) \/ Resume(x) \/ Reopen(x)
  \/ \E r \in Replicas : SweepRead(r) \/ Leg(r) \/ NewLeader(r)
  \/ \E r \in Replicas, x \in Runs : AdmitRead(r, x)

Spec == Init /\ [][Next]_vars

\* The leader loops over the active Runs, after the sweep; a Run that runs
\* settles; time passes.
Fairness ==
  /\ \A r \in Replicas : WF_vars(Leg(r)) /\ SF_vars(SweepRead(r))
  /\ \A r \in Replicas, x \in Runs : SF_vars(AdmitRead(r, x))
  /\ \A x \in Runs : SF_vars(Settle(x)) /\ WF_vars(GrowsOld(x)) /\ WF_vars(ReleaseSlot(x))

FairSpec == Spec /\ Fairness

-----------------------------------------------------------------------------
(* Properties.                                                             *)

\* Two Runs of a concurrency group never both have work, whatever order
\* settles, cancels, releases and leader changes come in: only a Run whose
\* Steps have been cancelled is still in flight without the slot
\* (`acquire_slot`, `release_slot`, `cancel_run`).
OneRunPerGroup ==
  \A x, y \in InFlightRuns \ gutted : (Group[x] # NoGroup /\ Group[x] = Group[y]) => x = y

\* The cap is counted before the start, yet never passed: nobody but one
\* leader starts a Run (`count_in_flight_runs`, `transition_run`).
GlobalCapHolds == Cardinality(InFlightRuns) <= GlobalCap

\* When a Run starts, every older Run it supersedes is over or has had its
\* Steps ended, also one that was Pending or changed status meanwhile; the key
\* must have been written when the newer Run looked.
NewestWins ==
  [][\A x, y \in Runs :
       (/\ status[x] = "Pending" /\ status'[x] = "Running"
        /\ {x, y} \subseteq keyed /\ y < x /\ y \in elders[x])
       => status[y] \in Over \/ y \in gutted]_vars

\* A Run that is waiting to start does: no slot is lost with the process that
\* had to release it.
QueuedRunStarts == \A x \in Runs : (status[x] = "Pending" /\ x \notin creating) ~> status[x] # "Pending"

\* A creation that stopped does not leave its Run Pending for ever.
CreationEnds == \A x \in Runs : (status[x] = "Pending" /\ x \in creating) ~>
                                (status[x] # "Pending" \/ x \notin creating)

=============================================================================
