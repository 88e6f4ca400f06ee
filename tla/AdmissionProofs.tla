-------------------------- MODULE AdmissionProofs --------------------------
(***************************************************************************)
(* Proofs about Admission, for any Runs, groups, keys, caps, replicas and  *)
(* faults: type correctness, that only reruns can pass the global cap,     *)
(* that Runs of one group do not work at once, and that a Run starts only  *)
(* when those it supersedes are done with.                                 *)
(***************************************************************************)
EXTENDS Admission, FiniteSetTheorems, TLAPS

Statuses == {"none"} \cup Live \cup Over
PassPCs == {"idle", "sweep", "older", "cancel", "commit", "release", "slot", "start"}
Passes == [pc : PassPCs, run : Runs \cup {Nobody}, todo : SUBSET Runs, victim : Runs \cup {Nobody},
           after : {"idle", "older"}, seen : Statuses]

\* A pass past its first read is about a Run that has been created, and one
\* past the choice of a Run to cancel has one.
PassInv ==
  /\ pass \in [Replicas -> Passes]
  /\ \A r \in Replicas :
       /\ pass[r].pc \notin {"idle", "sweep"} =>
            pass[r].run \in Runs \ creating /\ status[pass[r].run] # "none"
       /\ \A y \in pass[r].todo : status[y] # "none"
       /\ pass[r].pc \in {"cancel", "commit", "release"} =>
            pass[r].victim \in Runs /\ status[pass[r].victim] # "none"

\* Only a Run that has been created is being created, and its key, if it gets
\* one, is written before that ends.
CreationInv ==
  /\ \A x \in creating : status[x] # "none"
  /\ \A x \in Runs : maker[x] \in {"key", "finish"} => x \in creating
  /\ \A x \in Runs : maker[x] = "key" => x \in Keyed
  /\ \A x \in Runs : maker[x] = "finish" /\ x \in Keyed => x \in keyed
  /\ \A x \in Keyed : status[x] # "none" /\ x \notin creating => x \in keyed
  /\ \A x \in Runs : elders[x] \subseteq keyed
  /\ \A x \in keyed : status[x] # "none"
  /\ \A x \in Runs : maker[x] # "idle" => status[x] # "none"
  /\ \A g \in Groups : slot[g] # Nobody => status[slot[g]] # "none"
  /\ count.reruns <= MaxReruns

TypeInv == AdmissionTypeOK /\ PassInv /\ CreationInv

\* A pass at rest has the type of a pass.
LEMMA IdleIsPass == IdlePass \in Passes
  BY DEF IdlePass, Passes, PassPCs, Statuses, Live, InFlight, Over
  
\* The group of a Run has a slot, or there is none.
LEMMA GroupOfRun == \A x \in Runs : Group[x] # NoGroup => Group[x] \in Groups
  BY DEF Groups

\* What a pass must be: its type, a created Run once it has looked at one, and
\* a Run to cancel once it has chosen it.
GoodPass(p) ==
  /\ p \in Passes
  /\ p.pc \notin {"idle", "sweep"} => p.run \in Runs \ creating /\ status[p.run] # "none"
  /\ \A y \in p.todo : status[y] # "none"
  /\ p.pc \in {"cancel", "commit", "release"} => p.victim \in Runs /\ status[p.victim] # "none"

\* A pass at rest is good.
LEMMA IdleIsGood == GoodPass(IdlePass)
  BY IdleIsPass DEF GoodPass, IdlePass

\* A replica that goes on to a good pass keeps the passes good.
LEMMA PassMoves ==
  ASSUME PassInv, NEW r \in Replicas, NEW p, GoodPass(p), Goes(r, p), creating' = creating,
         \A x \in Runs : status[x] # "none" => status'[x] # "none"
  PROVE  PassInv'
<1>1. pass' \in [Replicas -> Passes] BY DEF PassInv, Goes, GoodPass
<1>2. ASSUME NEW q \in Replicas PROVE pass'[q] = IF q = r THEN p ELSE pass[q]
  BY DEF PassInv, Goes
<1>3. \A q \in Replicas : pass'[q].todo \subseteq Runs BY <1>1 DEF Passes
<1>4. QED BY <1>1, <1>2, <1>3 DEF PassInv, GoodPass

\* Type correctness is inductive: one step per action; the leader's steps go on
\* to a good pass.
LEMMA TypeStep == TypeInv /\ [Next]_vars => TypeInv'
<1> SUFFICES ASSUME TypeInv, [Next]_vars PROVE TypeInv'
  OBVIOUS
<1> USE AdmissionAssumption DEF TypeInv, InFlight, Live, Over
<1>1. ASSUME NEW x \in Runs, BeginCreation(x) PROVE TypeInv'
  BY <1>1 DEF BeginCreation, Moves, AdmissionTypeOK, PassInv, CreationInv
<1>2. ASSUME NEW x \in Runs, WriteKey(x) PROVE TypeInv'
  BY <1>2 DEF WriteKey, AdmissionTypeOK, PassInv, CreationInv
<1>3. ASSUME NEW x \in Runs, FinishCreation(x) PROVE TypeInv'
  BY <1>3 DEF FinishCreation, AdmissionTypeOK, PassInv, CreationInv
<1>4. ASSUME NEW x \in Runs, WriteFails(x) PROVE TypeInv'
  BY <1>4 DEF WriteFails, Fault, AdmissionTypeOK, PassInv, CreationInv
<1>5. ASSUME NEW x \in Runs, FailCreation(x) PROVE TypeInv'
  <2>1. /\ \A y \in Runs : status[y] # "none" => status'[y] # "none"
        /\ \A q \in Replicas : pass[q].todo \subseteq Runs
    BY <1>5 DEF FailCreation, Moves, AdmissionTypeOK, PassInv, Passes
  <2>2. PassInv' BY <1>5, <2>1 DEF FailCreation, PassInv
  <2>3. QED BY <1>5, <2>2 DEF FailCreation, Moves, AdmissionTypeOK, CreationInv
<1>6. ASSUME NEW x \in Runs, MakerStops(x) PROVE TypeInv'
  BY <1>6 DEF MakerStops, Fault, AdmissionTypeOK, PassInv, CreationInv
<1>7. ASSUME NEW x \in Runs, GrowsOld(x) PROVE TypeInv'
  BY <1>7 DEF GrowsOld, AdmissionTypeOK, PassInv, CreationInv
<1>8. ASSUME NEW x \in Runs, Settle(x) PROVE TypeInv'
  BY <1>8 DEF Settle, Moves, AdmissionTypeOK, PassInv, CreationInv
<1>9. ASSUME NEW x \in Runs, CancelRequest(x) PROVE TypeInv'
  BY <1>9 DEF CancelRequest, Moves, AdmissionTypeOK, PassInv, CreationInv
<1>10. ASSUME NEW x \in Runs, ReleaseSlot(x) PROVE TypeInv'
  BY <1>10, GroupOfRun DEF ReleaseSlot, Released, AdmissionTypeOK, PassInv, CreationInv
<1>11. ASSUME NEW x \in Runs, ReleaseLost(x) PROVE TypeInv'
  BY <1>11 DEF ReleaseLost, Fault, AdmissionTypeOK, PassInv, CreationInv
<1>12. ASSUME NEW x \in Runs, Suspend(x) PROVE TypeInv'
  BY <1>12 DEF Suspend, Moves, AdmissionTypeOK, PassInv, CreationInv
<1>13. ASSUME NEW x \in Runs, Resume(x) PROVE TypeInv'
  BY <1>13 DEF Resume, Moves, AdmissionTypeOK, PassInv, CreationInv
<1>14. ASSUME NEW x \in Runs, Reopen(x) PROVE TypeInv'
  BY <1>14 DEF Reopen, Moves, AdmissionTypeOK, PassInv, CreationInv
<1>p. ASSUME PassInv' PROVE \A r \in Replicas : pass'[r].pc \in PassPCs
  BY <1>p DEF PassInv, Passes
<1>15. ASSUME NEW r \in Replicas, SweepRead(r) PROVE TypeInv'
  <2> DEFINE p == [IdlePass EXCEPT !.pc = "sweep", !.todo = Unfinished]
  <2>1. GoodPass(p)
    BY DEF GoodPass, Passes, PassPCs, Statuses, IdlePass, Unfinished, AdmissionTypeOK
  <2>2. PassInv' BY <1>15, <2>1, PassMoves DEF SweepRead
  <2>3. QED BY <1>15, <1>p, <2>2 DEF SweepRead, AdmissionTypeOK, CreationInv, PassPCs
<1>16. ASSUME NEW r \in Replicas, SweepFail(r) PROVE TypeInv'
  <2>0. PICK x \in pass[r].todo :
          /\ At(r, "sweep") /\ leader = r
          /\ IF status[x] = "Pending" THEN Moves(x, "Over") ELSE UNCHANGED status
          /\ Goes(r, IF pass[r].todo = {x} THEN IdlePass ELSE [pass[r] EXCEPT !.todo = @ \ {x}])
          /\ UNCHANGED <<elders, creating, keyed, maker, old, slot, owes, gutted, leader, count>>
    BY <1>16 DEF SweepFail
  <2> DEFINE p == IF pass[r].todo = {x} THEN IdlePass ELSE [pass[r] EXCEPT !.todo = @ \ {x}]
  <2>a. pass[r] \in Passes /\ x \in Runs BY DEF PassInv, Passes
  <2>1. GoodPass(p)
    <3>1. CASE pass[r].todo = {x} BY <3>1, IdleIsGood
    <3>2. CASE pass[r].todo # {x} BY <3>2, <2>0, <2>a DEF GoodPass, Passes, At, PassInv
    <3>3. QED BY <3>1, <3>2
  <2>s. /\ status' \in [Runs -> {"none"} \cup Live \cup Over]
        /\ \A y \in Runs : status[y] # "none" <=> status'[y] # "none"
        /\ \A y \in creating : status'[y] \notin InFlight
    BY <2>0, <2>a DEF Moves, AdmissionTypeOK
  <2>2. PassInv' BY <2>0, <2>1, <2>s, PassMoves
  <2>3. QED BY <2>0, <1>p, <2>2, <2>s DEF AdmissionTypeOK, CreationInv, PassPCs
<1>17. ASSUME NEW r \in Replicas, CancelSteps(r) PROVE TypeInv'
  <2>1. PICK y \in Runs, after \in {"older", "idle"} :
          status[y] # "none" /\ At(r, IF after = "older" THEN "older" ELSE "cancel") /\ CancelBegins(r, y, after)
    <3>1. pass[r] \in Passes BY DEF PassInv
    <3>2. QED BY <1>17, <3>1 DEF CancelSteps, PassInv, Passes, At
  <2> DEFINE p == [pass[r] EXCEPT !.pc = IF status[y] \in Over THEN "release" ELSE "commit",
                                  !.victim = y, !.todo = @ \ {y}, !.seen = status[y], !.after = after]
  <2>2. pass[r] \in Passes /\ status[y] \in Statuses BY DEF PassInv, AdmissionTypeOK, Statuses
  <2>3. /\ p \in Passes /\ p.pc \in {"release", "commit"} /\ p.run = pass[r].run /\ p.victim = y
        /\ p.todo = pass[r].todo \ {y}
    BY <2>2 DEF Passes, PassPCs
  <2> HIDE DEF p
  <2>4. GoodPass(p) BY <2>1, <2>2, <2>3 DEF GoodPass, PassInv, At
  <2>u. UNCHANGED <<status, elders, creating, keyed, maker, old, slot, owes, leader, count>>
    BY <1>17 DEF CancelSteps
  <2>5. gutted' = gutted \cup {y} /\ Goes(r, p) BY <2>1 DEF CancelBegins, p
  <2>6. PassInv' BY <2>4, <2>5, <2>u, PassMoves
  <2>7. QED BY <1>p, <2>5, <2>6, <2>u DEF AdmissionTypeOK, CreationInv, PassPCs
<1>18. ASSUME NEW r \in Replicas, CancelCommit(r) PROVE TypeInv'
  <2>1. pass[r] \in Passes /\ pass[r].victim \in Runs /\ status[pass[r].victim] # "none"
    BY <1>18 DEF CancelCommit, At, PassInv
  <2>2. GoodPass([pass[r] EXCEPT !.pc = "release"])
    BY <1>18, <2>1 DEF CancelCommit, At, PassInv, GoodPass, Passes, PassPCs
  <2>s. /\ status' \in [Runs -> {"none"} \cup Live \cup Over]
        /\ \A x \in Runs : status[x] # "none" <=> status'[x] # "none"
        /\ \A x \in creating : status'[x] \notin InFlight
    BY <1>18, <2>1 DEF CancelCommit, Moves, AdmissionTypeOK
  <2>3. PassInv' BY <1>18, <2>2, <2>s, PassMoves DEF CancelCommit
  <2>4. QED BY <1>18, <1>p, <2>3, <2>s DEF CancelCommit, AdmissionTypeOK, CreationInv, PassPCs
<1>19. ASSUME NEW r \in Replicas, CancelRelease(r) PROVE TypeInv'
  <2>1. pass[r] \in Passes /\ pass[r].victim \in Runs BY <1>19 DEF CancelRelease, At, PassInv
  <2>2. GoodPass([pass[r] EXCEPT !.pc = "older", !.victim = Nobody, !.seen = "none", !.after = "idle"])
    BY <1>19, <2>1 DEF CancelRelease, At, PassInv, GoodPass, Passes, PassPCs, Statuses
  <2>3. PassInv' BY <1>19, <2>2, IdleIsGood, PassMoves DEF CancelRelease, Leave
  <2>4. /\ slot' \in [Groups -> Runs \cup {Nobody}]
        /\ \A g \in Groups : slot'[g] # Nobody => status[slot'[g]] # "none"
    BY <1>19, <2>1, GroupOfRun DEF CancelRelease, Released, AdmissionTypeOK, CreationInv
  <2>5. QED BY <1>19, <1>p, <2>3, <2>4 DEF CancelRelease, AdmissionTypeOK, CreationInv, PassPCs
<1>20. ASSUME NEW r \in Replicas, CapsRead(r) PROVE TypeInv'
  <2>1. GoodPass([pass[r] EXCEPT !.pc = "slot"])
    BY <1>20 DEF CapsRead, At, PassInv, GoodPass, Passes, PassPCs
  <2>2. PassInv' BY <1>20, <2>1, IdleIsGood, PassMoves DEF CapsRead, Leave
  <2>3. QED BY <1>20, <1>p, <2>2 DEF CapsRead, AdmissionTypeOK, CreationInv, PassPCs
<1>21. ASSUME NEW r \in Replicas, AcquireSlot(r) PROVE TypeInv'
  <2> DEFINE x == pass[r].run
  <2>1. pass[r] \in Passes /\ x \in Runs BY <1>21 DEF AcquireSlot, At, PassInv
  <2>2. GoodPass([pass[r] EXCEPT !.pc = "start"])
    BY <1>21, <2>1 DEF AcquireSlot, At, PassInv, GoodPass, Passes, PassPCs
  <2>3. ASSUME Group[x] # NoGroup, ~SlotFree(x)
        PROVE  GoodPass([pass[r] EXCEPT !.pc = "cancel", !.victim = slot[Group[x]], !.after = "idle"])
    <3>1. slot[Group[x]] \in Runs /\ status[slot[Group[x]]] # "none"
      BY <2>1, <2>3, GroupOfRun DEF SlotFree, AdmissionTypeOK, CreationInv
    <3>2. QED BY <1>21, <2>1, <3>1 DEF AcquireSlot, At, PassInv, GoodPass, Passes, PassPCs
  <2>4. PassInv'
    BY <1>21, <2>2, <2>3, IdleIsGood, PassMoves DEF AcquireSlot, Leave
  <2>5. /\ slot' \in [Groups -> Runs \cup {Nobody}]
        /\ \A g \in Groups : slot'[g] # Nobody => status[slot'[g]] # "none"
    BY <1>21, <2>1, GroupOfRun DEF AcquireSlot, At, AdmissionTypeOK, PassInv, CreationInv
  <2>6. QED BY <1>21, <1>p, <2>4, <2>5 DEF AcquireSlot, AdmissionTypeOK, CreationInv, PassPCs
<1>22. ASSUME NEW r \in Replicas, Start(r) PROVE TypeInv'
  <2>1. pass[r].run \in Runs \ creating /\ status[pass[r].run] # "none"
    BY <1>22 DEF Start, At, PassInv
  <2>s. /\ status' \in [Runs -> {"none"} \cup Live \cup Over]
        /\ \A x \in Runs : status[x] # "none" <=> status'[x] # "none"
        /\ \A x \in creating : status'[x] \notin InFlight
    BY <1>22, <2>1 DEF Start, Moves, AdmissionTypeOK
  <2>2. PassInv' BY <1>22, <2>s, IdleIsGood, PassMoves DEF Start, Leave
  <2>3. QED BY <1>22, <1>p, <2>2, <2>s DEF Start, AdmissionTypeOK, CreationInv, PassPCs
<1>23. ASSUME NEW r \in Replicas, FencedOff(r) PROVE TypeInv'
  <2>1. PassInv' BY <1>23, IdleIsGood, PassMoves DEF FencedOff, Leave
  <2>2. QED BY <1>23, <1>p, <2>1 DEF FencedOff, AdmissionTypeOK, CreationInv, PassPCs
<1>24. ASSUME NEW r \in Replicas, NewLeader(r) PROVE TypeInv'
  <2>1. PassInv' BY <1>24, IdleIsGood, PassMoves DEF NewLeader, Goes
  <2>2. QED BY <1>24, <1>p, <2>1 DEF NewLeader, Fault, AdmissionTypeOK, CreationInv, PassPCs
<1>25. ASSUME NEW r \in Replicas, NEW x \in Runs, AdmitRead(r, x) PROVE TypeInv'
  <2> DEFINE p == [IdlePass EXCEPT !.pc = "older", !.run = x, !.todo = SupersededBy(x)]
  <2>1. GoodPass(p)
    BY <1>25 DEF AdmitRead, ActiveRuns, SupersededBy, GoodPass, IdlePass, Passes, PassPCs, Statuses, AdmissionTypeOK
  <2>2. PassInv' BY <1>25, <2>1, PassMoves DEF AdmitRead
  <2>3. QED BY <1>25, <1>p, <2>2 DEF AdmitRead, AdmissionTypeOK, CreationInv, PassPCs
<1>26. CASE UNCHANGED vars BY <1>26 DEF vars, AdmissionTypeOK, PassInv, CreationInv
<1>27. QED
  BY <1>1, <1>2, <1>3, <1>4, <1>5, <1>6, <1>7, <1>8, <1>9, <1>10, <1>11, <1>12, <1>13, <1>14, <1>15,
     <1>16, <1>17, <1>18, <1>19, <1>20, <1>21, <1>22, <1>23, <1>24, <1>25, <1>26 DEF Next, Leg

\* Before the first Run nothing is out of type.
LEMMA TypeInit == Init => TypeInv
<1> SUFFICES ASSUME Init PROVE TypeInv OBVIOUS
<1>1. pass \in [Replicas -> Passes] /\ \A r \in Replicas : pass[r].pc = "idle" /\ pass[r].todo = {}
  BY IdleIsPass DEF Init, IdlePass
<1>2. PassInv BY <1>1 DEF PassInv
<1>3. CreationInv BY AdmissionAssumption DEF Init, CreationInv
<1>4. AdmissionTypeOK BY <1>1, AdmissionAssumption DEF Init, AdmissionTypeOK
<1>5. QED BY <1>2, <1>3, <1>4 DEF TypeInv

\* Type correctness of the creation, the passes, the slots and the counters.
THEOREM TypeCorrect == Spec => []AdmissionTypeOK
<1>1. QED BY TypeInit, TypeStep, PTL DEF Spec, TypeInv

-----------------------------------------------------------------------------
(* What each of the leader's steps does to the passes.                     *)

\* The other replicas' passes are left alone.
OthersStay(r) == \A q \in Replicas : q # r => pass'[q] = pass[q]

\* A replica that goes on to a pass has it, and the others theirs.
LEMMA GoesTo ==
  ASSUME PassInv, NEW r \in Replicas, NEW p, Goes(r, p)
  PROVE  pass'[r] = p /\ OthersStay(r)
  BY DEF PassInv, Goes, OthersStay

\* `sweep_unfinished_creations` and the end of a pass know no Run.
LEMMA SweepPass ==
  ASSUME PassInv, NEW r \in Replicas, SweepRead(r) \/ SweepFail(r)
  PROVE  pass'[r].pc \in {"idle", "sweep"} /\ OthersStay(r)
<1>1. CASE SweepRead(r)
  <2> DEFINE p == [IdlePass EXCEPT !.pc = "sweep", !.todo = Unfinished]
  <2>1. Goes(r, p) /\ p.pc = "sweep" BY <1>1 DEF SweepRead, IdlePass
  <2> HIDE DEF p
  <2>2. QED BY <2>1, GoesTo
<1>2. CASE SweepFail(r)
  <2>1. PICK x : /\ At(r, "sweep")
                 /\ Goes(r, IF pass[r].todo = {x} THEN IdlePass ELSE [pass[r] EXCEPT !.todo = @ \ {x}])
    BY <1>2 DEF SweepFail
  <2> DEFINE p == IF pass[r].todo = {x} THEN IdlePass ELSE [pass[r] EXCEPT !.todo = @ \ {x}]
  <2>2. p.pc \in {"idle", "sweep"} BY <2>1 DEF PassInv, Passes, At, IdlePass
  <2>3. Goes(r, p) BY <2>1
  <2> HIDE DEF p
  <2>4. QED BY <2>2, <2>3, GoesTo
<1>3. QED BY <1>1, <1>2

\* So does the last step of every pass.
LEMMA LeavePass ==
  ASSUME PassInv, NEW r \in Replicas, Start(r) \/ FencedOff(r) \/ NewLeader(r)
  PROVE  pass'[r].pc = "idle" /\ OthersStay(r)
<1>1. Goes(r, IdlePass) BY DEF Start, FencedOff, NewLeader, Leave, Goes
<1>2. QED BY <1>1, GoesTo DEF IdlePass

\* The Run that is looked at, with the Runs it supersedes.
LEMMA AdmitReadPass ==
  ASSUME PassInv, NEW r \in Replicas, NEW x \in Runs, AdmitRead(r, x)
  PROVE  /\ pass'[r].pc = "older" /\ pass'[r].run = x /\ pass'[r].todo = SupersededBy(x)
         /\ OthersStay(r)
<1> DEFINE p == [IdlePass EXCEPT !.pc = "older", !.run = x, !.todo = SupersededBy(x)]
<1>1. Goes(r, p) BY DEF AdmitRead
<1>2. p.pc = "older" /\ p.run = x /\ p.todo = SupersededBy(x) BY DEF IdlePass
<1> HIDE DEF p
<1>3. QED BY <1>1, <1>2, GoesTo

\* A Run's Steps are ended: it is the pass's victim and off its list.
LEMMA CancelStepsPass ==
  ASSUME PassInv, NEW r \in Replicas, CancelSteps(r)
  PROVE  \E y \in Runs :
           /\ gutted' = gutted \cup {y} /\ OthersStay(r)
           /\ pass'[r].pc \in {"commit", "release"} /\ pass'[r].run = pass[r].run
           /\ pass'[r].victim = y /\ pass'[r].todo = pass[r].todo \ {y}
           /\ pass[r].pc \in {"older", "cancel"}
<1>1. pass[r] \in Passes BY DEF PassInv
<1>2. PICK y \in Runs, after \in {"older", "idle"} : CancelBegins(r, y, after) /\ pass[r].pc \in {"older", "cancel"}
  BY <1>1 DEF CancelSteps, PassInv, Passes, At
<1> DEFINE p == [pass[r] EXCEPT !.pc = IF status[y] \in Over THEN "release" ELSE "commit",
                                !.victim = y, !.todo = @ \ {y}, !.seen = status[y], !.after = after]
<1>3. /\ p.pc \in {"commit", "release"} /\ p.run = pass[r].run /\ p.victim = y
      /\ p.todo = pass[r].todo \ {y}
  BY <1>1 DEF Passes
<1>4. Goes(r, p) /\ gutted' = gutted \cup {y} BY <1>2 DEF CancelBegins
<1> HIDE DEF p
<1>5. QED BY <1>2, <1>3, <1>4, GoesTo

\* Its transition.
LEMMA CancelCommitPass ==
  ASSUME PassInv, NEW r \in Replicas, CancelCommit(r)
  PROVE  /\ pass'[r].pc = "release" /\ pass'[r].run = pass[r].run /\ pass'[r].todo = pass[r].todo
         /\ pass'[r].victim = pass[r].victim /\ pass[r].pc = "commit" /\ OthersStay(r)
<1> DEFINE p == [pass[r] EXCEPT !.pc = "release"]
<1>1. /\ p.pc = "release" /\ p.run = pass[r].run /\ p.victim = pass[r].victim /\ p.todo = pass[r].todo
  BY DEF PassInv, Passes
<1>2. Goes(r, p) /\ pass[r].pc = "commit" BY DEF CancelCommit, At
<1> HIDE DEF p
<1>3. QED BY <1>1, <1>2, GoesTo

\* The slot's release, and back to the list or out.
LEMMA CancelReleasePass ==
  ASSUME PassInv, NEW r \in Replicas, CancelRelease(r)
  PROVE  /\ \/ pass'[r].pc = "idle"
            \/ pass'[r].pc = "older" /\ pass'[r].run = pass[r].run /\ pass'[r].todo = pass[r].todo
         /\ pass[r].pc = "release" /\ OthersStay(r)
<1> DEFINE p == [pass[r] EXCEPT !.pc = "older", !.victim = Nobody, !.seen = "none", !.after = "idle"]
<1>1. p.pc = "older" /\ p.run = pass[r].run /\ p.todo = pass[r].todo BY DEF PassInv, Passes
<1>2. Goes(r, p) \/ Goes(r, IdlePass) BY DEF CancelRelease, Leave
<1>3. pass[r].pc = "release" /\ IdlePass.pc = "idle" BY DEF CancelRelease, At, IdlePass
<1> HIDE DEF p
<1>4. QED BY <1>1, <1>2, <1>3, GoesTo

\* The caps: past an empty list only, and on only where they leave room.
LEMMA CapsReadPass ==
  ASSUME PassInv, NEW r \in Replicas, CapsRead(r)
  PROVE  /\ \/ pass'[r].pc = "idle"
            \/ /\ CapsAllow /\ pass'[r].pc = "slot" /\ pass'[r].run = pass[r].run
               /\ pass'[r].todo = pass[r].todo
         /\ pass[r].pc = "older" /\ pass[r].todo = {} /\ OthersStay(r)
<1> DEFINE p == [pass[r] EXCEPT !.pc = "slot"]
<1>1. p.pc = "slot" /\ p.run = pass[r].run /\ p.todo = pass[r].todo BY DEF PassInv, Passes
<1>2. (CapsAllow /\ Goes(r, p)) \/ Goes(r, IdlePass) BY DEF CapsRead, Leave
<1>3. pass[r].pc = "older" /\ pass[r].todo = {} /\ IdlePass.pc = "idle" BY DEF CapsRead, At, IdlePass
<1> HIDE DEF p
<1>4. QED BY <1>1, <1>2, <1>3, GoesTo

\* The slot: taken, waited for, or its holder to be cancelled.
LEMMA AcquireSlotPass ==
  ASSUME PassInv, NEW r \in Replicas, AcquireSlot(r)
  PROVE  /\ leader = r /\ pass[r].pc = "slot" /\ OthersStay(r)
         /\ \/ pass'[r].pc \in {"idle", "cancel"} /\ slot' = slot
            \/ /\ pass'[r].pc = "start"
               /\ \/ Group[pass[r].run] = NoGroup /\ slot' = slot
                  \/ /\ Group[pass[r].run] # NoGroup /\ SlotFree(pass[r].run)
                     /\ slot' = [slot EXCEPT ![Group[pass[r].run]] = pass[r].run]
         /\ pass'[r].pc # "idle" => pass'[r].run = pass[r].run /\ pass'[r].todo = pass[r].todo
<1> DEFINE x == pass[r].run
           p == [pass[r] EXCEPT !.pc = "start"]
           q == [pass[r] EXCEPT !.pc = "cancel", !.victim = slot[Group[x]], !.after = "idle"]
<1>1. p.pc = "start" /\ p.run = x /\ p.todo = pass[r].todo BY DEF PassInv, Passes
<1>2. q.pc = "cancel" /\ q.run = x /\ q.todo = pass[r].todo BY DEF PassInv, Passes
<1>3. IdlePass.pc = "idle" BY DEF IdlePass
<1>4. /\ leader = r /\ pass[r].pc = "slot"
      /\ \/ /\ Goes(r, p)
            /\ \/ Group[x] = NoGroup /\ slot' = slot
               \/ Group[x] # NoGroup /\ SlotFree(x) /\ slot' = [slot EXCEPT ![Group[x]] = x]
         \/ (Goes(r, q) \/ Goes(r, IdlePass)) /\ slot' = slot
  BY DEF AcquireSlot, At, Leave
<1> HIDE DEF p, q, x
<1>5. CASE /\ Goes(r, p)
           /\ \/ Group[x] = NoGroup /\ slot' = slot
              \/ Group[x] # NoGroup /\ SlotFree(x) /\ slot' = [slot EXCEPT ![Group[x]] = x]
  BY <1>1, <1>4, <1>5, GoesTo DEF x
<1>6. CASE Goes(r, q) /\ slot' = slot BY <1>2, <1>4, <1>6, GoesTo DEF x
<1>7. CASE Goes(r, IdlePass) /\ slot' = slot BY <1>3, <1>4, <1>7, GoesTo
<1>8. QED BY <1>4, <1>5, <1>6, <1>7

-----------------------------------------------------------------------------
\* The caps: no more Runs are in flight than the cap and the reruns account
\* for, and while the leader is between its count and the start of a Run there
\* is room for one more.
CapInv ==
  /\ IsFiniteSet(InFlightRuns)
  /\ Cardinality(InFlightRuns) <= GlobalCap + count.reruns
  /\ pass[leader].pc \in {"slot", "start"} => Cardinality(InFlightRuns) < GlobalCap + count.reruns

\* The slots, before the first rerun: a Run is released by others only when it
\* is over or its Steps have been ended; a working Run holds its group's slot,
\* and so does the one the leader is about to start, unless that has ended.
SlotInv ==
  /\ \A x \in owes : status[x] \in Over
  /\ \A r \in Replicas : pass[r].pc \in {"commit", "release"} => pass[r].victim \in gutted
  /\ \A x \in InFlightRuns \ gutted : Group[x] # NoGroup => slot[Group[x]] = x
  /\ LET x == pass[leader].run IN
     pass[leader].pc = "start" /\ Group[x] # NoGroup =>
       slot[Group[x]] = x \/ x \in gutted \/ status[x] \in Over

\* The supersede key, before the first rerun: of the Runs whose key was written
\* when x's creation began, those older than x are still on the pass's list, are
\* over or have had their Steps ended.
Superseding(x) == {y \in elders[x] : x \in keyed /\ y < x}
NewestInv ==
  \A r \in Replicas :
    /\ pass[r].pc \in {"slot", "start"} => pass[r].todo = {}
    /\ pass[r].pc \notin {"idle", "sweep"} =>
         \A y \in Superseding(pass[r].run) : y \in pass[r].todo \/ status[y] \in Over \/ y \in gutted

\* Nothing but a start or a reopen adds to the Runs in flight, and a step that
\* adds none and does not take the leader past its count keeps the caps.
LEMMA CapKept ==
  ASSUME CapInv, InFlightRuns' \subseteq InFlightRuns, count'.reruns = count.reruns, count.reruns \in Nat,
         pass'[leader'].pc \in {"slot", "start"} => pass[leader].pc \in {"slot", "start"}
  PROVE  CapInv'
<1>1. /\ IsFiniteSet(InFlightRuns') /\ Cardinality(InFlightRuns') <= Cardinality(InFlightRuns)
  BY FS_Subset DEF CapInv
<1>2. Cardinality(InFlightRuns') \in Nat /\ Cardinality(InFlightRuns) \in Nat
  BY <1>1, FS_CardinalityType DEF CapInv
<1>3. QED BY <1>1, <1>2, AdmissionAssumption DEF CapInv

\* A step that adds one Run to those in flight adds at most one to their number.
LEMMA OneMore ==
  ASSUME CapInv, NEW x, InFlightRuns' \subseteq InFlightRuns \cup {x}
  PROVE  /\ IsFiniteSet(InFlightRuns') /\ Cardinality(InFlightRuns') <= Cardinality(InFlightRuns) + 1
         /\ Cardinality(InFlightRuns) \in Nat /\ Cardinality(InFlightRuns') \in Nat
<1>1. IsFiniteSet(InFlightRuns) /\ Cardinality(InFlightRuns) \in Nat
  BY FS_CardinalityType DEF CapInv
<1>2. /\ IsFiniteSet(InFlightRuns \cup {x})
      /\ Cardinality(InFlightRuns \cup {x}) <= Cardinality(InFlightRuns) + 1
  BY <1>1, FS_AddElement
<1>3. /\ IsFiniteSet(InFlightRuns')
      /\ Cardinality(InFlightRuns') <= Cardinality(InFlightRuns \cup {x})
  BY <1>2, FS_Subset
<1>4. /\ Cardinality(InFlightRuns \cup {x}) \in Nat /\ Cardinality(InFlightRuns') \in Nat
  BY <1>2, <1>3, FS_CardinalityType
<1>5. QED BY <1>1, <1>2, <1>3, <1>4

\* The caps are kept by every step.
LEMMA CapStep == TypeInv /\ CapInv /\ [Next]_vars => CapInv'
<1> SUFFICES ASSUME TypeInv, CapInv, [Next]_vars PROVE CapInv'
  OBVIOUS
<1>a. /\ status \in [Runs -> Statuses] /\ leader \in Replicas /\ PassInv
      /\ count \in [faults : Nat, cancels : Nat, reruns : Nat] /\ count.reruns \in Nat
  BY DEF TypeInv, AdmissionTypeOK, Statuses
<1> USE DEF InFlightRuns, InFlight, Over
<1>1. ASSUME NEW x \in Runs, BeginCreation(x) PROVE CapInv'
  BY <1>1, <1>a, CapKept DEF BeginCreation, Moves
<1>2. ASSUME NEW x \in Runs, WriteKey(x) PROVE CapInv'
  BY <1>2, <1>a, CapKept DEF WriteKey
<1>3. ASSUME NEW x \in Runs, FinishCreation(x) PROVE CapInv'
  BY <1>3, <1>a, CapKept DEF FinishCreation
<1>4. ASSUME NEW x \in Runs, WriteFails(x) PROVE CapInv'
  BY <1>4, <1>a, CapKept DEF WriteFails, Fault
<1>5. ASSUME NEW x \in Runs, FailCreation(x) PROVE CapInv'
  BY <1>5, <1>a, CapKept DEF FailCreation, Moves
<1>6. ASSUME NEW x \in Runs, MakerStops(x) PROVE CapInv'
  BY <1>6, <1>a, CapKept DEF MakerStops, Fault
<1>7. ASSUME NEW x \in Runs, GrowsOld(x) PROVE CapInv'
  BY <1>7, <1>a, CapKept DEF GrowsOld
<1>8. ASSUME NEW x \in Runs, Settle(x) PROVE CapInv'
  BY <1>8, <1>a, CapKept DEF Settle, Moves
<1>9. ASSUME NEW x \in Runs, CancelRequest(x) PROVE CapInv'
  BY <1>9, <1>a, CapKept DEF CancelRequest, Moves
<1>10. ASSUME NEW x \in Runs, ReleaseSlot(x) PROVE CapInv'
  BY <1>10, <1>a, CapKept DEF ReleaseSlot
<1>11. ASSUME NEW x \in Runs, ReleaseLost(x) PROVE CapInv'
  BY <1>11, <1>a, CapKept DEF ReleaseLost, Fault
<1>12. ASSUME NEW x \in Runs, Suspend(x) PROVE CapInv'
  BY <1>12, <1>a, CapKept DEF Suspend, Moves
<1>13. ASSUME NEW x \in Runs, Resume(x) PROVE CapInv'
  BY <1>13, <1>a, CapKept DEF Resume, Moves
<1>14. ASSUME NEW x \in Runs, Reopen(x) PROVE CapInv'
  <2>1. InFlightRuns' \subseteq InFlightRuns \cup {x} BY <1>14, <1>a DEF Reopen, Moves
  <2>2. count'.reruns = count.reruns + 1 /\ UNCHANGED <<pass, leader>> BY <1>14, <1>a DEF Reopen
  <2> HIDE DEF InFlightRuns
  <2>3. QED BY <2>1, <2>2, <1>a, OneMore, AdmissionAssumption DEF CapInv
<1>15. ASSUME NEW r \in Replicas, SweepRead(r) PROVE CapInv'
  BY <1>15, <1>a, CapKept, SweepPass DEF SweepRead, OthersStay
<1>16. ASSUME NEW r \in Replicas, SweepFail(r) PROVE CapInv'
  <2>1. PICK x \in pass[r].todo : IF status[x] = "Pending" THEN Moves(x, "Over") ELSE UNCHANGED status
    BY <1>16 DEF SweepFail
  <2>2. UNCHANGED <<leader, count>> BY <1>16 DEF SweepFail
  <2>3. QED BY <1>16, <2>1, <2>2, <1>a, CapKept, SweepPass DEF Moves, OthersStay
<1>17. ASSUME NEW r \in Replicas, CancelSteps(r) PROVE CapInv'
  <2>1. UNCHANGED <<status, leader, count>> BY <1>17 DEF CancelSteps
  <2>2. QED BY <1>17, <2>1, <1>a, CapKept, CancelStepsPass DEF OthersStay
<1>18. ASSUME NEW r \in Replicas, CancelCommit(r) PROVE CapInv'
  BY <1>18, <1>a, CapKept, CancelCommitPass DEF CancelCommit, Moves, OthersStay
<1>19. ASSUME NEW r \in Replicas, CancelRelease(r) PROVE CapInv'
  <2>1. UNCHANGED <<status, leader, count>> BY <1>19 DEF CancelRelease
  <2>2. QED BY <1>19, <2>1, <1>a, CapKept, CancelReleasePass DEF OthersStay
<1>20. ASSUME NEW r \in Replicas, CapsRead(r) PROVE CapInv'
  <2>1. UNCHANGED <<status, leader, count>> BY <1>20 DEF CapsRead
  <2>2. CASE pass'[r].pc = "idle" BY <1>20, <2>1, <2>2, <1>a, CapKept, CapsReadPass DEF OthersStay
  <2>3. CASE CapsAllow
    <3>1. Cardinality(InFlightRuns) < GlobalCap BY <2>3 DEF CapsAllow
    <3>2. Cardinality(InFlightRuns) \in Nat BY FS_CardinalityType DEF CapInv
    <3> HIDE DEF InFlightRuns
    <3>3. Cardinality(InFlightRuns) < GlobalCap + count.reruns
      BY <3>1, <3>2, <1>a, AdmissionAssumption
    <3>4. InFlightRuns' = InFlightRuns BY <2>1 DEF InFlightRuns
    <3>5. QED BY <2>1, <3>3, <3>4 DEF CapInv
  <2>4. QED BY <1>20, <2>2, <2>3, <1>a, CapsReadPass
<1>21. ASSUME NEW r \in Replicas, AcquireSlot(r) PROVE CapInv'
  BY <1>21, <1>a, CapKept DEF AcquireSlot, At
<1>22. ASSUME NEW r \in Replicas, Start(r) PROVE CapInv'
  <2>1. InFlightRuns' \subseteq InFlightRuns \cup {pass[r].run} BY <1>22, <1>a DEF Start, Moves
  <2>2. leader = r /\ pass[r].pc = "start" /\ UNCHANGED <<leader, count>>
    BY <1>22 DEF Start, At, Fenced
  <2> HIDE DEF InFlightRuns
  <2>3. QED BY <1>22, <2>1, <2>2, <1>a, LeavePass, OneMore, AdmissionAssumption DEF CapInv
<1>23. ASSUME NEW r \in Replicas, FencedOff(r) PROVE CapInv'
  BY <1>23, <1>a, CapKept, LeavePass DEF FencedOff, OthersStay
<1>24. ASSUME NEW r \in Replicas, NewLeader(r) PROVE CapInv'
  BY <1>24, <1>a, CapKept, LeavePass DEF NewLeader, Fault
<1>25. ASSUME NEW r \in Replicas, NEW x \in Runs, AdmitRead(r, x) PROVE CapInv'
  BY <1>25, <1>a, CapKept, AdmitReadPass DEF AdmitRead, OthersStay
<1>26. CASE UNCHANGED vars BY <1>26 DEF vars, CapInv
<1>27. QED
  BY <1>1, <1>2, <1>3, <1>4, <1>5, <1>6, <1>7, <1>8, <1>9, <1>10, <1>11, <1>12, <1>13, <1>14, <1>15,
     <1>16, <1>17, <1>18, <1>19, <1>20, <1>21, <1>22, <1>23, <1>24, <1>25, <1>26 DEF Next, Leg

\* Only a rerun is counted as one.
LEMMA RerunsCount ==
  ASSUME TypeInv, [Next]_vars
  PROVE  \/ count'.reruns = count.reruns
         \/ (\E x \in Runs : Reopen(x)) /\ count'.reruns = count.reruns + 1
<1>a. count \in [faults : Nat, cancels : Nat, reruns : Nat] BY DEF TypeInv, AdmissionTypeOK
<1>1. CASE UNCHANGED count BY <1>1
<1>2. CASE Fault BY <1>2, <1>a DEF Fault
<1>3. ASSUME NEW x \in Runs, CancelRequest(x) PROVE count'.reruns = count.reruns
  BY <1>3, <1>a DEF CancelRequest
<1>4. ASSUME NEW x \in Runs, Reopen(x) PROVE count'.reruns = count.reruns + 1
  BY <1>4, <1>a DEF Reopen
<1>5. ASSUME NEW x \in Runs,
             BeginCreation(x) \/ WriteKey(x) \/ FinishCreation(x) \/ FailCreation(x) \/ GrowsOld(x)
             \/ Settle(x) \/ ReleaseSlot(x) \/ Suspend(x) \/ Resume(x)
      PROVE  UNCHANGED count
  BY <1>5 DEF BeginCreation, WriteKey, FinishCreation, FailCreation, GrowsOld, Settle, ReleaseSlot,
              Suspend, Resume
<1>6. ASSUME NEW x \in Runs, WriteFails(x) \/ MakerStops(x) \/ ReleaseLost(x) PROVE Fault
  BY <1>6 DEF WriteFails, MakerStops, ReleaseLost
<1>7. ASSUME NEW r \in Replicas, SweepRead(r) \/ Leg(r) PROVE UNCHANGED count
  BY <1>7 DEF SweepRead, Leg, SweepFail, CancelSteps, CancelCommit, CancelRelease, CapsRead, AcquireSlot,
              Start, FencedOff
<1>8. ASSUME NEW r \in Replicas, NewLeader(r) PROVE Fault BY <1>8 DEF NewLeader
<1>9. ASSUME NEW r \in Replicas, NEW x \in Runs, AdmitRead(r, x) PROVE UNCHANGED count
  BY <1>9 DEF AdmitRead
<1>10. CASE UNCHANGED vars BY <1>10 DEF vars
<1>11. QED BY <1>1, <1>2, <1>3, <1>4, <1>5, <1>6, <1>7, <1>8, <1>9, <1>10 DEF Next

\* The slots' invariant is kept by every step but a rerun.
LEMMA SlotStep ==
  ASSUME TypeInv, SlotInv, [Next]_vars, \A x \in Runs : ~Reopen(x)
  PROVE  SlotInv'
<1>a. /\ status \in [Runs -> Statuses] /\ leader \in Replicas /\ PassInv
      /\ slot \in [Groups -> Runs \cup {Nobody}] /\ owes \subseteq Runs /\ gutted \subseteq Runs
      /\ \A r \in Replicas : pass[r].pc = "start" => pass[r].run \in Runs
  BY DEF TypeInv, AdmissionTypeOK, Statuses, PassInv
<1> USE GroupOfRun, AdmissionAssumption DEF InFlightRuns, InFlight, Over
<1>1. ASSUME NEW x \in Runs, BeginCreation(x) PROVE SlotInv'
  BY <1>1, <1>a DEF SlotInv, BeginCreation, Moves
<1>2. ASSUME NEW x \in Runs, WriteKey(x) PROVE SlotInv'
  BY <1>2, <1>a DEF SlotInv, WriteKey
<1>3. ASSUME NEW x \in Runs, FinishCreation(x) PROVE SlotInv'
  BY <1>3, <1>a DEF SlotInv, FinishCreation
<1>4. ASSUME NEW x \in Runs, WriteFails(x) PROVE SlotInv'
  BY <1>4, <1>a DEF SlotInv, WriteFails
<1>5. ASSUME NEW x \in Runs, FailCreation(x) PROVE SlotInv'
  BY <1>5, <1>a DEF SlotInv, FailCreation, Moves
<1>6. ASSUME NEW x \in Runs, MakerStops(x) PROVE SlotInv'
  BY <1>6, <1>a DEF SlotInv, MakerStops
<1>7. ASSUME NEW x \in Runs, GrowsOld(x) PROVE SlotInv'
  BY <1>7, <1>a DEF SlotInv, GrowsOld
<1>8. ASSUME NEW x \in Runs, Settle(x) PROVE SlotInv'
  BY <1>8, <1>a DEF SlotInv, Settle, Moves
<1>9. ASSUME NEW x \in Runs, CancelRequest(x) PROVE SlotInv'
  BY <1>9, <1>a DEF SlotInv, CancelRequest, Moves
<1>10. ASSUME NEW x \in Runs, ReleaseSlot(x) PROVE SlotInv'
  <2>1. x \in owes /\ status[x] = "Over" BY <1>10 DEF SlotInv, ReleaseSlot
  <2>2. \A g \in Groups : slot[g] # x => slot'[g] = slot[g]
    BY <1>10, <1>a DEF ReleaseSlot, Released
  <2>3. UNCHANGED <<status, gutted, leader, pass>> /\ owes' \subseteq owes BY <1>10 DEF ReleaseSlot
  <2>4. QED BY <2>1, <2>2, <2>3, <1>a DEF SlotInv
<1>11. ASSUME NEW x \in Runs, ReleaseLost(x) PROVE SlotInv'
  BY <1>11, <1>a DEF SlotInv, ReleaseLost
<1>12. ASSUME NEW x \in Runs, Suspend(x) PROVE SlotInv'
  BY <1>12, <1>a DEF SlotInv, Suspend, Moves
<1>13. ASSUME NEW x \in Runs, Resume(x) PROVE SlotInv'
  BY <1>13, <1>a DEF SlotInv, Resume, Moves
<1>15. ASSUME NEW r \in Replicas, SweepRead(r) PROVE SlotInv'
  BY <1>15, <1>a, SweepPass DEF SlotInv, SweepRead, OthersStay
<1>16. ASSUME NEW r \in Replicas, SweepFail(r) PROVE SlotInv'
  <2>1. PICK x \in pass[r].todo : IF status[x] = "Pending" THEN Moves(x, "Over") ELSE UNCHANGED status
    BY <1>16 DEF SweepFail
  <2>2. UNCHANGED <<leader, slot, owes, gutted>> BY <1>16 DEF SweepFail
  <2>3. /\ InFlightRuns' \subseteq InFlightRuns
        /\ \A y \in Runs : status[y] = "Over" => status'[y] = "Over"
    BY <2>1, <1>a DEF Moves
  <2>4. pass'[r].pc \in {"idle", "sweep"} /\ OthersStay(r) BY <1>16, <1>a, SweepPass
  <2> HIDE DEF InFlightRuns
  <2>5. QED BY <2>2, <2>3, <2>4, <1>a DEF SlotInv, OthersStay
<1>17. ASSUME NEW r \in Replicas, CancelSteps(r) PROVE SlotInv'
  <2>1. UNCHANGED <<status, slot, owes, leader>> BY <1>17 DEF CancelSteps
  <2>2. QED BY <1>17, <2>1, <1>a, CancelStepsPass DEF SlotInv, OthersStay
<1>18. ASSUME NEW r \in Replicas, CancelCommit(r) PROVE SlotInv'
  BY <1>18, <1>a, CancelCommitPass DEF SlotInv, CancelCommit, Moves, OthersStay
<1>19. ASSUME NEW r \in Replicas, CancelRelease(r) PROVE SlotInv'
  <2> DEFINE y == pass[r].victim
  <2>1. UNCHANGED <<status, owes, gutted, leader>> /\ slot' = Released(y) BY <1>19 DEF CancelRelease
  <2>2. y \in gutted BY <1>19, <1>a, CancelReleasePass DEF SlotInv
  <2>3. \A g \in Groups : slot[g] # y => slot'[g] = slot[g]
    BY <2>1, <2>2, <1>a DEF Released
  <2>4. pass'[r].pc \in {"idle", "older"} /\ OthersStay(r) BY <1>19, <1>a, CancelReleasePass
  <2> HIDE DEF y
  <2>5. \A x \in InFlightRuns \ gutted : Group[x] # NoGroup => slot'[Group[x]] = x
    BY <2>2, <2>3, <1>a DEF SlotInv
  <2>6. ASSUME pass'[leader].pc = "start", Group[pass[leader].run] # NoGroup
        PROVE  LET x == pass[leader].run IN
               pass'[leader] = pass[leader] /\ (slot'[Group[x]] = x \/ x \in gutted \/ status[x] \in Over)
    BY ZenonT(30), <2>2, <2>3, <2>4, <2>6, <1>a DEF SlotInv, OthersStay
  <2>7. \A q \in Replicas : pass'[q].pc \in {"commit", "release"} => pass'[q].victim \in gutted
    BY <2>4, <1>a DEF SlotInv, OthersStay
  <2>8. pass'[leader].pc = "start" => pass'[leader] = pass[leader] BY <2>4, <1>a DEF OthersStay
  <2>9. QED BY <2>1, <2>5, <2>6, <2>7, <2>8 DEF SlotInv
<1>20. ASSUME NEW r \in Replicas, CapsRead(r) PROVE SlotInv'
  <2>1. UNCHANGED <<status, slot, owes, gutted, leader>> BY <1>20 DEF CapsRead
  <2>2. QED BY <1>20, <2>1, <1>a, CapsReadPass DEF SlotInv, OthersStay
<1>21. ASSUME NEW r \in Replicas, AcquireSlot(r) PROVE SlotInv'
  <2> DEFINE x == pass[r].run
  <2>1. UNCHANGED <<status, owes, gutted, leader>> BY <1>21 DEF AcquireSlot
  <2>2. leader = r /\ pass[r].pc = "slot" /\ OthersStay(r) BY <1>21, <1>a, AcquireSlotPass
  <2>3. x \in Runs BY <2>2, <1>a DEF PassInv
  <2>4. CASE slot' = slot /\ pass'[r].pc \in {"idle", "cancel"}
    BY <2>1, <2>2, <2>4, <1>a DEF SlotInv, OthersStay
  <2>5. CASE slot' = slot /\ pass'[r].pc = "start" /\ pass'[r].run = x /\ Group[x] = NoGroup
    BY <2>1, <2>2, <2>5, <1>a DEF SlotInv, OthersStay
  <2>6. CASE /\ pass'[r].pc = "start" /\ pass'[r].run = x /\ Group[x] # NoGroup /\ SlotFree(x)
             /\ slot' = [slot EXCEPT ![Group[x]] = x]
    <3>1. slot'[Group[x]] = x BY <2>3, <2>6, <1>a
    <3>2. \A y \in InFlightRuns \ gutted : Group[y] # NoGroup => slot'[Group[y]] = y
      BY <2>3, <2>6, <1>a DEF SlotInv, SlotFree
    <3>3. QED BY <2>1, <2>2, <2>6, <3>1, <3>2, <1>a DEF SlotInv, OthersStay
  <2>7. QED BY <1>21, <2>4, <2>5, <2>6, <1>a, AcquireSlotPass
<1>22. ASSUME NEW r \in Replicas, Start(r) PROVE SlotInv'
  <2>1. leader = r /\ pass[r].pc = "start" /\ UNCHANGED <<slot, owes, gutted, leader>>
    BY <1>22 DEF Start, At, Fenced
  <2>2. pass'[r].pc = "idle" /\ OthersStay(r) BY <1>22, <1>a, LeavePass
  <2>3. CASE UNCHANGED status BY <2>1, <2>2, <2>3, <1>a DEF SlotInv, OthersStay
  <2>4. CASE status[pass[r].run] = "Pending" /\ Moves(pass[r].run, "Running")
    BY <2>1, <2>2, <2>4, <1>a DEF SlotInv, OthersStay, Moves
  <2>5. QED BY <1>22, <2>3, <2>4 DEF Start
<1>23. ASSUME NEW r \in Replicas, FencedOff(r) PROVE SlotInv'
  BY <1>23, <1>a, LeavePass DEF SlotInv, FencedOff, OthersStay
<1>24. ASSUME NEW r \in Replicas, NewLeader(r) PROVE SlotInv'
  <2>1. pass'[r].pc = "idle" /\ OthersStay(r) BY <1>24, <1>a, LeavePass
  <2>2. leader' = r /\ UNCHANGED <<status, slot, owes, gutted>> BY <1>24 DEF NewLeader
  <2>3. QED BY <2>1, <2>2, <1>a DEF SlotInv, OthersStay
<1>25. ASSUME NEW r \in Replicas, NEW x \in Runs, AdmitRead(r, x) PROVE SlotInv'
  BY <1>25, <1>a, AdmitReadPass DEF SlotInv, AdmitRead, OthersStay
<1>26. CASE UNCHANGED vars BY <1>26 DEF vars, SlotInv
<1>27. QED
  BY <1>1, <1>2, <1>3, <1>4, <1>5, <1>6, <1>7, <1>8, <1>9, <1>10, <1>11, <1>12, <1>13, <1>15,
     <1>16, <1>17, <1>18, <1>19, <1>20, <1>21, <1>22, <1>23, <1>24, <1>25, <1>26 DEF Next, Leg

\* The supersede key's invariant is kept by every step but a rerun.
LEMMA NewestStep ==
  ASSUME TypeInv, NewestInv, [Next]_vars, \A x \in Runs : ~Reopen(x)
  PROVE  NewestInv'
<1>a. /\ status \in [Runs -> Statuses] /\ PassInv /\ CreationInv
      /\ elders \in [Runs -> SUBSET Runs] /\ keyed \subseteq Runs /\ maker \in [Runs -> {"idle", "key", "finish", "fail"}]
      /\ \A r \in Replicas : pass[r].pc \notin {"idle", "sweep"} =>
                               pass[r].run \in Runs \ creating /\ status[pass[r].run] # "none"
  BY AdmissionAssumption DEF TypeInv, AdmissionTypeOK, Statuses, PassInv
<1>b. \A x \in Runs : \A y \in Superseding(x) : y \in Runs /\ y \in keyed /\ status[y] # "none"
  BY <1>a DEF Superseding, CreationInv
<1>c. ASSUME UNCHANGED <<elders, keyed>> PROVE \A x \in Runs : Superseding(x)' = Superseding(x)
  BY <1>c DEF Superseding
<1>k. ASSUME NEW r \in Replicas, UNCHANGED <<elders, keyed>>, OthersStay(r), gutted \subseteq gutted',
             \A y \in Runs : status[y] = "Over" => status'[y] = "Over",
             pass'[r].pc \notin {"idle", "sweep"} =>
               /\ pass[r].pc \notin {"idle", "sweep"} /\ pass'[r].run = pass[r].run
               /\ \A y \in pass[r].todo : y \in pass'[r].todo \/ status'[y] = "Over" \/ y \in gutted',
             pass'[r].pc \in {"slot", "start"} => pass'[r].todo = {}
      PROVE  NewestInv'
  BY <1>a, <1>b, <1>c, <1>k DEF NewestInv, OthersStay, Over
<1>s. ASSUME UNCHANGED <<elders, keyed, pass>>, gutted \subseteq gutted',
             \A y \in Runs : status[y] = "Over" => status'[y] = "Over"
      PROVE  NewestInv'
  BY <1>a, <1>b, <1>c, <1>s DEF NewestInv, Over
<1>1. ASSUME NEW x \in Runs, BeginCreation(x) PROVE NewestInv'
  <2>1. /\ UNCHANGED <<keyed, pass, gutted>> /\ status[x] = "none"
        /\ status' = [status EXCEPT ![x] = "Pending"]
    BY <1>1 DEF BeginCreation, Moves
  <2>2. \A z \in Runs \ {x} : elders'[z] = elders[z] BY <1>1, <1>a DEF BeginCreation
  <2>3. \A z \in Runs \ {x} : Superseding(z)' = Superseding(z) BY <2>1, <2>2 DEF Superseding
  <2>4. QED BY <2>1, <2>3, <1>a, <1>b DEF NewestInv, Over
<1>2. ASSUME NEW x \in Runs, WriteKey(x) PROVE NewestInv'
  <2>1. x \in creating BY <1>2, <1>a DEF WriteKey, CreationInv
  <2>2. UNCHANGED <<elders, pass, gutted, status>> /\ keyed' = keyed \cup {x} BY <1>2 DEF WriteKey
  <2>3. \A z \in Runs \ {x} : Superseding(z)' = Superseding(z) BY <2>2 DEF Superseding
  <2>4. QED BY <2>1, <2>2, <2>3, <1>a DEF NewestInv
<1>3. ASSUME NEW x \in Runs, FinishCreation(x) PROVE NewestInv'
  BY <1>3, <1>s DEF FinishCreation
<1>4. ASSUME NEW x \in Runs, WriteFails(x) PROVE NewestInv'
  BY <1>4, <1>s DEF WriteFails
<1>5. ASSUME NEW x \in Runs, FailCreation(x) PROVE NewestInv'
  BY <1>5, <1>a, <1>s DEF FailCreation, Moves
<1>6. ASSUME NEW x \in Runs, MakerStops(x) PROVE NewestInv'
  BY <1>6, <1>s DEF MakerStops
<1>7. ASSUME NEW x \in Runs, GrowsOld(x) PROVE NewestInv'
  BY <1>7, <1>s DEF GrowsOld
<1>8. ASSUME NEW x \in Runs, Settle(x) PROVE NewestInv'
  BY <1>8, <1>a, <1>s DEF Settle, Moves
<1>9. ASSUME NEW x \in Runs, CancelRequest(x) PROVE NewestInv'
  BY <1>9, <1>a, <1>s DEF CancelRequest, Moves
<1>10. ASSUME NEW x \in Runs, ReleaseSlot(x) PROVE NewestInv'
  BY <1>10, <1>s DEF ReleaseSlot
<1>11. ASSUME NEW x \in Runs, ReleaseLost(x) PROVE NewestInv'
  BY <1>11, <1>s DEF ReleaseLost
<1>12. ASSUME NEW x \in Runs, Suspend(x) PROVE NewestInv'
  BY <1>12, <1>a, <1>s DEF Suspend, Moves
<1>13. ASSUME NEW x \in Runs, Resume(x) PROVE NewestInv'
  BY <1>13, <1>a, <1>s DEF Resume, Moves
<1>15. ASSUME NEW r \in Replicas, SweepRead(r) PROVE NewestInv'
  BY <1>15, <1>a, <1>k, SweepPass DEF SweepRead
<1>16. ASSUME NEW r \in Replicas, SweepFail(r) PROVE NewestInv'
  <2>1. PICK x \in pass[r].todo : IF status[x] = "Pending" THEN Moves(x, "Over") ELSE UNCHANGED status
    BY <1>16 DEF SweepFail
  <2>2. UNCHANGED <<elders, keyed, gutted>> BY <1>16 DEF SweepFail
  <2>3. \A y \in Runs : status[y] = "Over" => status'[y] = "Over" BY <2>1, <1>a DEF Moves
  <2>4. QED BY <1>16, <2>2, <2>3, <1>a, <1>k, SweepPass
<1>17. ASSUME NEW r \in Replicas, CancelSteps(r) PROVE NewestInv'
  <2>1. UNCHANGED <<elders, keyed, status>> BY <1>17 DEF CancelSteps
  <2>2. QED BY <1>17, <2>1, <1>a, <1>k, CancelStepsPass
<1>18. ASSUME NEW r \in Replicas, CancelCommit(r) PROVE NewestInv'
  <2>1. UNCHANGED <<elders, keyed, gutted>> BY <1>18 DEF CancelCommit
  <2>2. \A y \in Runs : status[y] = "Over" => status'[y] = "Over" BY <1>18, <1>a DEF CancelCommit, Moves
  <2>3. QED BY <1>18, <2>1, <2>2, <1>a, <1>k, CancelCommitPass
<1>19. ASSUME NEW r \in Replicas, CancelRelease(r) PROVE NewestInv'
  <2>1. UNCHANGED <<elders, keyed, gutted, status>> BY <1>19 DEF CancelRelease
  <2>2. QED BY <1>19, <2>1, <1>a, <1>k, CancelReleasePass
<1>20. ASSUME NEW r \in Replicas, CapsRead(r) PROVE NewestInv'
  <2>1. UNCHANGED <<elders, keyed, gutted, status>> BY <1>20 DEF CapsRead
  <2>2. QED BY <1>20, <2>1, <1>a, <1>k, CapsReadPass
<1>21. ASSUME NEW r \in Replicas, AcquireSlot(r) PROVE NewestInv'
  <2>1. UNCHANGED <<elders, keyed, gutted, status>> BY <1>21 DEF AcquireSlot
  <2>2. pass[r].todo = {} BY <1>21, <1>a, AcquireSlotPass DEF NewestInv
  <2>3. QED BY <1>21, <2>1, <2>2, <1>a, <1>k, AcquireSlotPass
<1>22. ASSUME NEW r \in Replicas, Start(r) PROVE NewestInv'
  <2>1. UNCHANGED <<elders, keyed, gutted>> BY <1>22 DEF Start
  <2>2. \A y \in Runs : status[y] = "Over" => status'[y] = "Over" BY <1>22, <1>a DEF Start, Moves
  <2>3. QED BY <1>22, <2>1, <2>2, <1>a, <1>k, LeavePass
<1>23. ASSUME NEW r \in Replicas, FencedOff(r) PROVE NewestInv'
  BY <1>23, <1>a, <1>k, LeavePass DEF FencedOff
<1>24. ASSUME NEW r \in Replicas, NewLeader(r) PROVE NewestInv'
  BY <1>24, <1>a, <1>k, LeavePass DEF NewLeader
<1>25. ASSUME NEW r \in Replicas, NEW x \in Runs, AdmitRead(r, x) PROVE NewestInv'
  <2>1. UNCHANGED <<elders, keyed, gutted, status>> BY <1>25 DEF AdmitRead
  <2>2. \A y \in Superseding(x) : y \in SupersededBy(x) \/ status[y] = "Over"
    BY <1>a, <1>b DEF Superseding, SupersededBy, Statuses, Live, Over
  <2>3. QED BY <1>25, <2>1, <2>2, <1>a, <1>c, AdmitReadPass DEF NewestInv, OthersStay, Over
<1>26. CASE UNCHANGED vars BY <1>26, <1>s DEF vars
<1>27. QED
  BY <1>1, <1>2, <1>3, <1>4, <1>5, <1>6, <1>7, <1>8, <1>9, <1>10, <1>11, <1>12, <1>13, <1>15,
     <1>16, <1>17, <1>18, <1>19, <1>20, <1>21, <1>22, <1>23, <1>24, <1>25, <1>26 DEF Next, Leg

-----------------------------------------------------------------------------

\* What holds before the first rerun.
NoRerunInv == count.reruns = 0 => SlotInv /\ NewestInv

\* The invariant behind the three properties.
AdmissionInv == TypeInv /\ CapInv /\ NoRerunInv

\* It holds of every state, for every number of Runs, replicas, faults, cancels
\* and reruns.
THEOREM AdmissionCorrect == Spec => []AdmissionInv
<1>1. Init => AdmissionInv
  <2> SUFFICES ASSUME Init PROVE AdmissionInv OBVIOUS
  <2>1. TypeInv BY TypeInit
  <2>2. InFlightRuns = {} BY DEF Init, InFlightRuns, InFlight
  <2>3. \A r \in Replicas : pass[r] = IdlePass BY DEF Init
  <2>4. pass[leader].pc = "idle" BY <2>3 DEF Init, IdlePass
  <2>5. CapInv
    <3>1. IsFiniteSet({}) /\ Cardinality({}) = 0 BY FS_EmptySet
    <3>2. count.reruns = 0 BY DEF Init
    <3>3. QED BY <2>2, <2>4, <3>1, <3>2, AdmissionAssumption DEF CapInv
  <2>6. SlotInv BY <2>2, <2>3, <2>4 DEF Init, SlotInv, IdlePass
  <2>7. NewestInv BY <2>3 DEF NewestInv, IdlePass
  <2>8. QED BY <2>1, <2>5, <2>6, <2>7 DEF AdmissionInv, NoRerunInv
<1>2. AdmissionInv /\ [Next]_vars => AdmissionInv'
  <2> SUFFICES ASSUME AdmissionInv, [Next]_vars PROVE AdmissionInv' OBVIOUS
  <2>1. TypeInv' /\ CapInv' BY TypeStep, CapStep DEF AdmissionInv
  <2>2. ASSUME count'.reruns = 0 PROVE SlotInv' /\ NewestInv'
    <3>1. count.reruns \in Nat BY DEF AdmissionInv, TypeInv, AdmissionTypeOK
    <3>2. count'.reruns = count.reruns BY <2>2, <3>1, RerunsCount DEF AdmissionInv
    <3>3. \A x \in Runs : ~Reopen(x)
      BY <3>1, <3>2 DEF Reopen, AdmissionInv, TypeInv, AdmissionTypeOK
    <3>4. QED BY <2>2, <3>2, <3>3, SlotStep, NewestStep DEF AdmissionInv, NoRerunInv
  <2>3. QED BY <2>1, <2>2 DEF AdmissionInv, NoRerunInv
<1>3. QED BY <1>1, <1>2, PTL DEF Spec

\* The cap is passed by reruns alone, by as many Runs as were reopened: a start
\* never uses up a place twice (`count_in_flight_runs`, `transition_run`), while
\* `rearm_invalidation_set` reopens a Run without asking.
THEOREM CapsHold == Spec => [](Cardinality(InFlightRuns) <= GlobalCap + count.reruns)
<1>1. AdmissionInv => Cardinality(InFlightRuns) <= GlobalCap + count.reruns
  BY DEF AdmissionInv, CapInv
<1>2. QED BY <1>1, AdmissionCorrect, PTL

\* Without reruns the cap is never passed.
THEOREM CapIsKept == MaxReruns = 0 => (Spec => []GlobalCapHolds)
<1> SUFFICES ASSUME MaxReruns = 0 PROVE Spec => []GlobalCapHolds OBVIOUS
<1>1. AdmissionInv => GlobalCapHolds
  <2> SUFFICES ASSUME AdmissionInv PROVE GlobalCapHolds OBVIOUS
  <2>1. count.reruns = 0 BY DEF AdmissionInv, TypeInv, AdmissionTypeOK, CreationInv
  <2>2. QED BY <2>1, AdmissionAssumption DEF AdmissionInv, CapInv, GlobalCapHolds
<1>2. QED BY <1>1, AdmissionCorrect, PTL

\* Until a rerun, two Runs of a concurrency group never both have work.
THEOREM GroupsHold == Spec => [](count.reruns = 0 => OneRunPerGroup)
<1>1. AdmissionInv => (count.reruns = 0 => OneRunPerGroup)
  BY DEF AdmissionInv, NoRerunInv, SlotInv, OneRunPerGroup
<1>2. QED BY <1>1, AdmissionCorrect, PTL

\* A Run that starts has nothing left to supersede: of two Runs with the key
\* the newer one wins, through leader changes, faults and cancels.
THEOREM NewestRunWins == MaxReruns = 0 => (Spec => NewestWins)
<1> SUFFICES ASSUME MaxReruns = 0 PROVE Spec => NewestWins OBVIOUS
<1> DEFINE Wins == \A x, y \in Runs :
                     (/\ status[x] = "Pending" /\ status'[x] = "Running"
                      /\ {x, y} \subseteq keyed /\ y < x /\ y \in elders[x])
                     => status[y] \in Over \/ y \in gutted
<1>1. AdmissionInv /\ [Next]_vars => [Wins]_vars
  <2> SUFFICES ASSUME AdmissionInv, [Next]_vars, NEW x \in Runs, NEW y \in Runs,
                      status[x] = "Pending", status'[x] = "Running",
                      {x, y} \subseteq keyed, y < x, y \in elders[x]
               PROVE  status[y] \in Over \/ y \in gutted
    OBVIOUS
  <2>1. count.reruns = 0 /\ status \in [Runs -> Statuses] /\ PassInv
    BY DEF AdmissionInv, TypeInv, AdmissionTypeOK, CreationInv, Statuses
  <2>2. PICK r \in Replicas : Start(r) /\ pass[r].run = x
    <3>1. ASSUME NEW z \in Runs,
                 \/ BeginCreation(z) \/ WriteKey(z) \/ FinishCreation(z) \/ WriteFails(z) \/ FailCreation(z)
                 \/ MakerStops(z) \/ GrowsOld(z) \/ Settle(z) \/ CancelRequest(z) \/ ReleaseSlot(z)
                 \/ ReleaseLost(z) \/ Suspend(z) \/ Resume(z) \/ Reopen(z)
          PROVE  FALSE
      BY <2>1, <3>1 DEF BeginCreation, WriteKey, FinishCreation, WriteFails, FailCreation, MakerStops, GrowsOld,
                        Settle, CancelRequest, ReleaseSlot, ReleaseLost, Suspend, Resume, Reopen, Moves, Over
    <3>2. ASSUME NEW r \in Replicas,
                 SweepRead(r) \/ SweepFail(r) \/ CancelSteps(r) \/ CancelCommit(r) \/ CancelRelease(r)
                 \/ CapsRead(r) \/ AcquireSlot(r) \/ FencedOff(r) \/ NewLeader(r)
          PROVE  FALSE
      BY <2>1, <3>2 DEF SweepRead, SweepFail, CancelSteps, CancelCommit, CancelRelease, CapsRead, AcquireSlot,
                        FencedOff, NewLeader, Moves
    <3>3. ASSUME NEW r \in Replicas, NEW z \in Runs, AdmitRead(r, z) PROVE FALSE
      BY <3>3 DEF AdmitRead
    <3>4. ASSUME NEW r \in Replicas, Start(r) PROVE pass[r].run = x
      BY <2>1, <3>4 DEF Start, Moves
    <3>5. CASE UNCHANGED vars BY <3>5 DEF vars
    <3>6. QED BY <3>1, <3>2, <3>3, <3>4, <3>5 DEF Next, Leg
  <2>3. pass[r].pc = "start" BY <2>2 DEF Start, At
  <2>4. y \in Superseding(x) BY DEF Superseding
  <2>5. QED BY <2>1, <2>2, <2>3, <2>4 DEF AdmissionInv, NoRerunInv, NewestInv
<1>2. QED BY <1>1, AdmissionCorrect, PTL DEF Spec, NewestWins
=============================================================================
