-------------------------- MODULE GateWaitsProofs --------------------------
(***************************************************************************)
(* Proofs about GateWaits, for every graph of Steps and gates, every set   *)
(* of replicas and callers and every bound: type correctness, that a       *)
(* Suspended Run has nothing claimed, that a wait's clock is its own, that *)
(* only active time is billed and, in a Run that nobody cancels, that a    *)
(* gate passes on the approvals of its own wait.                           *)
(***************************************************************************)
EXTENDS GateWaits, FiniteSetTheorems, WellFoundedInduction, TLAPS

RunStatus == {"Running", "Suspended"} \cup RunOver

PassType == [pc : {"idle", "visit", "resolve", "spare", "skip", "resume", "exhaust",
                   "admit", "claim", "suspend", "suspending"},
             todo : SUBSET Steps, from : RunStatus, snap : Snapshot, att : Waits,
             passed : BOOLEAN]

CallType == [pc : {"idle", "record", "decide", "met", "check", "answer", "resolve", "reopen"},
             g : Steps \cup {Order[1]}, n : Nat, due : Age, passed : BOOLEAN, ep : Nat]

RerunType == [pc : {"idle", "reopen", "rearm"}, todo : SUBSET Steps, set : SUBSET Steps,
              snap : Snapshot, att : Waits]

KillType == [pc : {"idle", "steps", "close", "run"}, todo : SUBSET Steps, from : RunStatus]

CountType == [calls : Nat, reruns : Nat, cancels : Nat, terms : Nat]

\* A phase that takes its items in turn has one left; before the Steps are
\* read for promotion the items are gates, and after it the pass is of a Run
\* that is not suspended.
GoodPass(p) ==
  /\ p.pc \in {"visit", "resolve", "skip"} => p.todo # {} /\ p.todo \subseteq Gates
  /\ p.pc = "admit" => p.todo # {}
  /\ p.pc \in {"exhaust", "admit", "claim", "suspend", "suspending"} => p.from = "Running"

GoodCall(c) == c.pc # "idle" => c.g \in Gates

\* What a rerun covers includes whatever needs it; a Step it read as Pending,
\* and has to re-arm, is a gate.
GoodRerun(q) ==
  /\ q.pc = "rearm" => q.todo # {}
  /\ q.todo \subseteq q.set
  /\ \A x \in Steps : Needs[x] \cap q.set # {} => x \in q.set
  /\ \A s \in q.todo : q.snap[s] = "Pending" => s \in Gates

GoodKill(k) ==
  /\ k.pc \in {"steps", "close"} => k.todo # {}
  /\ k.pc = "close" => First(k.todo) \in Gates

\* The rows, and the log's view of each gate.
RowsTyped ==
  /\ kind \in [Gates -> Kinds] /\ run \in RunStatus
  /\ st \in Snapshot /\ wait \in Waits /\ seen \in [Gates -> Episode]
  /\ fin \in [Steps -> 0..None] /\ leader \in Replicas /\ count \in CountType

\* Who is in the middle of what.
PassTyped == pass \in [Replicas -> PassType] /\ \A r \in Replicas : GoodPass(pass[r])
CallTyped == call \in [Callers -> CallType] /\ \A c \in Callers : GoodCall(call[c])
RerunTyped == rerun \in RerunType /\ GoodRerun(rerun)
KillTyped == kill \in [Killers -> KillType] /\ \A k \in Killers : GoodKill(kill[k])

TasksTyped == PassTyped /\ CallTyped /\ RerunTyped /\ KillTyped

\* The log counts in Running only, and never more than there was.
BillInv ==
  /\ bill \in [billed : 0..Budget, counting : BOOLEAN, ran : 0..Budget]
  /\ bill.counting => run = "Running"
  /\ bill.billed <= bill.ran

\* An open wait belongs to a gate that has no verdict.
OpenInv == \A g \in Gates : wait[g].open => st[g] \in {"Pending", "Skipped", "Cancelled"}

NoneClaimed == \A s \in Steps : st[s] \notin {"Ready", "Running"}

\* The leader's pass knows whether the Run is suspended, and a Run that is, or
\* that the leader is about to suspend, has nothing claimed.
IdleInv ==
  /\ run = "Suspended" => NoneClaimed
  /\ pass[leader].pc = "suspending" => NoneClaimed
  /\ (run = "Suspended" /\ pass[leader].pc # "idle") => pass[leader].from = "Suspended"

\* A wait of the current episode: its needs stand, no rerun is about to take
\* them away, and its clock is behind theirs and behind the latest re-arm.
OwnWait(g) ==
  /\ \A n \in Needs[g] : st[n] = "Succeeded" /\ wait[g].age <= fin[n]
  /\ g \notin rerun.set /\ wait[g].age <= seen[g].rearm

ClockInv ==
  \A g \in Gates :
    /\ wait[g].ep <= seen[g].ep /\ seen[g].ep # 0
    /\ (wait[g].open /\ wait[g].ep = seen[g].ep) => OwnWait(g)

TypeInv == RowsTyped /\ TasksTyped

GateInv == TypeInv /\ BillInv /\ OpenInv /\ IdleInv /\ ClockInv

-----------------------------------------------------------------------------
(* The operators.                                                          *)

\* A set of numbers that is not empty has its least.
LEMMA LeastIsIn ==
  ASSUME NEW S, S \subseteq Nat, S # {} PROVE Least(S) \in S /\ \A y \in S : Least(S) <= y
<1>1. PICK x \in S : \A y \in S : ~(<<y, x>> \in OpToRel(<, Nat))
  BY NatLessThanWellFounded, WFMin
<1>2. \A y \in S : ~(y < x) BY <1>1 DEF OpToRel
<1>3. \A y \in S : x =< y BY <1>2, SMT
<1>4. QED BY <1>3 DEF Least

\* The first of some Steps is one of them.
LEMMA FirstIsIn == ASSUME NEW T \in SUBSET Steps, T # {} PROVE First(T) \in T
<1> DEFINE at == {i \in DOMAIN Order : Order[i] \in T}
<1>1. at \subseteq Nat BY GateWaitsAssumption
<1>2. at # {} BY GateWaitsAssumption
<1>3. Least(at) \in at BY <1>1, <1>2, LeastIsIn
<1>4. QED BY <1>3 DEF First

\* The constants.
LEMMA AgesAreNumbers ==
  /\ Cap \in Nat /\ None \in Nat /\ None = Cap + 1 /\ Timer \in Nat /\ Timer < Cap
  /\ Age = 0..Cap /\ 0 \in Age /\ Cap \in Age /\ 0 \in 0..None /\ None \in 0..None
  BY GateWaitsAssumption DEF Cap, None, Age

\* A wait with nothing in it is one, and so is a closed one.
LEMMA NoWaitTyped ==
  /\ NoWait \in Wait /\ NoWait.open = FALSE /\ NoWait.ep = 0
  /\ \A n \in Nat : /\ [NoWait EXCEPT !.n = n] \in Wait /\ [NoWait EXCEPT !.n = n].open = FALSE
                    /\ [NoWait EXCEPT !.n = n].ep = 0
  BY AgesAreNumbers DEF NoWait, Wait

LEMMA ClosedTyped ==
  ASSUME wait \in Waits, NEW g \in Gates
  PROVE  /\ Close(g) \in Waits /\ Close(g)[g].open = FALSE /\ Close(g)[g].ep = 0
         /\ \A h \in Gates : h # g => Close(g)[h] = wait[h]
<1>1. wait[g].n \in Nat BY DEF Waits, Wait
<1> DEFINE w == [NoWait EXCEPT !.n = wait[g].n]
<1>2. w \in Wait /\ w.open = FALSE /\ w.ep = 0 BY <1>1, NoWaitTyped
<1>3. Close(g) = [wait EXCEPT ![g] = w] BY DEF Close
<1> HIDE DEF w
<1>4. QED BY <1>2, <1>3 DEF Waits

\* A re-armed gate begins the next episode.
LEMMA RearmedTyped ==
  ASSUME seen \in [Gates -> Episode], NEW g \in Gates
  PROVE  Rearmed(g) \in Episode /\ Rearmed(g).ep = seen[g].ep + 1
<1>1. seen[g].ep \in Nat BY DEF Episode
<1>2. FirstEpisode \in Episode BY AgesAreNumbers DEF FirstEpisode, Episode
<1> DEFINE e == seen[g].ep + 1
<1>3. e \in Nat BY <1>1
<1> HIDE DEF e
<1>4. [FirstEpisode EXCEPT !.rearm = 0, !.ep = e] \in Episode BY <1>2, <1>3, AgesAreNumbers DEF Episode
<1>5. [FirstEpisode EXCEPT !.rearm = 0, !.ep = e].ep = e BY <1>2 DEF Episode
<1>6. QED BY <1>4, <1>5 DEF Rearmed, e

LEMMA SeenTyped ==
  ASSUME seen \in [Gates -> Episode], NEW g \in Gates, NEW e \in Episode
  PROVE  [seen EXCEPT ![g] = e] \in [Gates -> Episode]
  OBVIOUS

\* A Step's transition.
LEMMA StepMovesTyped ==
  ASSUME st \in Snapshot, fin \in [Steps -> 0..None], NEW s \in Steps, NEW to \in Status,
         StepMoves(s, to)
  PROVE  st' \in Snapshot /\ fin' \in [Steps -> 0..None]
<1>1. st' \in Snapshot BY DEF StepMoves, Snapshot
<1> DEFINE f == CASE \A g \in Gates : s \notin Needs[g] -> fin[s]
                  [] to = "Succeeded" -> 0
                  [] to = "Pending" -> None
                  [] OTHER -> fin[s]
<1>2. f \in 0..None
  <2>1. fin[s] \in 0..None OBVIOUS
  <2> DEFINE x == fin[s]
             P == \A g \in Gates : s \notin Needs[g]
  <2> HIDE DEF x, P
  <2>2. (CASE P -> x [] to = "Succeeded" -> 0 [] to = "Pending" -> None [] OTHER -> x) \in {x, 0, None}
    OBVIOUS
  <2>3. QED BY <2>1, <2>2, AgesAreNumbers DEF x, P
<1>3. fin' = [fin EXCEPT ![s] = f] BY DEF StepMoves
<1> HIDE DEF f
<1>4. QED BY <1>1, <1>2, <1>3

\* A gate gets its verdict.
LEMMA ResolveTyped ==
  ASSUME st \in Snapshot, fin \in [Steps -> 0..None], wait \in Waits, NEW g \in Gates,
         NEW passed \in BOOLEAN, Resolve(g, passed)
  PROVE  /\ st' \in Snapshot /\ fin' \in [Steps -> 0..None] /\ wait' \in Waits
         /\ wait'[g].open = FALSE /\ wait'[g].ep = 0 /\ \A h \in Gates : h # g => wait'[h] = wait[h]
         /\ StepMoves(g, IF passed THEN "Succeeded" ELSE "Failed")
<1>1. StepMoves(g, IF passed THEN "Succeeded" ELSE "Failed") BY DEF Resolve
<1>2. st' \in Snapshot /\ fin' \in [Steps -> 0..None]
  BY <1>1, StepMovesTyped DEF Status, Over, Steps
<1> DEFINE n == IF wait[g].open THEN wait[g].n ELSE wait[g].n + 1
           w == [NoWait EXCEPT !.n = n]
<1>3. n \in Nat BY DEF Waits, Wait
<1>4. w \in Wait /\ w.open = FALSE /\ w.ep = 0 BY <1>3, NoWaitTyped
<1>5. wait' = [wait EXCEPT ![g] = w] BY DEF Resolve
<1> HIDE DEF w
<1>6. QED BY <1>1, <1>2, <1>4, <1>5 DEF Waits

\* Nothing in progress.
LEMMA IdleTyped ==
  /\ Fresh \in Snapshot
  /\ IdlePass \in PassType /\ GoodPass(IdlePass) /\ IdlePass.pc = "idle"
  /\ IdlePass.from = "Running" /\ IdlePass.todo = {}
  /\ IdleCall \in CallType /\ GoodCall(IdleCall)
  /\ IdleRerun \in RerunType /\ GoodRerun(IdleRerun) /\ IdleRerun.set = {}
  /\ IdleKill \in KillType /\ GoodKill(IdleKill)
<1>1. Fresh \in Snapshot BY DEF Fresh, Snapshot, Status
<1>2. [g \in Gates |-> NoWait] \in Waits BY NoWaitTyped DEF Waits
<1> DEFINE none == [g \in Gates |-> NoWait]
<1> HIDE DEF none
<1>3. IdlePass = [pc |-> "idle", todo |-> {}, from |-> "Running", snap |-> Fresh,
                  att |-> none, passed |-> FALSE] BY DEF IdlePass, none
<1>4. none \in Waits BY <1>2 DEF none
<1>5. IdlePass \in PassType /\ GoodPass(IdlePass) /\ IdlePass.pc = "idle"
      /\ IdlePass.from = "Running" /\ IdlePass.todo = {}
  BY <1>1, <1>3, <1>4 DEF PassType, GoodPass, RunStatus
<1>6. IdleCall \in CallType /\ GoodCall(IdleCall)
  BY AgesAreNumbers DEF IdleCall, CallType, GoodCall
<1>7. IdleRerun = [pc |-> "idle", todo |-> {}, set |-> {}, snap |-> Fresh, att |-> none]
  BY DEF IdleRerun, none
<1>8. IdleRerun \in RerunType /\ GoodRerun(IdleRerun) /\ IdleRerun.set = {}
  BY <1>1, <1>4, <1>7 DEF RerunType, GoodRerun
<1>9. IdleKill \in KillType /\ GoodKill(IdleKill) BY DEF IdleKill, KillType, GoodKill, RunStatus
<1>10. QED BY <1>1, <1>5, <1>6, <1>8, <1>9

\* What is downstream of a Step includes whatever needs it.
LEMMA DownstreamCloses ==
  ASSUME NEW t \in Steps
  PROVE  /\ Downstream(t) \subseteq Steps
         /\ \A x \in Steps : Needs[x] \cap Downstream(t) # {} => x \in Downstream(t)
  BY DEF Downstream

-----------------------------------------------------------------------------
(* The type invariant: who is in the middle of what.                       *)

LEMMA PassKept ==
  ASSUME PassTyped, NEW r \in Replicas, NEW p \in PassType, GoodPass(p), Goes(r, p)
  PROVE  PassTyped'
<1>1. pass' = [pass EXCEPT ![r] = p] BY DEF Goes
<1>2. \A q \in Replicas : pass'[q] = IF q = r THEN p ELSE pass[q] BY <1>1 DEF PassTyped
<1>3. pass' \in [Replicas -> PassType] BY <1>1 DEF PassTyped
<1>4. \A q \in Replicas : GoodPass(pass'[q]) BY <1>2 DEF PassTyped
<1>5. QED BY <1>3, <1>4 DEF PassTyped

LEMMA PassLeft == ASSUME PassTyped, NEW r \in Replicas, Leave(r) PROVE PassTyped'
  BY PassKept, IdleTyped DEF Leave

\* A phase is entered, or the next one.
LEMMA EnterTyped ==
  ASSUME NEW p \in PassType, NEW todo \in SUBSET Steps,
         NEW here \in {"visit", "skip", "admit"}, NEW next \in {"spare", "resume", "claim"}
  PROVE  /\ Enter(p, todo, here, next) \in PassType
         /\ Enter(p, todo, here, next).todo = todo
         /\ Enter(p, todo, here, next).from = p.from
         /\ todo = {} => Enter(p, todo, here, next).pc = next
         /\ todo # {} => Enter(p, todo, here, next).pc = here
<1> DEFINE c == IF todo = {} THEN next ELSE here
<1>1. c \in {"visit", "skip", "admit", "spare", "resume", "claim"} OBVIOUS
<1>2. (todo = {} => c = next) /\ (todo # {} => c = here) OBVIOUS
<1>3. Enter(p, todo, here, next) = [p EXCEPT !.todo = todo, !.pc = c] BY DEF Enter
<1> HIDE DEF c
<1>4. QED BY <1>1, <1>2, <1>3 DEF PassType

LEMMA EnterGood ==
  ASSUME NEW p \in PassType, NEW todo \in SUBSET Steps,
         NEW here \in {"visit", "skip", "admit"}, NEW next \in {"spare", "resume", "claim"},
         here # "admit" => todo \subseteq Gates, here = "admit" => p.from = "Running",
         next = "claim" => here = "admit"
  PROVE  GoodPass(Enter(p, todo, here, next))
<1> DEFINE q == Enter(p, todo, here, next)
<1>1. /\ q.todo = todo /\ q.from = p.from
      /\ todo = {} => q.pc = next
      /\ todo # {} => q.pc = here
  BY EnterTyped
<1> HIDE DEF q
<1>2. GoodPass(q) BY <1>1 DEF GoodPass
<1>3. QED BY <1>2 DEF q

\* The item in hand.
LEMMA ItemTyped ==
  ASSUME PassTyped, NEW r \in Replicas, pass[r].pc \in {"visit", "resolve", "skip", "admit"}
  PROVE  /\ Item(r) \in Steps /\ Item(r) \in pass[r].todo
         /\ pass[r].pc # "admit" => Item(r) \in Gates /\ pass[r].todo \subseteq Gates
         /\ pass[r] \in PassType /\ GoodPass(pass[r])
<1>1. pass[r] \in PassType /\ GoodPass(pass[r]) BY DEF PassTyped
<1>2. pass[r].todo \in SUBSET Steps /\ pass[r].todo # {} BY <1>1 DEF PassType, GoodPass
<1>3. Item(r) \in pass[r].todo BY <1>2, FirstIsIn DEF Item
<1>4. QED BY <1>1, <1>2, <1>3 DEF GoodPass

LEMMA NextItemGood ==
  ASSUME PassTyped, NEW r \in Replicas,
         NEW here \in {"visit", "skip", "admit"}, NEW next \in {"spare", "resume", "claim"},
         pass[r].pc = here \/ (pass[r].pc = "resolve" /\ here = "visit"),
         next = "claim" => here = "admit"
  PROVE  NextItem(r, here, next) \in PassType /\ GoodPass(NextItem(r, here, next))
<1>1. pass[r].pc \in {"visit", "resolve", "skip", "admit"} OBVIOUS
<1>2. /\ pass[r] \in PassType /\ GoodPass(pass[r])
      /\ pass[r].pc # "admit" => pass[r].todo \subseteq Gates
  BY <1>1, ItemTyped
<1> DEFINE todo == pass[r].todo \ {Item(r)}
<1>3. todo \in SUBSET Steps BY <1>2 DEF PassType
<1>4. here # "admit" => todo \subseteq Gates BY <1>2
<1>5. here = "admit" => pass[r].from = "Running" BY <1>2 DEF GoodPass
<1> HIDE DEF todo
<1>6. Enter(pass[r], todo, here, next) \in PassType /\ GoodPass(Enter(pass[r], todo, here, next))
  BY <1>2, <1>3, <1>4, <1>5, EnterTyped, EnterGood
<1>7. QED BY <1>6 DEF NextItem, todo

\* A pass takes its next item.
LEMMA NextItemKept ==
  ASSUME PassTyped, NEW r \in Replicas,
         NEW here \in {"visit", "skip", "admit"}, NEW next \in {"spare", "resume", "claim"},
         pass[r].pc = here \/ (pass[r].pc = "resolve" /\ here = "visit"),
         next = "claim" => here = "admit", Goes(r, NextItem(r, here, next))
  PROVE  PassTyped'
  BY NextItemGood, PassKept

-----------------------------------------------------------------------------
\* Each step of a pass leaves a pass.
LEMMA BeginPass == ASSUME TypeInv, NEW r \in Replicas, PassBegin(r) PROVE PassTyped'
<1> USE DEF TypeInv, TasksTyped, RowsTyped
<1> DEFINE visited == {g \in Gates : st[g] = "Pending" /\ (Reached(g, st) \/ wait[g].open)}
           p == [IdlePass EXCEPT !.from = run, !.snap = st, !.att = wait]
<1>1. visited \in SUBSET Steps /\ visited \subseteq Gates BY DEF Steps
<1>2. p \in PassType BY IdleTyped DEF PassType
<1>3. Goes(r, Enter(p, visited, "visit", "spare")) BY DEF PassBegin
<1> HIDE DEF visited, p
<1>4. /\ Enter(p, visited, "visit", "spare") \in PassType
      /\ GoodPass(Enter(p, visited, "visit", "spare"))
  BY <1>1, <1>2, EnterTyped, EnterGood
<1>5. QED BY <1>3, <1>4, PassKept

LEMMA MintPass == ASSUME TypeInv, wait' \in Waits, NEW r \in Replicas, VisitMint(r) PROVE PassTyped'
<1> USE DEF TypeInv, TasksTyped, RowsTyped
<1> DEFINE g == Item(r)
<1>1. pass[r].pc = "visit" BY DEF VisitMint, At
<1>2. g \in Gates /\ pass[r] \in PassType /\ GoodPass(pass[r]) BY <1>1, ItemTyped
<1>3. CASE st[g] = "Pending"
  <2> DEFINE w == wait'[g]
             p == [pass[r] EXCEPT !.att[g] = w]
  <2>1. w \in Wait BY <1>2 DEF Waits
  <2>2. Goes(r, p) BY <1>3 DEF VisitMint
  <2> HIDE DEF g, w
  <2>3. p \in PassType BY <1>2, <2>1 DEF PassType, Waits
  <2>4. p.pc = pass[r].pc /\ p.todo = pass[r].todo /\ p.from = pass[r].from BY <1>2 DEF PassType
  <2> HIDE DEF p
  <2>5. GoodPass(p) BY <1>2, <2>4 DEF GoodPass
  <2>6. QED BY <2>2, <2>3, <2>5, PassKept
<1>4. CASE st[g] # "Pending"
  <2>1. Goes(r, NextItem(r, "visit", "spare")) BY <1>4 DEF VisitMint
  <2>2. QED BY <1>1, <2>1, NextItemKept
<1>5. QED BY <1>3, <1>4

LEMMA InputsPass == ASSUME TypeInv, NEW r \in Replicas, StoreInputs(r) PROVE PassTyped'
<1> USE DEF TypeInv, TasksTyped, RowsTyped
<1> DEFINE g == Item(r)
           p == [pass[r] EXCEPT !.att[g].inputs = TRUE]
<1>1. pass[r].pc = "visit" /\ Goes(r, p) BY DEF StoreInputs, Judging, At
<1>2. g \in Gates /\ pass[r] \in PassType /\ GoodPass(pass[r]) BY <1>1, ItemTyped
<1> HIDE DEF g
<1>3. p \in PassType
  <2> DEFINE w == [pass[r].att[g] EXCEPT !.inputs = TRUE]
  <2> DEFINE v == pass[r].att[g]
  <2>0. v \in Wait BY <1>2 DEF PassType, Waits
  <2>1. w \in Wait
    <3> HIDE DEF v
    <3>1. [v EXCEPT !.inputs = TRUE] \in Wait BY <2>0 DEF Wait
    <3>2. QED BY <3>1 DEF v
  <2>2. p = [pass[r] EXCEPT !.att = [pass[r].att EXCEPT ![g] = w]] BY <1>2 DEF PassType
  <2> HIDE DEF w, p
  <2>3. QED BY <1>2, <2>1, <2>2 DEF PassType, Waits
<1>4. p.pc = pass[r].pc /\ p.todo = pass[r].todo /\ p.from = pass[r].from BY <1>2 DEF PassType
<1> HIDE DEF p
<1>5. GoodPass(p) BY <1>2, <1>4 DEF GoodPass
<1>6. QED BY <1>1, <1>3, <1>5, PassKept

LEMMA VerdictPass ==
  ASSUME PassTyped, NEW r \in Replicas, pass[r].pc = "visit", NEW b \in BOOLEAN,
         Goes(r, [pass[r] EXCEPT !.pc = "resolve", !.passed = b])
  PROVE  PassTyped'
<1>1. pass[r] \in PassType /\ GoodPass(pass[r]) BY ItemTyped
<1> DEFINE p == [pass[r] EXCEPT !.pc = "resolve", !.passed = b]
<1>2. p \in PassType /\ p.pc = "resolve" /\ p.todo = pass[r].todo BY <1>1 DEF PassType
<1>3. Goes(r, p) OBVIOUS
<1> HIDE DEF p
<1>4. GoodPass(p) BY <1>1, <1>2 DEF GoodPass
<1>5. QED BY <1>2, <1>3, <1>4, PassKept

LEMMA JudgePass == ASSUME TypeInv, NEW r \in Replicas, Judge(r) PROVE PassTyped'
<1> USE DEF TypeInv, TasksTyped, RowsTyped
<1> DEFINE v == GateVerdict(Item(r), Judged(r).age)
<1>1. pass[r].pc = "visit" BY DEF Judge, Judging, At
<1>2. CASE v = "none"
  <2>1. Goes(r, NextItem(r, "visit", "spare")) BY <1>2 DEF Judge
  <2>2. QED BY <1>1, <2>1, NextItemKept
<1>3. CASE v # "none"
  <2>1. PICK refused \in BOOLEAN :
          Goes(r, [pass[r] EXCEPT !.pc = "resolve", !.passed = (v = "pass" /\ ~refused)])
    BY <1>3 DEF Judge
  <2> DEFINE b == (v = "pass" /\ ~refused)
  <2>2. b \in BOOLEAN OBVIOUS
  <2>3. Goes(r, [pass[r] EXCEPT !.pc = "resolve", !.passed = b]) BY <2>1
  <2> HIDE DEF b
  <2>4. QED BY <1>1, <2>2, <2>3, VerdictPass
<1>4. QED BY <1>2, <1>3

LEMMA SparePass == ASSUME TypeInv, NEW r \in Replicas, SpareRead(r) PROVE PassTyped'
<1> USE DEF TypeInv, TasksTyped, RowsTyped
<1> DEFINE skip   == {g \in Gates : st[g] = "Pending" /\ Unneeded(g, st)}
           revive == {g \in Gates : /\ st[g] = "Skipped" /\ seen[g].unneeded
                                    /\ Dependents(g) # {} /\ ~Unneeded(g, st)}
           todo == skip \cup revive
           p == [pass[r] EXCEPT !.snap = st, !.att = wait]
<1>1. todo \in SUBSET Steps /\ todo \subseteq Gates BY DEF Steps
<1>2. p \in PassType BY DEF PassTyped, PassType
<1>3. Goes(r, Enter(p, todo, "skip", "resume")) BY DEF SpareRead
<1> HIDE DEF todo, p
<1>4. /\ Enter(p, todo, "skip", "resume") \in PassType
      /\ GoodPass(Enter(p, todo, "skip", "resume"))
  BY <1>1, <1>2, EnterTyped, EnterGood
<1>5. QED BY <1>3, <1>4, PassKept

LEMMA ResumePass == ASSUME TypeInv, NEW r \in Replicas, Resume(r) PROVE PassTyped'
<1> USE DEF TypeInv, TasksTyped, RowsTyped
<1> DEFINE p == [pass[r] EXCEPT !.from = "Running"]
<1>1. pass[r].pc = "resume" /\ Goes(r, p) BY DEF Resume, At
<1>2. pass[r] \in PassType BY DEF PassTyped
<1>3. p \in PassType /\ p.pc = "resume" BY <1>1, <1>2 DEF PassType, RunStatus
<1> HIDE DEF p
<1>4. GoodPass(p) BY <1>3 DEF GoodPass
<1>5. QED BY <1>1, <1>3, <1>4, PassKept

LEMMA ReadPass == ASSUME TypeInv, NEW r \in Replicas, StepsRead(r) PROVE PassTyped'
<1> USE DEF TypeInv, TasksTyped, RowsTyped
<1> DEFINE todo == {s \in Steps : st[s] = "Pending" /\ (Promotable(s, st) \/ Dead(s, st))}
           b == \E g \in Gates : st[g] = "Pending"
           p == [IdlePass EXCEPT !.snap = st, !.passed = b]
<1>1. todo \in SUBSET Steps OBVIOUS
<1>2. b \in BOOLEAN OBVIOUS
<1>3. Goes(r, Enter(p, todo, "admit", "claim")) BY DEF StepsRead
<1> HIDE DEF todo, b
<1>4. p \in PassType /\ p.from = "Running" BY <1>2, IdleTyped DEF PassType
<1> HIDE DEF p
<1>5. /\ Enter(p, todo, "admit", "claim") \in PassType
      /\ GoodPass(Enter(p, todo, "admit", "claim"))
  BY <1>1, <1>4, EnterTyped, EnterGood
<1>6. QED BY <1>3, <1>5, PassKept

\* A pass goes straight to a phase without items.
LEMMA StraightPass ==
  ASSUME PassTyped, NEW r \in Replicas, NEW c \in {"exhaust", "suspend", "suspending"},
         Goes(r, [IdlePass EXCEPT !.pc = c])
  PROVE  PassTyped'
<1> DEFINE p == [IdlePass EXCEPT !.pc = c]
<1>1. p \in PassType /\ p.pc = c /\ p.from = "Running" BY IdleTyped DEF PassType
<1>2. Goes(r, p) OBVIOUS
<1> HIDE DEF p
<1>3. GoodPass(p) BY <1>1 DEF GoodPass
<1>4. QED BY <1>1, <1>2, <1>3, PassKept

-----------------------------------------------------------------------------
\* Calls.
LEMMA CallKept ==
  ASSUME CallTyped, NEW c \in Callers, NEW p \in CallType, GoodCall(p), CallGoes(c, p)
  PROVE  CallTyped'
<1>1. call' = [call EXCEPT ![c] = p] BY DEF CallGoes
<1>2. \A q \in Callers : call'[q] = IF q = c THEN p ELSE call[q] BY <1>1 DEF CallTyped
<1>3. call' \in [Callers -> CallType] BY <1>1 DEF CallTyped
<1>4. \A q \in Callers : GoodCall(call'[q]) BY <1>2 DEF CallTyped
<1>5. QED BY <1>3, <1>4 DEF CallTyped

LEMMA CallGone == ASSUME CallTyped, NEW c \in Callers, CallEnds(c) PROVE CallTyped'
  BY CallKept, IdleTyped DEF CallEnds

LEMMA CallMoved ==
  ASSUME CallTyped, NEW c \in Callers, call[c].pc # "idle",
         NEW pc \in {"decide", "check", "resolve", "reopen"}, CallTo(c, pc)
  PROVE  CallTyped'
<1> DEFINE p == [call[c] EXCEPT !.pc = pc]
<1>1. call[c] \in CallType /\ call[c].g \in Gates BY DEF CallTyped, GoodCall
<1>2. p \in CallType /\ p.g = call[c].g BY <1>1 DEF CallType
<1>3. CallGoes(c, p) BY DEF CallTo
<1> HIDE DEF p
<1>4. QED BY <1>1, <1>2, <1>3, CallKept DEF GoodCall

LEMMA CallStarted ==
  ASSUME CallTyped, count \in CountType, NEW c \in Callers, NEW p \in CallType, p.g \in Gates,
         Starts(c, p)
  PROVE  CallTyped' /\ count' \in CountType
<1>1. CallTyped' BY CallKept DEF Starts, GoodCall
<1>2. count' \in CountType BY DEF Starts, CountType
<1>3. QED BY <1>1, <1>2

LEMMA ReadCall ==
  ASSUME TypeInv, NEW c \in Callers, NEW g \in Gates,
         ApproveRead(c, g) \/ VerdictRead(c, g) \/ PluginRead(c, g)
  PROVE  CallTyped' /\ count' \in CountType
<1> USE DEF TypeInv, TasksTyped, RowsTyped
<1>0. g \in Steps /\ wait[g] \in Wait BY DEF Steps, Waits
<1>1. CASE ApproveRead(c, g)
  <2> DEFINE age == IF wait[g].open THEN wait[g].age ELSE 0
             due == IF kind[g] = "plain" \/ age >= Timer THEN 0 ELSE Timer - age
             b == (due = 0)
             p == [IdleCall EXCEPT !.pc = "record", !.g = g, !.due = due, !.passed = b]
  <2>1. age \in Nat BY <1>0, AgesAreNumbers DEF Wait
  <2>2. due \in Age BY <2>1, AgesAreNumbers
  <2>3. b \in BOOLEAN OBVIOUS
  <2>4. Starts(c, p) BY <1>1 DEF ApproveRead
  <2> HIDE DEF due, b
  <2>5. p \in CallType /\ p.g = g BY <1>0, <2>2, <2>3, IdleTyped DEF CallType
  <2> HIDE DEF p
  <2>6. QED BY <2>4, <2>5, CallStarted
<1>2. CASE VerdictRead(c, g)
  <2>1. PICK b \in BOOLEAN : Starts(c, [IdleCall EXCEPT !.pc = "check", !.g = g, !.passed = b])
    BY <1>2 DEF VerdictRead
  <2> DEFINE p == [IdleCall EXCEPT !.pc = "check", !.g = g, !.passed = b]
  <2>2. p \in CallType /\ p.g = g BY <1>0, IdleTyped DEF CallType
  <2>3. Starts(c, p) BY <2>1
  <2> HIDE DEF p
  <2>4. QED BY <2>2, <2>3, CallStarted
<1>3. CASE PluginRead(c, g)
  <2>1. PICK b \in BOOLEAN :
          Starts(c, [IdleCall EXCEPT !.pc = "answer", !.g = g, !.n = wait[g].n, !.passed = b])
    BY <1>3 DEF PluginRead
  <2> DEFINE n == wait[g].n
             p == [IdleCall EXCEPT !.pc = "answer", !.g = g, !.n = n, !.passed = b]
  <2>2. n \in Nat BY <1>0 DEF Wait
  <2>3. Starts(c, p) BY <2>1
  <2> HIDE DEF n
  <2>4. p \in CallType /\ p.g = g BY <1>0, <2>2, IdleTyped DEF CallType
  <2> HIDE DEF p
  <2>5. QED BY <2>3, <2>4, CallStarted
<1>4. QED BY <1>1, <1>2, <1>3

LEMMA StepCall == ASSUME TypeInv, NEW c \in Callers, CallStep(c) \/ CallStops(c) PROVE CallTyped'
<1> USE DEF TypeInv, TasksTyped, RowsTyped
<1>1. CASE ApproveRecord(c)
  BY <1>1, CallMoved, CallGone DEF ApproveRecord, CallAt
<1>2. CASE ApproveDecide(c)
  <2> DEFINE g == call[c].g
             e == seen[g].ep
             to == IF kind[g] = "plain" THEN "check" ELSE "met"
             p == [call[c] EXCEPT !.pc = to, !.ep = e]
  <2>1. call[c] \in CallType /\ call[c].pc = "decide" /\ call[c].g \in Gates
    BY <1>2 DEF ApproveDecide, CallAt, CallTyped, GoodCall
  <2>2. e \in Nat /\ to \in {"check", "met"} BY <2>1 DEF Episode
  <2>3. CallEnds(c) \/ CallGoes(c, p) BY <1>2 DEF ApproveDecide
  <2> HIDE DEF e, to
  <2>4. p \in CallType /\ p.g = g BY <2>1, <2>2 DEF CallType
  <2> HIDE DEF p
  <2>5. QED BY <2>1, <2>3, <2>4, CallKept, CallGone DEF GoodCall
<1>3. CASE ApproveMet(c) BY <1>3, CallMoved, CallGone DEF ApproveMet, CallAt
<1>4. CASE CallCheck(c) BY <1>4, CallMoved, CallGone DEF CallCheck, CallAt
<1>5. CASE PluginAnswer(c) BY <1>5, CallMoved, CallGone DEF PluginAnswer, CallAt
<1>6. CASE CallResolve(c) BY <1>6, CallMoved, CallGone DEF CallResolve, CallAt
<1>7. CASE CallReopen(c) BY <1>7, CallGone DEF CallReopen
<1>8. CASE CallStops(c) BY <1>8, CallGone DEF CallStops
<1>9. QED BY <1>1, <1>2, <1>3, <1>4, <1>5, <1>6, <1>7, <1>8 DEF CallStep

-----------------------------------------------------------------------------
\* Reruns.
LEMMA ReadRerun ==
  ASSUME TypeInv, NEW t \in Steps, NEW retry \in BOOLEAN, RerunRead(t, retry)
  PROVE  RerunTyped'
<1> USE DEF TypeInv, TasksTyped, RowsTyped
<1> DEFINE set == Downstream(t)
           todo == {s \in set : Rearmable(s)}
<1>1. set \subseteq Steps /\ \A x \in Steps : Needs[x] \cap set # {} => x \in set
  BY DownstreamCloses
<1>2. todo \subseteq set /\ \A s \in todo : st[s] = "Pending" => s \in Gates BY DEF Rearmable
<1>3. rerun' = [pc |-> "reopen", todo |-> todo, set |-> set, snap |-> st, att |-> wait]
  BY DEF RerunRead
<1> HIDE DEF set, todo
<1>4. rerun' \in RerunType BY <1>1, <1>2, <1>3 DEF RerunType
<1>5. GoodRerun(rerun') BY <1>1, <1>2, <1>3 DEF GoodRerun
<1>6. QED BY <1>4, <1>5 DEF RerunTyped

\* The Step a rerun is at.
LEMMA RerunItem ==
  ASSUME RerunTyped, rerun.pc = "rearm"
  PROVE  /\ First(rerun.todo) \in rerun.todo /\ First(rerun.todo) \in Steps
         /\ First(rerun.todo) \in rerun.set
         /\ rerun.snap[First(rerun.todo)] = "Pending" => First(rerun.todo) \in Gates
<1>1. rerun.todo \in SUBSET Steps /\ rerun.todo # {} BY DEF RerunTyped, RerunType, GoodRerun
<1>2. First(rerun.todo) \in rerun.todo BY <1>1, FirstIsIn
<1>3. QED BY <1>1, <1>2 DEF RerunTyped, RerunType, GoodRerun

LEMMA StepRerun ==
  ASSUME RerunTyped, RerunReopen \/ RerunStep \/ RerunStops
  PROVE  RerunTyped' /\ (rerun'.set = rerun.set \/ rerun'.set = {})
<1>1. CASE rerun' = IdleRerun BY <1>1, IdleTyped DEF RerunTyped
<1>2. CASE RerunReopen /\ rerun' # IdleRerun
  <2>1. rerun' = [rerun EXCEPT !.pc = "rearm"] /\ rerun.todo # {} BY <1>2 DEF RerunReopen
  <2>2. /\ rerun' \in RerunType /\ rerun'.todo = rerun.todo /\ rerun'.set = rerun.set
        /\ rerun'.snap = rerun.snap
    BY <2>1 DEF RerunTyped, RerunType
  <2>3. GoodRerun(rerun') BY <2>1, <2>2 DEF RerunTyped, GoodRerun
  <2>4. QED BY <2>2, <2>3 DEF RerunTyped
<1>3. CASE RerunStep /\ rerun' # IdleRerun
  <2> DEFINE s == First(rerun.todo)
             left == rerun.todo \ {s}
  <2>1. rerun' = [rerun EXCEPT !.todo = left] /\ rerun.todo # {s} /\ rerun.pc = "rearm"
    BY <1>3 DEF RerunStep
  <2>2. left # {} BY <2>1, RerunItem
  <2>3. left \subseteq rerun.todo OBVIOUS
  <2> HIDE DEF left
  <2>4. /\ rerun' \in RerunType /\ rerun'.todo = left /\ rerun'.set = rerun.set
        /\ rerun'.snap = rerun.snap
    BY <2>1, <2>3 DEF RerunTyped, RerunType
  <2>5. GoodRerun(rerun') BY <2>2, <2>3, <2>4 DEF RerunTyped, GoodRerun
  <2>6. QED BY <2>4, <2>5 DEF RerunTyped
<1>4. QED BY <1>1, <1>2, <1>3 DEF RerunStops

-----------------------------------------------------------------------------
\* Cancels.
LEMMA KillKept ==
  ASSUME KillTyped, NEW k \in Killers, NEW p \in KillType, GoodKill(p), KillTo(k, p)
  PROVE  KillTyped'
<1>1. kill' = [kill EXCEPT ![k] = p] BY DEF KillTo
<1>2. \A q \in Killers : kill'[q] = IF q = k THEN p ELSE kill[q] BY <1>1 DEF KillTyped
<1>3. kill' \in [Killers -> KillType] BY <1>1 DEF KillTyped
<1>4. \A q \in Killers : GoodKill(kill'[q]) BY <1>2 DEF KillTyped
<1>5. QED BY <1>3, <1>4 DEF KillTyped

LEMMA KillingTyped ==
  ASSUME st \in Snapshot, NEW from \in RunStatus
  PROVE  Killing(from) \in KillType /\ GoodKill(Killing(from))
<1> DEFINE todo == {s \in Steps : st[s] \notin Over}
           pc == IF todo = {} THEN "run" ELSE "steps"
<1>1. todo \subseteq Steps OBVIOUS
<1>2. pc \in {"run", "steps"} /\ (pc = "steps" => todo # {}) OBVIOUS
<1>3. Killing(from) = [pc |-> pc, todo |-> todo, from |-> from] BY DEF Killing
<1> HIDE DEF todo, pc
<1>4. QED BY <1>1, <1>2, <1>3 DEF KillType, GoodKill

\* The Step a cancel is at.
LEMMA KillItemTyped ==
  ASSUME KillTyped, NEW k \in Killers, kill[k].pc \in {"steps", "close"}
  PROVE  /\ KillItem(k) \in kill[k].todo /\ KillItem(k) \in Steps /\ kill[k] \in KillType
         /\ kill[k].pc = "close" => KillItem(k) \in Gates
<1>1. kill[k] \in KillType /\ GoodKill(kill[k]) BY DEF KillTyped
<1>2. kill[k].todo \in SUBSET Steps /\ kill[k].todo # {} BY <1>1 DEF KillType, GoodKill
<1>3. KillItem(k) \in kill[k].todo BY <1>2, FirstIsIn DEF KillItem
<1>4. QED BY <1>1, <1>2, <1>3 DEF GoodKill, KillItem

LEMMA KillNextTyped ==
  ASSUME KillTyped, NEW k \in Killers, kill[k].pc \in {"steps", "close"}
  PROVE  KillNext(k) \in KillType /\ GoodKill(KillNext(k))
<1>1. KillItem(k) \in kill[k].todo /\ kill[k] \in KillType BY KillItemTyped
<1> DEFINE left == kill[k].todo \ {KillItem(k)}
           pc == IF kill[k].todo = {KillItem(k)} THEN "run" ELSE "steps"
<1>2. left \subseteq Steps /\ pc \in {"run", "steps"} /\ (pc = "steps" => left # {})
  BY <1>1 DEF KillType
<1>3. KillNext(k) = [kill[k] EXCEPT !.todo = left, !.pc = pc] BY DEF KillNext
<1> HIDE DEF left, pc
<1>4. KillNext(k) \in KillType /\ KillNext(k).pc = pc /\ KillNext(k).todo = left
  BY <1>1, <1>2, <1>3 DEF KillType
<1>5. QED BY <1>2, <1>4 DEF GoodKill

LEMMA StepKill ==
  ASSUME KillTyped, NEW k \in Killers, KillStep(k) \/ KillClose(k)
  PROVE  KillTyped'
<1>1. kill[k].pc \in {"steps", "close"} BY DEF KillStep, KillClose, KillAt
<1>2. CASE KillTo(k, KillNext(k)) BY <1>1, <1>2, KillKept, KillNextTyped
<1>3. CASE ~KillTo(k, KillNext(k))
  <2> DEFINE p == [kill[k] EXCEPT !.pc = "close"]
  <2>1. KillItem(k) \in Gates /\ KillTo(k, p) BY <1>3 DEF KillStep, KillClose
  <2>2. kill[k] \in KillType /\ KillItem(k) \in kill[k].todo BY <1>1, KillItemTyped
  <2>3. p \in KillType /\ p.pc = "close" /\ p.todo = kill[k].todo BY <2>2 DEF KillType
  <2> HIDE DEF p
  <2>4. GoodKill(p) BY <2>1, <2>2, <2>3 DEF GoodKill, KillItem
  <2>5. QED BY <2>1, <2>3, <2>4, KillKept
<1>4. QED BY <1>2, <1>3

-----------------------------------------------------------------------------
(* The type invariant: the rows.                                           *)

\* When a gate's wait began.
LEMMA WaitBeganTyped ==
  ASSUME RowsTyped, NEW g \in Gates
  PROVE  /\ WaitBegan(g) \in Age /\ WaitBegan(g) <= seen[g].rearm
         /\ \A n \in Needs[g] : WaitBegan(g) <= fin[n]
<1> DEFINE F == {IF fin[d] = None THEN 0 ELSE fin[d] : d \in Needs[g]}
           S == F \cup {seen[g].rearm}
<1>1. seen[g].rearm \in Age BY DEF RowsTyped, Episode
<1>2. \A d \in Needs[g] : fin[d] \in 0..None BY GateWaitsAssumption DEF RowsTyped, Steps
<1>3. F \subseteq Nat BY <1>2, AgesAreNumbers
<1>4. S \subseteq Nat /\ S # {} BY <1>1, <1>3, AgesAreNumbers
<1>5. Least(S) \in S /\ \A y \in S : Least(S) <= y BY <1>4, LeastIsIn
<1>6. WaitBegan(g) = Least(S) BY DEF WaitBegan
<1>7. WaitBegan(g) \in Nat /\ WaitBegan(g) <= seen[g].rearm BY <1>4, <1>5, <1>6
<1>8. WaitBegan(g) \in Age BY <1>1, <1>7, AgesAreNumbers
<1>9. ASSUME NEW n \in Needs[g] PROVE WaitBegan(g) <= fin[n]
  <2> DEFINE x == IF fin[n] = None THEN 0 ELSE fin[n]
  <2>1. x \in S OBVIOUS
  <2>2. WaitBegan(g) <= x BY <1>5, <1>6, <2>1
  <2>3. x <= fin[n] /\ x \in Nat /\ fin[n] \in Nat BY <1>2, AgesAreNumbers
  <2> HIDE DEF x
  <2>4. QED BY <1>7, <2>2, <2>3
<1>10. QED BY <1>7, <1>8, <1>9

\* One gate's wait changes.
WaitBecomes(g, w) == wait' = [wait EXCEPT ![g] = w]

LEMMA WaitKept ==
  ASSUME wait \in Waits, NEW g \in Gates, NEW w \in Wait, WaitBecomes(g, w)
  PROVE  wait' \in Waits /\ wait'[g] = w /\ \A h \in Gates : h # g => wait'[h] = wait[h]
  BY DEF Waits, WaitBecomes

\* What the clock and the episode of a wait are told by.
SameWait(g) ==
  wait'[g].open = wait[g].open /\ wait'[g].age = wait[g].age /\ wait'[g].ep = wait[g].ep
Closed(g) == wait'[g].open = FALSE /\ wait'[g].ep = 0

LEMMA MintRows ==
  ASSUME TypeInv, NEW r \in Replicas, VisitMint(r)
  PROVE  /\ RowsTyped'
         /\ \A g \in Gates :
              \/ SameWait(g)
              \/ /\ st[g] = "Pending" /\ wait'[g].open
                 /\ wait'[g].age = WaitBegan(g) /\ wait'[g].ep = EpisodeOf(g)
<1> USE DEF TypeInv, TasksTyped
<1> DEFINE g == Item(r)
           w == [n |-> wait[g].n + 1, open |-> TRUE, age |-> WaitBegan(g), inputs |-> FALSE,
                 ep |-> EpisodeOf(g), by |-> wait[g].by, stale |-> wait[g].stale]
<1>1. pass[r].pc = "visit" BY DEF VisitMint, At
<1>2. g \in Gates BY <1>1, ItemTyped
<1>3. CASE wait' = wait BY <1>3 DEF VisitMint, RowsTyped, SameWait
<1>4. CASE wait' # wait
  <2>1. st[g] = "Pending" /\ WaitBecomes(g, w) BY <1>4 DEF VisitMint, WaitBecomes
  <2>2. wait[g] \in Wait /\ wait \in Waits BY <1>2 DEF RowsTyped, Waits
  <2>3. EpisodeOf(g) \in Nat BY <1>2 DEF EpisodeOf, RowsTyped, Episode
  <2>4. WaitBegan(g) \in Age BY <1>2, WaitBeganTyped
  <2> HIDE DEF g
  <2>5. w \in Wait /\ w.open /\ w.age = WaitBegan(g) /\ w.ep = EpisodeOf(g)
    BY <2>2, <2>3, <2>4 DEF Wait
  <2> HIDE DEF w
  <2>6. wait' \in Waits /\ wait'[g] = w /\ \A h \in Gates : h # g => wait'[h] = wait[h]
    BY <1>2, <2>1, <2>2, <2>5, WaitKept
  <2>7. RowsTyped' BY <2>6 DEF VisitMint, RowsTyped
  <2>8. QED BY <2>1, <2>5, <2>6, <2>7 DEF SameWait
<1>5. QED BY <1>3, <1>4

LEMMA InputsRows ==
  ASSUME TypeInv, NEW r \in Replicas, StoreInputs(r)
  PROVE  RowsTyped' /\ \A g \in Gates : SameWait(g)
<1> USE DEF TypeInv, TasksTyped
<1> DEFINE g == Item(r)
           v == wait[g]
           w == [v EXCEPT !.inputs = TRUE]
<1>1. pass[r].pc = "visit" BY DEF StoreInputs, Judging, At
<1>2. g \in Gates BY <1>1, ItemTyped
<1>3. CASE wait' = wait BY <1>3 DEF StoreInputs, RowsTyped, SameWait
<1>4. CASE wait' # wait
  <2>1. wait' = [wait EXCEPT ![g].inputs = TRUE] BY <1>4 DEF StoreInputs
  <2>2. v \in Wait /\ wait \in Waits BY <1>2 DEF RowsTyped, Waits
  <2>3. WaitBecomes(g, w) BY <2>1 DEF WaitBecomes
  <2> HIDE DEF v
  <2>4. w \in Wait /\ w.open = v.open /\ w.age = v.age /\ w.ep = v.ep BY <2>2 DEF Wait
  <2> HIDE DEF w, g
  <2>5. wait' \in Waits /\ wait'[g] = w /\ \A h \in Gates : h # g => wait'[h] = wait[h]
    BY <1>2, <2>2, <2>3, <2>4, WaitKept
  <2>6. RowsTyped' BY <2>5 DEF StoreInputs, RowsTyped
  <2>7. QED BY <2>4, <2>5, <2>6 DEF SameWait, v
<1>5. QED BY <1>3, <1>4

\* The other steps of a pass.
LEMMA SupersedeRows ==
  ASSUME TypeInv, NEW r \in Replicas, VisitSupersede(r)
  PROVE  /\ RowsTyped'
         /\ \A g \in Gates : \/ SameWait(g) /\ seen'[g] = seen[g]
                             \/ Closed(g) /\ seen'[g].ep = seen[g].ep + 1
<1> USE DEF TypeInv, TasksTyped
<1> DEFINE g == Item(r)
<1>1. pass[r].pc = "visit" BY DEF VisitSupersede, At
<1>2. g \in Gates BY <1>1, ItemTyped
<1>3. CASE wait' = wait /\ seen' = seen BY <1>3 DEF VisitSupersede, RowsTyped, SameWait
<1>4. CASE wait' = Close(g) /\ seen' = [seen EXCEPT ![g] = Rearmed(g)]
  <2>1. /\ Close(g) \in Waits /\ Close(g)[g].open = FALSE /\ Close(g)[g].ep = 0
        /\ \A h \in Gates : h # g => Close(g)[h] = wait[h]
    BY <1>2, ClosedTyped DEF RowsTyped
  <2>2. Rearmed(g) \in Episode /\ Rearmed(g).ep = seen[g].ep + 1
    BY <1>2, RearmedTyped DEF RowsTyped
  <2> HIDE DEF g
  <2>3. seen' \in [Gates -> Episode] /\ seen'[g] = Rearmed(g)
        /\ \A h \in Gates : h # g => seen'[h] = seen[h]
    BY <1>2, <1>4, <2>2 DEF RowsTyped
  <2>4. RowsTyped' BY <1>4, <2>1, <2>3 DEF VisitSupersede, RowsTyped
  <2>5. QED BY <1>4, <2>1, <2>2, <2>3, <2>4 DEF SameWait, Closed
<1>5. QED BY <1>3, <1>4 DEF VisitSupersede

\* What a verdict changes.
LEMMA VerdictRows ==
  ASSUME RowsTyped, NEW g \in Gates, NEW passed \in BOOLEAN, Resolve(g, passed), st[g] = "Pending"
  PROVE  /\ st' \in Snapshot /\ fin' \in [Steps -> 0..None] /\ wait' \in Waits
         /\ Closed(g) /\ \A h \in Gates : h # g => SameWait(h)
         /\ \E to \in {"Succeeded", "Failed"} : StepMoves(g, to)
<1>1. /\ st' \in Snapshot /\ fin' \in [Steps -> 0..None] /\ wait' \in Waits
      /\ wait'[g].open = FALSE /\ wait'[g].ep = 0 /\ \A h \in Gates : h # g => wait'[h] = wait[h]
      /\ StepMoves(g, IF passed THEN "Succeeded" ELSE "Failed")
  BY ResolveTyped DEF RowsTyped
<1>2. QED BY <1>1 DEF SameWait, Closed

-----------------------------------------------------------------------------
(* What a step does to a gate's wait.                                      *)

NoVerdict == {"Pending", "Skipped", "Cancelled"}

\* Its clock and its episode go on, it is no longer of the current episode, or
\* it is opened.
Stays(g) == SameWait(g) /\ seen'[g].ep = seen[g].ep /\ seen'[g].rearm = seen[g].rearm
Stale(g) == (wait'[g].open => wait[g].open) /\ wait'[g].ep < seen'[g].ep
Minted(g) ==
  /\ st[g] = "Pending" /\ wait'[g].open
  /\ wait'[g].age = WaitBegan(g) /\ wait'[g].ep = EpisodeOf(g)
  /\ UNCHANGED <<st, fin, seen, rerun>>

\* What succeeded stands unless a rerun covers it, and an open wait's gate gets
\* no verdict.
Effect ==
  /\ \A g \in Gates : Stays(g) \/ Stale(g) \/ Minted(g)
  /\ \A n \in Steps : (st[n] = "Succeeded" /\ n \notin rerun.set) =>
                        st'[n] = "Succeeded" /\ fin'[n] = fin[n]
  /\ \A g \in Gates : g \in rerun'.set => g \in rerun.set \/ Stale(g)
  /\ \A g \in Gates : (wait'[g].open /\ st[g] \in NoVerdict) => st'[g] \in NoVerdict

LEMMA NoEffect == ASSUME UNCHANGED <<st, wait, seen, fin, rerun>> PROVE Effect
  BY DEF Effect, Stays, SameWait

LEMMA MoveEffect ==
  ASSUME RowsTyped, NEW s \in Steps, NEW to \in Status, StepMoves(s, to),
         st[s] # "Succeeded" \/ s \in rerun.set
  PROVE  /\ st' \in Snapshot /\ fin' \in [Steps -> 0..None]
         /\ \A n \in Steps : (st[n] = "Succeeded" /\ n \notin rerun.set) =>
                               st'[n] = "Succeeded" /\ fin'[n] = fin[n]
         /\ st'[s] = to /\ \A x \in Steps : x # s => st'[x] = st[x]
<1>1. st' \in Snapshot /\ fin' \in [Steps -> 0..None] BY StepMovesTyped DEF RowsTyped
<1>2. st'[s] = to /\ \A x \in Steps : x # s => st'[x] = st[x]
  BY DEF StepMoves, RowsTyped, Snapshot
<1>3. \A x \in Steps : x # s => fin'[x] = fin[x] BY DEF StepMoves, RowsTyped
<1>4. QED BY <1>1, <1>2, <1>3

\* A gate gets its verdict.
LEMMA ResolveEffect ==
  ASSUME TypeInv, ClockInv, NEW g \in Gates, NEW passed \in BOOLEAN, Resolve(g, passed),
         st[g] = "Pending", UNCHANGED <<seen, rerun>>
  PROVE  st' \in Snapshot /\ fin' \in [Steps -> 0..None] /\ wait' \in Waits /\ Effect
<1> USE DEF TypeInv
<1>1. /\ st' \in Snapshot /\ fin' \in [Steps -> 0..None] /\ wait' \in Waits
      /\ Closed(g) /\ \A h \in Gates : h # g => SameWait(h)
  BY VerdictRows
<1>2. PICK to \in {"Succeeded", "Failed"} : StepMoves(g, to) BY VerdictRows
<1>3. g \in Steps /\ to \in Status BY DEF Steps, Status, Over
<1>4. /\ \A n \in Steps : (st[n] = "Succeeded" /\ n \notin rerun.set) =>
                            st'[n] = "Succeeded" /\ fin'[n] = fin[n]
      /\ \A x \in Steps : x # g => st'[x] = st[x]
  BY <1>2, <1>3, MoveEffect
<1>5. \A h \in Gates : Stays(h) \/ Stale(h)
  <2>1. seen[g].ep \in Nat /\ seen[g].ep # 0 BY DEF ClockInv, RowsTyped, Episode
  <2>2. QED BY <1>1, <2>1 DEF Stays, Stale, Closed
<1>6. \A h \in Gates : (wait'[h].open /\ st[h] \in NoVerdict) => st'[h] \in NoVerdict
  BY <1>1, <1>4 DEF Closed, Steps
<1>7. QED BY <1>1, <1>4, <1>5, <1>6 DEF Effect

LEMMA PassResolveEffect ==
  ASSUME TypeInv, ClockInv, NEW r \in Replicas, PassResolve(r)
  PROVE  RowsTyped' /\ Effect
<1>1. pass[r].pc = "resolve" /\ PassTyped BY DEF PassResolve, At, TypeInv, TasksTyped
<1>2. Item(r) \in Gates /\ pass[r].passed \in BOOLEAN BY <1>1, ItemTyped DEF PassType
<1>3. CASE StillWaits(Item(r), Judged(r).n)
  <2>1. Resolve(Item(r), pass[r].passed) /\ st[Item(r)] = "Pending" /\ UNCHANGED <<seen, rerun>>
    BY <1>3 DEF PassResolve, StillWaits
  <2>2. st' \in Snapshot /\ fin' \in [Steps -> 0..None] /\ wait' \in Waits /\ Effect
    BY <1>2, <2>1, ResolveEffect
  <2>3. QED BY <2>2 DEF PassResolve, RowsTyped, TypeInv
<1>4. CASE ~StillWaits(Item(r), Judged(r).n)
  BY <1>4, NoEffect DEF PassResolve, RowsTyped, TypeInv
<1>5. QED BY <1>3, <1>4

LEMMA CallResolveEffect ==
  ASSUME TypeInv, ClockInv, NEW c \in Callers, CallResolve(c)
  PROVE  RowsTyped' /\ Effect
<1> DEFINE g == call[c].g
<1>1. g \in Gates /\ call[c].passed \in BOOLEAN
  BY DEF CallResolve, CallAt, TypeInv, TasksTyped, CallTyped, CallType, GoodCall
<1>2. CASE UNCHANGED <<st, fin, wait>>
  BY <1>2, NoEffect DEF CallResolve, RowsTyped, TypeInv
<1>3. CASE ~UNCHANGED <<st, fin, wait>>
  <2>1. Resolve(g, call[c].passed) /\ st[g] = "Pending" /\ UNCHANGED <<seen, rerun>>
    BY <1>3 DEF CallResolve
  <2>2. st' \in Snapshot /\ fin' \in [Steps -> 0..None] /\ wait' \in Waits /\ Effect
    BY <1>1, <2>1, ResolveEffect
  <2>3. QED BY <2>2 DEF CallResolve, RowsTyped, TypeInv
<1>4. QED BY <1>2, <1>3

\* The leader's visit.
LEMMA VisitEffect ==
  ASSUME TypeInv, ClockInv, NEW r \in Replicas,
         VisitSupersede(r) \/ VisitMint(r) \/ StoreInputs(r)
  PROVE  RowsTyped' /\ Effect
<1>1. \A g \in Gates : seen[g].ep \in Nat /\ seen[g].ep # 0 BY DEF ClockInv, TypeInv, RowsTyped, Episode
<1>2. CASE VisitSupersede(r)
  <2>1. /\ RowsTyped'
        /\ \A g \in Gates : \/ SameWait(g) /\ seen'[g] = seen[g]
                            \/ Closed(g) /\ seen'[g].ep = seen[g].ep + 1
    BY <1>2, SupersedeRows
  <2>2. \A g \in Gates : Stays(g) \/ Stale(g) BY <1>1, <2>1 DEF Stays, Stale, Closed
  <2>3. QED BY <1>2, <2>1, <2>2 DEF VisitSupersede, Effect
<1>3. CASE VisitMint(r)
  <2>1. UNCHANGED <<st, fin, seen, rerun>> BY <1>3 DEF VisitMint
  <2>2. RowsTyped' /\ \A g \in Gates : Stays(g) \/ Minted(g)
    BY <1>3, <2>1, MintRows DEF Stays, Minted
  <2>3. QED BY <2>1, <2>2 DEF Effect
<1>4. CASE StoreInputs(r)
  <2>1. UNCHANGED <<st, fin, seen, rerun>> BY <1>4 DEF StoreInputs
  <2>2. RowsTyped' /\ \A g \in Gates : Stays(g) BY <1>4, <2>1, InputsRows DEF Stays
  <2>3. QED BY <2>1, <2>2 DEF Effect
<1>5. QED BY <1>2, <1>3, <1>4

\* Gates nothing needs.
LEMMA SpareEffect ==
  ASSUME TypeInv, ClockInv, NEW r \in Replicas, SpareSkip(r) \/ SpareRevive(r)
  PROVE  RowsTyped' /\ Effect
<1> DEFINE g == Item(r)
<1>1. pass[r].pc = "skip" /\ PassTyped BY DEF SpareSkip, SpareRevive, At, TypeInv, TasksTyped
<1>2. g \in Gates /\ g \in Steps BY <1>1, ItemTyped
<1>3. \A h \in Gates : /\ seen[h].ep \in Nat /\ seen[h].ep # 0 /\ wait[h].ep \in Nat
                       /\ wait[h].ep <= seen[h].ep
  BY DEF ClockInv, TypeInv, RowsTyped, Episode, Waits, Wait
<1>4. UNCHANGED <<kind, run, leader, count, rerun>> BY DEF SpareSkip, SpareRevive
<1>5. CASE UNCHANGED <<st, fin, wait, seen>>
  BY <1>4, <1>5, NoEffect DEF RowsTyped, TypeInv
<1>6. CASE SpareSkip(r) /\ ~UNCHANGED <<st, fin, wait, seen>>
  <2>1. /\ st[g] = "Pending" /\ StepMoves(g, "Skipped") /\ wait' = Close(g)
        /\ seen' = [seen EXCEPT ![g].unneeded = TRUE]
    BY <1>6 DEF SpareSkip
  <2> HIDE DEF g
  <2>2. /\ st' \in Snapshot /\ fin' \in [Steps -> 0..None]
        /\ \A n \in Steps : (st[n] = "Succeeded" /\ n \notin rerun.set) =>
                              st'[n] = "Succeeded" /\ fin'[n] = fin[n]
        /\ st'[g] = "Skipped" /\ \A x \in Steps : x # g => st'[x] = st[x]
    BY <1>2, <2>1, MoveEffect DEF TypeInv, Status, Over
  <2>3. /\ wait' \in Waits /\ wait'[g].open = FALSE /\ wait'[g].ep = 0
        /\ \A h \in Gates : h # g => wait'[h] = wait[h]
    BY <1>2, <2>1, ClosedTyped DEF TypeInv, RowsTyped
  <2> DEFINE e == [seen[g] EXCEPT !.unneeded = TRUE]
  <2>4. e \in Episode /\ e.ep = seen[g].ep BY <1>2 DEF TypeInv, RowsTyped, Episode
  <2>5. seen' = [seen EXCEPT ![g] = e] BY <2>1
  <2> HIDE DEF e
  <2>6. seen' \in [Gates -> Episode] /\ seen'[g].ep = seen[g].ep
        /\ \A h \in Gates : h # g => seen'[h] = seen[h]
    BY <1>2, <2>4, <2>5 DEF TypeInv, RowsTyped
  <2>7. RowsTyped' BY <1>4, <2>2, <2>3, <2>6 DEF TypeInv, RowsTyped
  <2>8. \A h \in Gates : Stays(h) \/ Stale(h) BY <1>3, <2>3, <2>6 DEF Stays, Stale, SameWait
  <2>9. QED BY <1>2, <1>4, <2>2, <2>7, <2>8 DEF Effect, NoVerdict, Steps
<1>7. CASE SpareRevive(r) /\ ~UNCHANGED <<st, fin, wait, seen>>
  <2>1. /\ st[g] = "Skipped" /\ StepMoves(g, "Pending") /\ wait' = wait
        /\ seen' = [seen EXCEPT ![g] = Rearmed(g)]
    BY <1>7 DEF SpareRevive
  <2> HIDE DEF g
  <2>2. /\ st' \in Snapshot /\ fin' \in [Steps -> 0..None]
        /\ \A n \in Steps : (st[n] = "Succeeded" /\ n \notin rerun.set) =>
                              st'[n] = "Succeeded" /\ fin'[n] = fin[n]
        /\ st'[g] = "Pending" /\ \A x \in Steps : x # g => st'[x] = st[x]
    BY <1>2, <2>1, MoveEffect DEF TypeInv, Status, Over
  <2>3. Rearmed(g) \in Episode /\ Rearmed(g).ep = seen[g].ep + 1
    BY <1>2, RearmedTyped DEF TypeInv, RowsTyped
  <2>4. seen' \in [Gates -> Episode] /\ seen'[g].ep = seen[g].ep + 1
        /\ \A h \in Gates : h # g => seen'[h] = seen[h]
    BY <1>2, <2>1, <2>3 DEF TypeInv, RowsTyped
  <2>5. RowsTyped' BY <1>4, <2>1, <2>2, <2>4 DEF TypeInv, RowsTyped
  <2>6. \A h \in Gates : Stays(h) \/ Stale(h) BY <1>2, <1>3, <2>1, <2>4 DEF Stays, Stale, SameWait
  <2>7. QED BY <1>2, <1>4, <2>2, <2>5, <2>6 DEF Effect, NoVerdict, Steps
<1>8. QED BY <1>5, <1>6, <1>7

\* A Step that had not succeeded moves, and every wait stays.
LEMMA MoveOnly ==
  ASSUME TypeInv, NEW s \in Steps, NEW to \in Status, StepMoves(s, to), st[s] # "Succeeded",
         s \in Gates => to \in NoVerdict,
         UNCHANGED <<kind, run, wait, seen, leader, count, rerun>>
  PROVE  RowsTyped' /\ Effect
<1>1. /\ st' \in Snapshot /\ fin' \in [Steps -> 0..None]
      /\ \A n \in Steps : (st[n] = "Succeeded" /\ n \notin rerun.set) =>
                            st'[n] = "Succeeded" /\ fin'[n] = fin[n]
      /\ st'[s] = to /\ \A x \in Steps : x # s => st'[x] = st[x]
  BY MoveEffect DEF TypeInv
<1>2. RowsTyped' BY <1>1 DEF TypeInv, RowsTyped
<1>3. \A g \in Gates : Stays(g) BY DEF Stays, SameWait
<1>4. QED BY <1>1, <1>2, <1>3 DEF Effect, Steps

\* Promotion, skips and claims.
LEMMA AdmitEffect ==
  ASSUME TypeInv, ClockInv, NEW r \in Replicas, AdmitPromote(r) \/ AdmitSkip(r) \/ AdmitClaim(r)
  PROVE  RowsTyped' /\ Effect
<1>1. CASE AdmitClaim(r)
  <2>1. st' = [s \in Steps |-> IF st[s] = "Ready" THEN "Running" ELSE st[s]]
        /\ UNCHANGED <<kind, run, wait, seen, fin, leader, rerun, count>>
    BY <1>1 DEF AdmitClaim
  <2>2. \A s \in Steps : st[s] \in Status BY DEF TypeInv, RowsTyped, Snapshot
  <2>3. st' \in Snapshot BY <2>1, <2>2 DEF Snapshot, Status
  <2>4. RowsTyped' BY <2>1, <2>3 DEF TypeInv, RowsTyped
  <2>5. \A g \in Gates : Stays(g) BY <2>1 DEF Stays, SameWait
  <2>6. QED BY <2>1, <2>4, <2>5 DEF Effect, NoVerdict, Steps
<1>2. CASE AdmitPromote(r) \/ AdmitSkip(r)
  <2> DEFINE s == Item(r)
  <2>1. pass[r].pc = "admit" /\ PassTyped
    BY <1>2 DEF AdmitPromote, AdmitSkip, At, TypeInv, TasksTyped
  <2>2. s \in Steps BY <2>1, ItemTyped
  <2>3. UNCHANGED <<kind, run, wait, seen, leader, count, rerun>>
    BY <1>2 DEF AdmitPromote, AdmitSkip
  <2>4. CASE UNCHANGED <<st, fin>> BY <2>3, <2>4, NoEffect DEF TypeInv, RowsTyped
  <2>5. CASE ~UNCHANGED <<st, fin>>
    <3>1. /\ st[s] = "Pending"
          /\ \/ s \in Work /\ StepMoves(s, "Ready")
             \/ StepMoves(s, "Skipped")
      BY <1>2, <2>5 DEF AdmitPromote, AdmitSkip, Promotable
    <3>2. s \in Work => s \notin Gates BY GateWaitsAssumption
    <3> HIDE DEF s
    <3>3. QED BY <2>2, <2>3, <3>1, <3>2, MoveOnly DEF Status, Over, NoVerdict
  <2>6. QED BY <2>4, <2>5
<1>3. QED BY <1>1, <1>2

LEMMA DriveEffect ==
  ASSUME TypeInv, ClockInv, NEW s \in Work, Drive(s) PROVE RowsTyped' /\ Effect
<1>1. PICK to \in {"Succeeded", "Failed"} : StepMoves(s, to) BY DEF Drive
<1>2. s \in Steps /\ to \in Status /\ s \notin Gates
  BY GateWaitsAssumption DEF Steps, Status, Over
<1>3. st[s] # "Succeeded" /\ UNCHANGED <<kind, run, wait, seen, leader, count, rerun>> BY DEF Drive
<1>4. QED BY <1>1, <1>2, <1>3, MoveOnly

\* Cancels.
LEMMA KillEffect ==
  ASSUME TypeInv, ClockInv, NEW k \in Killers, KillStep(k) \/ KillClose(k)
  PROVE  /\ st' \in Snapshot /\ fin' \in [Steps -> 0..None] /\ wait' \in Waits /\ Effect
         /\ UNCHANGED <<kind, run, seen, bill, leader, call, rerun, count>>
<1> DEFINE s == KillItem(k)
<1>1. kill[k].pc \in {"steps", "close"} /\ KillTyped
  BY DEF KillStep, KillClose, KillAt, TypeInv, TasksTyped
<1>2. s \in Steps /\ (kill[k].pc = "close" => s \in Gates) BY <1>1, KillItemTyped
<1>3. UNCHANGED <<kind, run, seen, bill, leader, call, rerun, count>> BY DEF KillStep, KillClose
<1>4. \A h \in Gates : seen[h].ep \in Nat /\ seen[h].ep # 0
  BY DEF ClockInv, TypeInv, RowsTyped, Episode
<1>5. CASE UNCHANGED <<st, fin, wait>> BY <1>3, <1>5, NoEffect DEF TypeInv, RowsTyped
<1>6. CASE KillClose(k) /\ ~UNCHANGED <<st, fin, wait>>
  <2>1. wait' = Close(s) /\ UNCHANGED <<st, fin>> /\ s \in Gates
    BY <1>2, <1>6 DEF KillClose, KillAt
  <2> HIDE DEF s
  <2>2. /\ wait' \in Waits /\ wait'[s].open = FALSE /\ wait'[s].ep = 0
        /\ \A h \in Gates : h # s => wait'[h] = wait[h]
    BY <2>1, ClosedTyped DEF TypeInv, RowsTyped
  <2>3. \A h \in Gates : Stays(h) \/ Stale(h) BY <1>3, <1>4, <2>2 DEF Stays, Stale, SameWait
  <2>4. QED BY <1>3, <2>1, <2>2, <2>3 DEF Effect, TypeInv, RowsTyped
<1>7. CASE KillStep(k) /\ ~UNCHANGED <<st, fin, wait>>
  <2>1. /\ st[s] \notin Over /\ StepMoves(s, "Cancelled")
        /\ wait' = IF s \in Gates THEN [wait EXCEPT ![s].ep = 0] ELSE wait
    BY <1>7 DEF KillStep
  <2> HIDE DEF s
  <2>2. /\ st' \in Snapshot /\ fin' \in [Steps -> 0..None]
        /\ \A n \in Steps : (st[n] = "Succeeded" /\ n \notin rerun.set) =>
                              st'[n] = "Succeeded" /\ fin'[n] = fin[n]
        /\ st'[s] = "Cancelled" /\ \A x \in Steps : x # s => st'[x] = st[x]
    BY <1>2, <2>1, MoveEffect DEF TypeInv, Status, Over
  <2>3. CASE s \in Gates
    <3> DEFINE v == wait[s]
               w == [v EXCEPT !.ep = 0]
    <3>1. v \in Wait BY <2>3 DEF TypeInv, RowsTyped, Waits
    <3>2. WaitBecomes(s, w) BY <2>1, <2>3 DEF WaitBecomes
    <3> HIDE DEF v
    <3>3. w \in Wait /\ w.open = v.open /\ w.ep = 0 BY <3>1 DEF Wait
    <3> HIDE DEF w
    <3>4. wait' \in Waits /\ wait'[s] = w /\ \A h \in Gates : h # s => wait'[h] = wait[h]
      BY <2>3, <3>2, <3>3, WaitKept DEF TypeInv, RowsTyped
    <3>5. \A h \in Gates : Stays(h) \/ Stale(h)
      BY <1>3, <1>4, <3>3, <3>4 DEF Stays, Stale, SameWait, v
    <3>6. QED BY <1>2, <1>3, <2>2, <3>4, <3>5 DEF Effect, NoVerdict, Steps
  <2>4. CASE s \notin Gates
    <3>1. wait' = wait /\ \A h \in Gates : Stays(h) BY <1>3, <2>1, <2>4 DEF Stays, SameWait
    <3>2. QED BY <1>3, <2>2, <2>4, <3>1 DEF Effect, NoVerdict, Steps, TypeInv, RowsTyped
  <2>5. QED BY <2>3, <2>4
<1>8. QED BY <1>5, <1>6, <1>7

\* Approvals.
LEMMA ApproveEffect ==
  ASSUME TypeInv, ClockInv, NEW c \in Callers, ApproveRecord(c) \/ ApproveMet(c)
  PROVE  RowsTyped' /\ Effect
<1> DEFINE g == call[c].g
<1>1. g \in Gates /\ call[c] \in CallType
  BY DEF ApproveRecord, ApproveMet, CallAt, TypeInv, TasksTyped, CallTyped, GoodCall
<1>2. UNCHANGED <<kind, run, st, fin, leader, rerun, count>> BY DEF ApproveRecord, ApproveMet
<1>3. seen[g] \in Episode /\ wait[g] \in Wait BY <1>1 DEF TypeInv, RowsTyped, Waits
<1>4. CASE UNCHANGED <<wait, seen>> BY <1>2, <1>4, NoEffect DEF TypeInv, RowsTyped
<1>5. CASE ApproveRecord(c) /\ ~UNCHANGED <<wait, seen>>
  <2>1. /\ seen' = [seen EXCEPT ![g].by = @ \cup {c}]
        /\ wait' = [wait EXCEPT ![g].by = @ \cup {c}]
    BY <1>5 DEF ApproveRecord
  <2> DEFINE x == seen[g]
             X == x.by \cup {c}
             e == [x EXCEPT !.by = X]
             v == wait[g]
             V == v.by \cup {c}
             w == [v EXCEPT !.by = V]
  <2>2. X \subseteq Callers /\ V \subseteq Callers BY <1>3 DEF Episode, Wait
  <2>3. WaitBecomes(g, w) BY <2>1 DEF WaitBecomes
  <2>4. seen' = [seen EXCEPT ![g] = e] BY <2>1
  <2>5. x \in Episode /\ v \in Wait BY <1>3
  <2> HIDE DEF x, X, v, V
  <2>6. e \in Episode /\ e.ep = x.ep /\ e.rearm = x.rearm BY <2>2, <2>5 DEF Episode
  <2>7. w \in Wait /\ w.open = v.open /\ w.ep = v.ep /\ w.age = v.age BY <2>2, <2>5 DEF Wait
  <2> HIDE DEF e, w, g
  <2>8. wait' \in Waits /\ wait'[g] = w /\ \A h \in Gates : h # g => wait'[h] = wait[h]
    BY <1>1, <2>3, <2>7, WaitKept DEF TypeInv, RowsTyped
  <2>9. seen' \in [Gates -> Episode] /\ seen'[g] = e /\ \A h \in Gates : h # g => seen'[h] = seen[h]
    BY <1>1, <2>4, <2>6 DEF TypeInv, RowsTyped
  <2>10. \A h \in Gates : Stays(h) BY <2>6, <2>7, <2>8, <2>9 DEF Stays, SameWait, x, v
  <2>11. QED BY <1>2, <2>8, <2>9, <2>10 DEF Effect, TypeInv, RowsTyped
<1>6. CASE ApproveMet(c) /\ ~UNCHANGED <<wait, seen>>
  <2> DEFINE x == seen[g]
             d == call[c].due
             e == [x EXCEPT !.due = d]
             v == wait[g]
             w == [v EXCEPT !.stale = TRUE]
  <2>1. seen' = [seen EXCEPT ![g].due = d] BY <1>6 DEF ApproveMet
  <2>2. d \in 0..None BY <1>1, AgesAreNumbers DEF CallType
  <2>3. seen' = [seen EXCEPT ![g] = e] BY <1>1, <2>1 DEF TypeInv, RowsTyped
  <2>4. WaitBecomes(g, w) \/ WaitBecomes(g, v)
    BY <1>1, <1>6 DEF ApproveMet, WaitBecomes, TypeInv, RowsTyped, Waits
  <2>5. x \in Episode /\ v \in Wait BY <1>3
  <2> HIDE DEF x, d, v
  <2>6. e \in Episode /\ e.ep = x.ep /\ e.rearm = x.rearm BY <2>2, <2>5 DEF Episode
  <2>7. w \in Wait /\ w.open = v.open /\ w.ep = v.ep /\ w.age = v.age BY <2>5 DEF Wait
  <2> HIDE DEF e, w, g
  <2>8. /\ wait' \in Waits /\ wait'[g] \in {v, w}
        /\ \A h \in Gates : h # g => wait'[h] = wait[h]
    BY <1>1, <2>4, <2>5, <2>7, WaitKept DEF TypeInv, RowsTyped
  <2>9. seen' \in [Gates -> Episode] /\ seen'[g] = e /\ \A h \in Gates : h # g => seen'[h] = seen[h]
    BY <1>1, <2>3, <2>6 DEF TypeInv, RowsTyped
  <2>10. \A h \in Gates : Stays(h) BY <2>6, <2>7, <2>8, <2>9 DEF Stays, SameWait, x, v
  <2>11. QED BY <1>2, <2>8, <2>9, <2>10 DEF Effect, TypeInv, RowsTyped
<1>7. QED BY <1>4, <1>5, <1>6

\* Reruns.
LEMMA ReadEffect ==
  ASSUME TypeInv, ClockInv, NEW t \in Steps, NEW retry \in BOOLEAN, RerunRead(t, retry)
  PROVE  RowsTyped' /\ Effect
<1> DEFINE set == Downstream(t)
<1>1. UNCHANGED <<kind, run, st, fin, leader>> /\ rerun'.set = set BY DEF RerunRead
<1>2. count' \in CountType
  <2>1. count' = [count EXCEPT !.reruns = @ + 1] BY DEF RerunRead
  <2>2. QED BY <2>1 DEF TypeInv, RowsTyped, CountType
<1>3. \A h \in Gates : /\ seen[h].ep \in Nat /\ seen[h].ep # 0 /\ wait[h].ep \in Nat
                       /\ wait[h].ep <= seen[h].ep /\ wait[h] \in Wait /\ seen[h] \in Episode
  BY DEF ClockInv, TypeInv, RowsTyped, Episode, Waits, Wait
<1>4. \A h \in Gates : /\ Covered(h, retry) \in Wait /\ (Covered(h, retry).open => wait[h].open)
                       /\ retry => Covered(h, retry).ep = 0
                       /\ ~retry => Covered(h, retry).ep <= wait[h].ep
  <2> TAKE h \in Gates
  <2> DEFINE v == wait[h]
             x == Close(h)[h]
  <2>1. v \in Wait BY <1>3
  <2>2. x \in Wait /\ x.open = FALSE /\ x.ep = 0 BY ClosedTyped DEF TypeInv, RowsTyped, Waits
  <2>3. Covered(h, retry) = IF retry THEN [v EXCEPT !.ep = 0] ELSE IF v.open THEN v ELSE x
    BY DEF Covered
  <2>4. v.ep \in Nat BY <1>3
  <2> HIDE DEF v, x
  <2>5. [v EXCEPT !.ep = 0] \in Wait /\ [v EXCEPT !.ep = 0].ep = 0
        /\ [v EXCEPT !.ep = 0].open = v.open BY <2>1 DEF Wait
  <2>6. Covered(h, retry) \in Wait /\ (Covered(h, retry).open => v.open) BY <2>1, <2>2, <2>3, <2>5
  <2>7. CASE retry BY <2>3, <2>5, <2>6, <2>7 DEF v
  <2>8. CASE ~retry
    <3>1. Covered(h, retry) \in {v, x} BY <2>3, <2>8
    <3>2. Covered(h, retry).ep <= v.ep BY <2>2, <2>4, <3>1
    <3>3. QED BY <2>6, <2>8, <3>2 DEF v
  <2>9. QED BY <2>7, <2>8
<1>5. wait' = [g \in Gates |-> IF g \in set THEN Covered(g, retry) ELSE wait[g]]
  BY DEF RerunRead
<1> HIDE DEF set
<1>6. wait' \in Waits BY <1>3, <1>4, <1>5 DEF Waits
<1>7. \A h \in Gates : wait'[h].open => wait[h].open BY <1>4, <1>5
<1>8. CASE retry
  <2>1. seen' = seen BY <1>8 DEF RerunRead
  <2>2. \A h \in Gates : h \in set => wait'[h].ep = 0 BY <1>4, <1>5, <1>8
  <2>3. \A h \in Gates : h \in set => Stale(h) BY <1>3, <1>7, <2>1, <2>2 DEF Stale
  <2>4. \A h \in Gates : h \notin set => Stays(h) BY <1>5, <2>1 DEF Stays, SameWait
  <2>5. RowsTyped' BY <1>1, <1>2, <1>6, <2>1 DEF TypeInv, RowsTyped
  <2>6. QED BY <1>1, <2>3, <2>4, <2>5 DEF Effect
<1>9. CASE ~retry
  <2>1. seen' = [g \in Gates |-> IF g \in set THEN Rearmed(g) ELSE seen[g]]
    BY <1>9 DEF RerunRead, set
  <2>2. \A h \in Gates : Rearmed(h) \in Episode /\ Rearmed(h).ep = seen[h].ep + 1
    BY RearmedTyped DEF TypeInv, RowsTyped
  <2>3. seen' \in [Gates -> Episode] BY <1>3, <2>1, <2>2
  <2>4. \A h \in Gates : /\ wait'[h].ep \in Nat /\ wait'[h].ep <= wait[h].ep
                         /\ h \notin set => wait'[h] = wait[h]
    BY <1>3, <1>4, <1>5, <1>6, <1>9 DEF Waits, Wait
  <2>5. \A h \in Gates : h \in set => seen'[h].ep = seen[h].ep + 1 BY <2>1, <2>2
  <2>6. \A h \in Gates : h \in set => Stale(h) BY <1>3, <1>7, <2>4, <2>5 DEF Stale
  <2>7. \A h \in Gates : h \notin set => Stays(h) BY <2>1, <2>4 DEF Stays, SameWait
  <2>8. RowsTyped' BY <1>1, <1>2, <1>6, <2>3 DEF TypeInv, RowsTyped
  <2>9. QED BY <1>1, <2>6, <2>7, <2>8 DEF Effect
<1>10. QED BY <1>8, <1>9

LEMMA RerunStepEffect == ASSUME TypeInv, ClockInv, RerunStep PROVE RowsTyped' /\ Effect
<1> DEFINE s == First(rerun.todo)
<1>1. RerunTyped /\ rerun.pc = "rearm" BY DEF RerunStep, TypeInv, TasksTyped
<1>2. s \in Steps /\ s \in rerun.set /\ (rerun.snap[s] = "Pending" => s \in Gates)
  BY <1>1, RerunItem
<1>3. UNCHANGED <<kind, run, leader, count>> BY DEF RerunStep
<1>4. rerun'.set = rerun.set \/ rerun'.set = {} BY <1>1, StepRerun
<1>5. \A h \in Gates : /\ seen[h].ep \in Nat /\ seen[h].ep # 0 /\ wait[h].ep \in Nat
                       /\ wait[h].ep <= seen[h].ep
  BY DEF ClockInv, TypeInv, RowsTyped, Episode, Waits, Wait
<1>6. \A h \in Gates : Rearmed(h) \in Episode /\ Rearmed(h).ep = seen[h].ep + 1
  BY RearmedTyped DEF TypeInv, RowsTyped
<1>7. CASE rerun.snap[s] = "Pending" /\ wait[s].open /\ wait[s].n = rerun.att[s].n
  <2>1. wait' = Close(s) /\ seen' = [seen EXCEPT ![s] = Rearmed(s)] /\ UNCHANGED <<st, fin>>
    BY <1>7 DEF RerunStep
  <2>2. s \in Gates BY <1>2, <1>7
  <2> HIDE DEF s
  <2>3. /\ wait' \in Waits /\ wait'[s].open = FALSE /\ wait'[s].ep = 0
        /\ \A h \in Gates : h # s => wait'[h] = wait[h]
    BY <2>1, <2>2, ClosedTyped DEF TypeInv, RowsTyped
  <2>4. seen' \in [Gates -> Episode] /\ seen'[s].ep = seen[s].ep + 1
        /\ \A h \in Gates : h # s => seen'[h] = seen[h]
    BY <1>6, <2>1, <2>2 DEF TypeInv, RowsTyped
  <2>5. \A h \in Gates : Stays(h) \/ Stale(h) BY <1>5, <2>2, <2>3, <2>4 DEF Stays, Stale, SameWait
  <2>6. QED BY <1>3, <1>4, <2>1, <2>3, <2>4, <2>5 DEF Effect, TypeInv, RowsTyped
<1>8. CASE ~(rerun.snap[s] = "Pending" /\ wait[s].open /\ wait[s].n = rerun.att[s].n)
  <2>1. Rearm(s) /\ UNCHANGED wait BY <1>8 DEF RerunStep
  <2>2. CASE st[s] = "Pending"
    <3>1. UNCHANGED <<st, fin, seen>> BY <2>1, <2>2 DEF Rearm
    <3>2. \A h \in Gates : Stays(h) BY <2>1, <3>1 DEF Stays, SameWait
    <3>3. QED BY <1>3, <1>4, <2>1, <3>1, <3>2 DEF Effect, TypeInv, RowsTyped
  <2>3. CASE st[s] # "Pending"
    <3>1. StepMoves(s, "Pending") /\ seen' = IF s \in Gates THEN [seen EXCEPT ![s] = Rearmed(s)] ELSE seen
      BY <2>1, <2>3 DEF Rearm
    <3> HIDE DEF s
    <3>2. /\ st' \in Snapshot /\ fin' \in [Steps -> 0..None]
          /\ \A n \in Steps : (st[n] = "Succeeded" /\ n \notin rerun.set) =>
                                st'[n] = "Succeeded" /\ fin'[n] = fin[n]
          /\ st'[s] = "Pending" /\ \A x \in Steps : x # s => st'[x] = st[x]
      BY <1>2, <3>1, MoveEffect DEF TypeInv, Status, Over
    <3>3. seen' \in [Gates -> Episode] /\ (s \in Gates => seen'[s].ep = seen[s].ep + 1)
          /\ \A h \in Gates : h # s => seen'[h] = seen[h]
      BY <1>6, <3>1 DEF TypeInv, RowsTyped
    <3>4. \A h \in Gates : Stays(h) \/ Stale(h) BY <1>5, <2>1, <3>3 DEF Stays, Stale, SameWait
    <3>5. \A g \in Gates : st[g] \in NoVerdict => st'[g] \in NoVerdict
      BY <3>2 DEF NoVerdict, Steps
    <3>6. QED BY <1>3, <1>4, <2>1, <3>2, <3>3, <3>4, <3>5 DEF Effect, TypeInv, RowsTyped
  <2>4. QED BY <2>2, <2>3
<1>9. QED BY <1>7, <1>8

LEMMA RerunOtherEffect ==
  ASSUME TypeInv, ClockInv, RerunReopen \/ RerunStops PROVE RowsTyped' /\ Effect
<1>1. RerunTyped BY DEF TypeInv, TasksTyped
<1>2. rerun'.set = rerun.set \/ rerun'.set = {} BY <1>1, StepRerun
<1>3. UNCHANGED <<kind, st, wait, seen, fin, leader, count>> BY DEF RerunReopen, RerunStops
<1>4. run' \in RunStatus BY DEF RerunReopen, RerunStops, MoveRun, TypeInv, RowsTyped, RunStatus
<1>5. \A h \in Gates : Stays(h) BY <1>3 DEF Stays, SameWait
<1>6. QED BY <1>2, <1>3, <1>4, <1>5 DEF Effect, TypeInv, RowsTyped

-----------------------------------------------------------------------------
(* Time.                                                                   *)

LEMMA OlderTyped ==
  /\ \A a \in Age : Older(a) \in Age
  /\ \A a, b \in Age : a <= b => Older(a) <= Older(b)
  /\ \A a \in Age : Older(a) < None
  /\ \A a \in 0..None : a # None => a \in Age
  /\ \A d \in Age : Sooner(d) \in Age
  /\ \A d \in 0..None : Sooner(d) \in 0..None
  BY AgesAreNumbers DEF Older, Sooner

LEMMA OlderWaitsTyped ==
  ASSUME NEW w \in Waits
  PROVE  /\ OlderWaits(w) \in Waits
         /\ \A g \in Gates : /\ OlderWaits(w)[g].open = w[g].open
                             /\ OlderWaits(w)[g].ep = w[g].ep
                             /\ w[g].open => OlderWaits(w)[g].age = Older(w[g].age)
<1>1. ASSUME NEW v \in Wait
      PROVE  /\ [v EXCEPT !.age = Older(v.age)] \in Wait
             /\ [v EXCEPT !.age = Older(v.age)].open = v.open
             /\ [v EXCEPT !.age = Older(v.age)].ep = v.ep
             /\ [v EXCEPT !.age = Older(v.age)].age = Older(v.age)
  <2> DEFINE a == Older(v.age)
  <2>1. a \in Age BY OlderTyped DEF Wait
  <2> HIDE DEF a
  <2>2. /\ [v EXCEPT !.age = a] \in Wait /\ [v EXCEPT !.age = a].open = v.open
        /\ [v EXCEPT !.age = a].ep = v.ep /\ [v EXCEPT !.age = a].age = a
    BY <2>1 DEF Wait
  <2>3. QED BY <2>2 DEF a
<1>2. ASSUME NEW g \in Gates
      PROVE  /\ OlderWaits(w)[g] \in Wait
             /\ OlderWaits(w)[g].open = w[g].open /\ OlderWaits(w)[g].ep = w[g].ep
             /\ w[g].open => OlderWaits(w)[g].age = Older(w[g].age)
  <2>1. w[g] \in Wait BY DEF Waits
  <2>2. OlderWaits(w)[g] = IF w[g].open THEN [w[g] EXCEPT !.age = Older(w[g].age)] ELSE w[g]
    BY DEF OlderWaits
  <2>3. QED BY <1>1, <2>1, <2>2
<1>3. OlderWaits(w) = [g \in Gates |-> OlderWaits(w)[g]] BY DEF OlderWaits
<1>4. QED BY <1>2, <1>3 DEF Waits

LEMMA TickRows ==
  ASSUME TypeInv, Tick
  PROVE  /\ RowsTyped' /\ UNCHANGED <<st, rerun>>
         /\ \A g \in Gates : /\ wait'[g].open = wait[g].open /\ wait'[g].ep = wait[g].ep
                             /\ wait[g].open => wait'[g].age = Older(wait[g].age)
                             /\ seen'[g].ep = seen[g].ep /\ seen'[g].rearm = Older(seen[g].rearm)
         /\ \A s \in Steps : fin'[s] = IF fin[s] = None THEN None ELSE Older(fin[s])
<1>1. UNCHANGED <<kind, run, st, leader, rerun, count>> BY DEF Tick
<1>2. wait \in Waits /\ wait' = OlderWaits(wait) BY DEF Tick, TypeInv, RowsTyped
<1>3. wait' \in Waits
      /\ \A g \in Gates : /\ wait'[g].open = wait[g].open /\ wait'[g].ep = wait[g].ep
                          /\ wait[g].open => wait'[g].age = Older(wait[g].age)
  BY <1>2, OlderWaitsTyped
<1>4. fin' = [s \in Steps |-> IF fin[s] = None THEN None ELSE Older(fin[s])] BY DEF Tick
<1>5. \A s \in Steps : fin[s] \in 0..None BY DEF TypeInv, RowsTyped
<1>6. \A s \in Steps : (IF fin[s] = None THEN None ELSE Older(fin[s])) \in 0..None
  <2>1. Age \subseteq 0..None /\ None \in 0..None BY AgesAreNumbers
  <2>2. \A s \in Steps : fin[s] # None => Older(fin[s]) \in Age BY <1>5, OlderTyped
  <2>3. QED BY <2>1, <2>2
<1>7. fin' \in [Steps -> 0..None] BY <1>4, <1>6
<1>8. ASSUME NEW e \in Episode
      PROVE  /\ [e EXCEPT !.rearm = Older(@), !.due = Sooner(@)] \in Episode
             /\ [e EXCEPT !.rearm = Older(@), !.due = Sooner(@)].ep = e.ep
             /\ [e EXCEPT !.rearm = Older(@), !.due = Sooner(@)].rearm = Older(e.rearm)
  <2> DEFINE a == Older(e.rearm)
             d == Sooner(e.due)
  <2>1. a \in Age /\ d \in 0..None BY OlderTyped DEF Episode
  <2> HIDE DEF a, d
  <2>2. /\ [e EXCEPT !.rearm = a, !.due = d] \in Episode
        /\ [e EXCEPT !.rearm = a, !.due = d].ep = e.ep
        /\ [e EXCEPT !.rearm = a, !.due = d].rearm = a
    BY <2>1 DEF Episode
  <2>3. QED BY <2>2 DEF a, d
<1>9. seen' = [g \in Gates |-> [seen[g] EXCEPT !.rearm = Older(@), !.due = Sooner(@)]] BY DEF Tick
<1>10. \A g \in Gates : seen[g] \in Episode BY DEF TypeInv, RowsTyped
<1>11. seen' \in [Gates -> Episode]
       /\ \A g \in Gates : seen'[g].ep = seen[g].ep /\ seen'[g].rearm = Older(seen[g].rearm)
  BY <1>8, <1>9, <1>10
<1>12. RowsTyped' BY <1>1, <1>3, <1>7, <1>11 DEF TypeInv, RowsTyped
<1>13. QED BY <1>1, <1>3, <1>4, <1>11, <1>12

LEMMA TickTasks == ASSUME TypeInv, Tick PROVE PassTyped' /\ CallTyped'
<1> USE DEF TypeInv, TasksTyped
<1>1. pass' = [r \in Replicas |-> [pass[r] EXCEPT !.att = OlderWaits(@)]]
      /\ call' = [c \in Callers |-> [call[c] EXCEPT !.due = Sooner(@)]]
  BY DEF Tick
<1>2. ASSUME NEW p \in PassType, GoodPass(p)
      PROVE  [p EXCEPT !.att = OlderWaits(@)] \in PassType /\ GoodPass([p EXCEPT !.att = OlderWaits(@)])
  <2> DEFINE a == OlderWaits(p.att)
             q == [p EXCEPT !.att = a]
  <2>1. a \in Waits BY OlderWaitsTyped DEF PassType
  <2> HIDE DEF a
  <2>2. q \in PassType /\ q.pc = p.pc /\ q.todo = p.todo /\ q.from = p.from BY <2>1 DEF PassType
  <2> HIDE DEF q
  <2>3. GoodPass(q) BY <1>2, <2>2 DEF GoodPass
  <2>4. QED BY <2>2, <2>3 DEF q, a
<1>3. ASSUME NEW p \in CallType, GoodCall(p)
      PROVE  [p EXCEPT !.due = Sooner(@)] \in CallType /\ GoodCall([p EXCEPT !.due = Sooner(@)])
  <2> DEFINE a == Sooner(p.due)
             q == [p EXCEPT !.due = a]
  <2>1. a \in Age BY OlderTyped DEF CallType
  <2> HIDE DEF a
  <2>2. q \in CallType /\ q.pc = p.pc /\ q.g = p.g BY <2>1 DEF CallType
  <2> HIDE DEF q
  <2>3. GoodCall(q) BY <1>3, <2>2 DEF GoodCall
  <2>4. QED BY <2>2, <2>3 DEF q, a
<1>4. \A r \in Replicas : pass[r] \in PassType /\ GoodPass(pass[r]) BY DEF PassTyped
<1>5. \A c \in Callers : call[c] \in CallType /\ GoodCall(call[c]) BY DEF CallTyped
<1>6. PassTyped' BY <1>1, <1>2, <1>4 DEF PassTyped
<1>7. CallTyped' BY <1>1, <1>3, <1>5 DEF CallTyped
<1>8. QED BY <1>6, <1>7

-----------------------------------------------------------------------------
(* The type invariant is kept.                                             *)

LEMMA Unmoved ==
  ASSUME TypeInv
  PROVE  /\ UNCHANGED pass => PassTyped'
         /\ UNCHANGED call => CallTyped'
         /\ UNCHANGED rerun => RerunTyped'
         /\ UNCHANGED kill => KillTyped'
  BY DEF TypeInv, TasksTyped, PassTyped, CallTyped, RerunTyped, KillTyped

\* Steps of a pass that leave the gates alone.
LEMMA QuietPass ==
  ASSUME TypeInv, ClockInv, NEW r \in Replicas,
         \/ PassBegin(r) \/ InputsFail(r) \/ Judge(r) \/ SpareRead(r) \/ StaySuspended(r)
         \/ Resume(r) \/ StepsRead(r) \/ SuspendDecide(r) \/ SuspendCommit(r) \/ FencedOff(r)
  PROVE  TypeInv' /\ Effect
<1>1. UNCHANGED <<kind, st, wait, seen, fin, leader, call, rerun, kill, count>> /\ run' \in RunStatus
  <2>1. UNCHANGED <<kind, st, wait, seen, fin, leader, call, rerun, kill, count>>
        /\ (run' = run \/ run' = "Running" \/ run' = "Suspended")
    BY DEF PassBegin, InputsFail, Judge, SpareRead, StaySuspended, Resume, StepsRead, SuspendDecide,
           SuspendCommit, FencedOff, MoveRun
  <2>2. QED BY <2>1 DEF TypeInv, RowsTyped, RunStatus
<1>2. Effect BY <1>1, NoEffect
<1>3. RowsTyped' BY <1>1 DEF TypeInv, RowsTyped
<1>4. CallTyped' /\ RerunTyped' /\ KillTyped' BY <1>1, Unmoved
<1>5. PassTyped'
  <2>0. PassTyped BY DEF TypeInv, TasksTyped
  <2>1. CASE PassBegin(r) BY <2>1, BeginPass
  <2>2. CASE InputsFail(r) BY <2>0, <2>2, VerdictPass DEF InputsFail, Judging, At
  <2>3. CASE Judge(r) BY <2>3, JudgePass
  <2>4. CASE SpareRead(r) BY <2>4, SparePass
  <2>5. CASE StaySuspended(r) BY <2>0, <2>5, PassLeft DEF StaySuspended
  <2>6. CASE Resume(r) BY <2>6, ResumePass
  <2>7. CASE StepsRead(r) BY <2>7, ReadPass
  <2>8. CASE SuspendDecide(r) BY <2>0, <2>8, PassLeft, StraightPass DEF SuspendDecide
  <2>9. CASE SuspendCommit(r) BY <2>0, <2>9, PassLeft DEF SuspendCommit
  <2>10. CASE FencedOff(r) BY <2>0, <2>10, PassLeft DEF FencedOff
  <2>11. QED BY <2>1, <2>2, <2>3, <2>4, <2>5, <2>6, <2>7, <2>8, <2>9, <2>10
<1>6. QED BY <1>2, <1>3, <1>4, <1>5 DEF TypeInv, TasksTyped

\* Steps of a pass that do not.
LEMMA BusyPass ==
  ASSUME TypeInv, ClockInv, NEW r \in Replicas,
         \/ VisitSupersede(r) \/ VisitMint(r) \/ StoreInputs(r) \/ PassResolve(r)
         \/ SpareSkip(r) \/ SpareRevive(r) \/ AdmitPromote(r) \/ AdmitSkip(r) \/ AdmitClaim(r)
  PROVE  TypeInv' /\ Effect
<1>0. PassTyped BY DEF TypeInv, TasksTyped
<1>1. UNCHANGED <<call, rerun, kill>>
  BY DEF VisitSupersede, VisitMint, StoreInputs, PassResolve, SpareSkip, SpareRevive, AdmitPromote,
         AdmitSkip, AdmitClaim
<1>2. CallTyped' /\ RerunTyped' /\ KillTyped' BY <1>1, Unmoved
<1>3. RowsTyped' /\ Effect BY VisitEffect, PassResolveEffect, SpareEffect, AdmitEffect
<1>4. PassTyped'
  <2>1. CASE VisitSupersede(r) BY <1>0, <2>1, NextItemKept DEF VisitSupersede, At
  <2>2. CASE VisitMint(r) BY <1>3, <2>2, MintPass DEF RowsTyped
  <2>3. CASE StoreInputs(r) BY <2>3, InputsPass
  <2>4. CASE PassResolve(r) BY <1>0, <2>4, NextItemKept DEF PassResolve, At
  <2>5. CASE SpareSkip(r) BY <1>0, <2>5, NextItemKept DEF SpareSkip, At
  <2>6. CASE SpareRevive(r) BY <1>0, <2>6, NextItemKept DEF SpareRevive, At
  <2>7. CASE AdmitPromote(r) BY <1>0, <2>7, NextItemKept DEF AdmitPromote, At
  <2>8. CASE AdmitSkip(r) BY <1>0, <2>8, NextItemKept DEF AdmitSkip, At
  <2>9. CASE AdmitClaim(r) BY <1>0, <2>9, PassLeft, StraightPass DEF AdmitClaim
  <2>10. QED BY <2>1, <2>2, <2>3, <2>4, <2>5, <2>6, <2>7, <2>8, <2>9
<1>5. QED BY <1>2, <1>3, <1>4 DEF TypeInv, TasksTyped

\* A leader's cancel of a Run over budget, and a new leader.
LEMMA BudgetPass ==
  ASSUME TypeInv, ClockInv, NEW r \in Replicas, OverBudget(r) \/ ExhaustRun(r) \/ NewLeader(r)
  PROVE  TypeInv' /\ Effect
<1>0. PassTyped /\ KillTyped /\ r \in Killers BY DEF TypeInv, TasksTyped, Killers
<1>1. UNCHANGED <<kind, st, wait, seen, fin, call, rerun>> BY DEF OverBudget, ExhaustRun, NewLeader
<1>2. run' \in RunStatus /\ leader' \in Replicas
  BY DEF OverBudget, ExhaustRun, NewLeader, MoveRun, TypeInv, RowsTyped, RunStatus, RunOver
<1>3. count' \in CountType
  <2>1. count' = count \/ count' = [count EXCEPT !.terms = @ + 1]
    BY DEF OverBudget, ExhaustRun, NewLeader
  <2>2. QED BY <2>1 DEF TypeInv, RowsTyped, CountType
<1>4. RowsTyped' /\ Effect BY <1>1, <1>2, <1>3, NoEffect DEF TypeInv, RowsTyped
<1>5. CallTyped' /\ RerunTyped' BY <1>1, Unmoved
<1>6. PassTyped' BY <1>0, PassLeft, StraightPass DEF OverBudget, ExhaustRun, NewLeader, Leave, Goes
<1>7. KillTyped'
  <2>1. CASE OverBudget(r)
    <3>1. KillTo(r, Killing("Running")) BY <2>1 DEF OverBudget, KillTo
    <3>2. Killing("Running") \in KillType /\ GoodKill(Killing("Running"))
      BY KillingTyped DEF TypeInv, RowsTyped, RunStatus
    <3>3. QED BY <1>0, <3>1, <3>2, KillKept
  <2>2. CASE ExhaustRun(r) \/ NewLeader(r)
    <3>1. KillTo(r, IdleKill) BY <2>2 DEF ExhaustRun, NewLeader, KillTo
    <3>2. QED BY <1>0, <3>1, IdleTyped, KillKept
  <2>3. QED BY <2>1, <2>2
<1>8. QED BY <1>4, <1>5, <1>6, <1>7 DEF TypeInv, TasksTyped

\* A cancel goes on.
LEMMA KillGoesOn ==
  ASSUME TypeInv, ClockInv, NEW k \in Killers, KillStep(k) \/ KillClose(k)
  PROVE  TypeInv' /\ Effect
<1>1. /\ st' \in Snapshot /\ fin' \in [Steps -> 0..None] /\ wait' \in Waits /\ Effect
      /\ UNCHANGED <<kind, run, seen, bill, leader, call, rerun, count>>
  BY KillEffect
<1>2. RowsTyped' BY <1>1 DEF TypeInv, RowsTyped
<1>3. UNCHANGED pass BY DEF KillStep, KillClose
<1>4. PassTyped' /\ CallTyped' /\ RerunTyped' BY <1>1, <1>3, Unmoved
<1>5. KillTyped' BY StepKill DEF TypeInv, TasksTyped
<1>6. QED BY <1>1, <1>2, <1>4, <1>5 DEF TypeInv, TasksTyped

LEMMA CancelTyped ==
  ASSUME TypeInv, ClockInv, CancelRead \/ CancelRun \/ CancelStops PROVE TypeInv' /\ Effect
<1>0. KillTyped /\ "api" \in Killers BY DEF TypeInv, TasksTyped, Killers
<1>1. UNCHANGED <<kind, st, wait, seen, fin, leader, pass, call, rerun>>
  BY DEF CancelRead, CancelRun, CancelStops
<1>2. run' \in RunStatus
  BY DEF CancelRead, CancelRun, CancelStops, MoveRun, TypeInv, RowsTyped, RunStatus, RunOver
<1>3. count' \in CountType
  <2>1. count' = count \/ count' = [count EXCEPT !.cancels = @ + 1]
    BY DEF CancelRead, CancelRun, CancelStops
  <2>2. QED BY <2>1 DEF TypeInv, RowsTyped, CountType
<1>4. RowsTyped' /\ Effect BY <1>1, <1>2, <1>3, NoEffect DEF TypeInv, RowsTyped
<1>5. PassTyped' /\ CallTyped' /\ RerunTyped' BY <1>1, Unmoved
<1>6. KillTyped'
  <2>1. CASE CancelRead
    <3>1. KillTo("api", Killing(run)) BY <2>1 DEF CancelRead
    <3>2. Killing(run) \in KillType /\ GoodKill(Killing(run)) BY KillingTyped DEF TypeInv, RowsTyped
    <3>3. QED BY <1>0, <3>1, <3>2, KillKept
  <2>2. CASE CancelRun \/ CancelStops
    BY <1>0, <2>2, IdleTyped, KillKept DEF CancelRun, CancelStops
  <2>3. QED BY <2>1, <2>2
<1>7. QED BY <1>4, <1>5, <1>6 DEF TypeInv, TasksTyped

\* Calls.
LEMMA CallsTyped ==
  ASSUME TypeInv, ClockInv, NEW c \in Callers, CallStep(c) \/ CallStops(c) PROVE TypeInv' /\ Effect
<1>1. UNCHANGED <<pass, rerun, kill>>
  BY DEF CallStep, ApproveRecord, ApproveDecide, ApproveMet, CallCheck, PluginAnswer, CallResolve,
         CallReopen, CallStops
<1>2. PassTyped' /\ RerunTyped' /\ KillTyped' BY <1>1, Unmoved
<1>3. CallTyped' BY StepCall
<1>4. RowsTyped' /\ Effect
  <2>1. CASE ApproveRecord(c) \/ ApproveMet(c) BY <2>1, ApproveEffect
  <2>2. CASE CallResolve(c) BY <2>2, CallResolveEffect
  <2>3. CASE ApproveDecide(c) \/ CallCheck(c) \/ PluginAnswer(c) \/ CallReopen(c) \/ CallStops(c)
    <3>1. UNCHANGED <<kind, st, wait, seen, fin, leader, rerun, count>>
          /\ (run' = run \/ run' = "Running")
      BY <2>3 DEF ApproveDecide, CallCheck, PluginAnswer, CallReopen, CallStops, MoveRun
    <3>2. QED BY <3>1, NoEffect DEF TypeInv, RowsTyped, RunStatus
  <2>4. QED BY <2>1, <2>2, <2>3 DEF CallStep
<1>5. QED BY <1>2, <1>3, <1>4 DEF TypeInv, TasksTyped

LEMMA ReadsTyped ==
  ASSUME TypeInv, ClockInv, NEW c \in Callers, NEW g \in Gates,
         ApproveRead(c, g) \/ VerdictRead(c, g) \/ PluginRead(c, g)
  PROVE  TypeInv' /\ Effect
<1>1. UNCHANGED <<kind, run, st, wait, seen, fin, bill, leader, pass, rerun, kill>>
  BY DEF ApproveRead, VerdictRead, PluginRead, Starts
<1>2. CallTyped' /\ count' \in CountType BY ReadCall
<1>3. RowsTyped' /\ Effect BY <1>1, <1>2, NoEffect DEF TypeInv, RowsTyped
<1>4. PassTyped' /\ RerunTyped' /\ KillTyped' BY <1>1, Unmoved
<1>5. QED BY <1>2, <1>3, <1>4 DEF TypeInv, TasksTyped

\* Reruns.
LEMMA RerunsTyped ==
  ASSUME TypeInv, ClockInv,
         \/ \E t \in Steps, retry \in BOOLEAN : RerunRead(t, retry)
         \/ RerunGoesOn \/ RerunStops
  PROVE  TypeInv' /\ Effect
<1>1. UNCHANGED <<pass, call, kill>> BY DEF RerunRead, RerunGoesOn, RerunReopen, RerunStep, RerunStops
<1>2. PassTyped' /\ CallTyped' /\ KillTyped' BY <1>1, Unmoved
<1>3. RerunTyped' BY ReadRerun, StepRerun DEF RerunGoesOn, TypeInv, TasksTyped
<1>4. RowsTyped' /\ Effect BY ReadEffect, RerunStepEffect, RerunOtherEffect DEF RerunGoesOn
<1>5. QED BY <1>2, <1>3, <1>4 DEF TypeInv, TasksTyped

\* Attempts, and the end of the Run.
LEMMA RestTyped ==
  ASSUME TypeInv, ClockInv, (\E s \in Work : Drive(s)) \/ Settle PROVE TypeInv' /\ Effect
<1>1. UNCHANGED <<pass, call, rerun, kill>> BY DEF Drive, Settle
<1>2. TasksTyped' BY <1>1, Unmoved DEF TasksTyped
<1>3. CASE \E s \in Work : Drive(s) BY <1>2, <1>3, DriveEffect DEF TypeInv
<1>4. CASE Settle
  <2>1. UNCHANGED <<kind, st, wait, seen, fin, leader, rerun, count>>
        /\ (run' = "Failed" \/ run' = "Succeeded")
    BY <1>4 DEF Settle, MoveRun
  <2>2. RowsTyped' /\ Effect BY <2>1, NoEffect DEF TypeInv, RowsTyped, RunStatus, RunOver
  <2>3. QED BY <1>2, <2>2 DEF TypeInv
<1>5. QED BY <1>3, <1>4

LEMMA TickTyped == ASSUME TypeInv, Tick PROVE TypeInv'
<1>1. UNCHANGED <<rerun, kill>> BY DEF Tick
<1>2. RerunTyped' /\ KillTyped' BY <1>1, Unmoved
<1>3. QED BY <1>2, TickRows, TickTasks DEF TypeInv, TasksTyped

LEMMA StepTyped == ASSUME TypeInv, ClockInv, Next PROVE TypeInv' /\ (Effect \/ Tick)
<1>1. CASE \E r \in Replicas : PassBegin(r) \/ PassStep(r) \/ NewLeader(r)
  <2>1. PICK r \in Replicas : PassBegin(r) \/ PassStep(r) \/ NewLeader(r) BY <1>1
  <2>2. r \in Killers BY DEF Killers
  <2>3. QED BY <2>1, <2>2, QuietPass, BusyPass, BudgetPass, KillGoesOn DEF PassStep
<1>2. CASE \E c \in Callers : CallStep(c) \/ CallStops(c) BY <1>2, CallsTyped
<1>3. CASE \E c \in Callers, g \in Gates : ApproveRead(c, g) \/ VerdictRead(c, g) \/ PluginRead(c, g)
  BY <1>3, ReadsTyped
<1>4. CASE \/ \E t \in Steps, retry \in BOOLEAN : RerunRead(t, retry)
           \/ RerunGoesOn \/ RerunStops
  BY <1>4, RerunsTyped
<1>5. CASE CancelRead \/ CancelStep \/ CancelStops
  <2>1. "api" \in Killers BY DEF Killers
  <2>2. QED BY <1>5, <2>1, CancelTyped, KillGoesOn DEF CancelStep
<1>6. CASE (\E s \in Work : Drive(s)) \/ Settle BY <1>6, RestTyped
<1>7. CASE Tick BY <1>7, TickTyped
<1>8. QED BY <1>1, <1>2, <1>3, <1>4, <1>5, <1>6, <1>7 DEF Next

-----------------------------------------------------------------------------
(* Waits and their clocks.                                                 *)

LEMMA OpenStep == ASSUME TypeInv, ClockInv, OpenInv, Next PROVE OpenInv'
<1>1. Effect \/ Tick BY StepTyped
<1>2. CASE Effect
  <2> SUFFICES ASSUME NEW g \in Gates, wait'[g].open PROVE st'[g] \in NoVerdict
    BY DEF OpenInv, NoVerdict
  <2>1. CASE Minted(g) BY <2>1 DEF Minted, NoVerdict
  <2>2. CASE Stays(g) \/ Stale(g)
    <3>1. st[g] \in NoVerdict BY <2>2 DEF Stays, Stale, SameWait, OpenInv, NoVerdict
    <3>2. QED BY <1>2, <3>1 DEF Effect
  <2>3. QED BY <1>2, <2>1, <2>2 DEF Effect
<1>3. CASE Tick BY <1>3, TickRows DEF OpenInv
<1>4. QED BY <1>1, <1>2, <1>3

LEMMA ClockStep == ASSUME TypeInv, ClockInv, Next PROVE ClockInv'
<1>1. TypeInv' /\ (Effect \/ Tick) BY StepTyped
<1>2. ASSUME NEW g \in Gates
      PROVE  /\ wait[g].ep \in Nat /\ wait[g].age \in Age
             /\ seen[g].ep \in Nat /\ seen[g].rearm \in Age /\ seen[g].ep # 0
             /\ wait[g].ep <= seen[g].ep /\ wait'[g].ep \in Nat /\ seen'[g].ep \in Nat
             /\ \A n \in Needs[g] : n \in Steps /\ fin[n] \in 0..None
  BY <1>1, GateWaitsAssumption DEF TypeInv, RowsTyped, Waits, Wait, Episode, ClockInv, Steps
<1>3. ASSUME NEW g \in Gates, Effect
      PROVE  /\ wait'[g].ep <= seen'[g].ep /\ seen'[g].ep # 0
             /\ (wait'[g].open /\ wait'[g].ep = seen'[g].ep) => OwnWait(g)'
  <2>1. CASE Stale(g) BY <1>2, <2>1 DEF Stale
  <2>2. CASE Minted(g) /\ ~Stale(g)
    <3>1. wait'[g].ep = EpisodeOf(g) /\ wait'[g].age = WaitBegan(g) /\ UNCHANGED <<st, fin, seen, rerun>>
      BY <2>2 DEF Minted
    <3>2. EpisodeOf(g) = 0 \/ EpisodeOf(g) = seen[g].ep BY DEF EpisodeOf
    <3>3. wait'[g].ep <= seen'[g].ep /\ seen'[g].ep # 0 BY <1>2, <3>1, <3>2
    <3>4. ASSUME wait'[g].ep = seen'[g].ep PROVE OwnWait(g)'
      <4>1. g \notin rerun.set /\ Reached(g, st) BY <1>2, <3>1, <3>4 DEF EpisodeOf
      <4>2. WaitBegan(g) <= seen[g].rearm /\ \A n \in Needs[g] : WaitBegan(g) <= fin[n]
        BY WaitBeganTyped DEF TypeInv
      <4>3. QED BY <3>1, <4>1, <4>2 DEF OwnWait, Reached
    <3>5. QED BY <3>3, <3>4
  <2>3. CASE Stays(g) /\ ~Stale(g)
    <3>1. /\ wait'[g].ep = wait[g].ep /\ wait'[g].open = wait[g].open /\ wait'[g].age = wait[g].age
          /\ seen'[g].ep = seen[g].ep /\ seen'[g].rearm = seen[g].rearm
      BY <2>3 DEF Stays, SameWait
    <3>2. wait'[g].ep <= seen'[g].ep /\ seen'[g].ep # 0 BY <1>2, <3>1
    <3>3. ASSUME wait'[g].open, wait'[g].ep = seen'[g].ep PROVE OwnWait(g)'
      <4>1. OwnWait(g) BY <3>1, <3>3 DEF ClockInv
      <4>2. g \notin rerun'.set BY <1>3, <2>3, <4>1 DEF Effect, OwnWait
      <4>3. \A n \in Needs[g] : n \in Steps /\ n \notin rerun.set
        <5>1. g \in Steps /\ GoodRerun(rerun) BY DEF Steps, TypeInv, TasksTyped, RerunTyped
        <5>2. g \notin rerun.set BY <4>1 DEF OwnWait
        <5>3. QED BY <1>2, <5>1, <5>2 DEF GoodRerun
      <4>4. \A n \in Needs[g] : st'[n] = "Succeeded" /\ fin'[n] = fin[n]
        BY <1>3, <4>1, <4>3 DEF Effect, OwnWait
      <4>5. QED BY <3>1, <4>1, <4>2, <4>4 DEF OwnWait
    <3>4. QED BY <3>2, <3>3
  <2>4. QED BY <1>3, <2>1, <2>2, <2>3 DEF Effect
<1>4. ASSUME NEW g \in Gates, Tick
      PROVE  /\ wait'[g].ep <= seen'[g].ep /\ seen'[g].ep # 0
             /\ (wait'[g].open /\ wait'[g].ep = seen'[g].ep) => OwnWait(g)'
  <2>1. /\ UNCHANGED <<st, rerun>>
        /\ wait'[g].open = wait[g].open /\ wait'[g].ep = wait[g].ep
        /\ wait[g].open => wait'[g].age = Older(wait[g].age)
        /\ seen'[g].ep = seen[g].ep /\ seen'[g].rearm = Older(seen[g].rearm)
        /\ \A s \in Steps : fin'[s] = IF fin[s] = None THEN None ELSE Older(fin[s])
    BY <1>4, TickRows
  <2>2. ASSUME wait'[g].open, wait'[g].ep = seen'[g].ep PROVE OwnWait(g)'
    <3>1. OwnWait(g) /\ wait'[g].age = Older(wait[g].age) BY <2>1, <2>2 DEF ClockInv
    <3>2. wait'[g].age <= seen'[g].rearm BY <1>2, <2>1, <3>1, OlderTyped DEF OwnWait
    <3>3. ASSUME NEW n \in Needs[g] PROVE wait'[g].age <= fin'[n]
      <4>1. wait[g].age <= fin[n] /\ fin[n] \in 0..None /\ n \in Steps BY <1>2, <3>1 DEF OwnWait
      <4>2. CASE fin[n] = None
        <5>1. fin'[n] = None BY <2>1, <4>1, <4>2
        <5>2. Older(wait[g].age) < None /\ Older(wait[g].age) \in Age BY <1>2, OlderTyped
        <5>3. QED BY <3>1, <5>1, <5>2, AgesAreNumbers
      <4>3. CASE fin[n] # None
        <5>1. fin'[n] = Older(fin[n]) BY <2>1, <4>1, <4>3
        <5>2. fin[n] \in Age BY <4>1, <4>3, OlderTyped
        <5>3. QED BY <1>2, <3>1, <4>1, <5>1, <5>2, OlderTyped
      <4>4. QED BY <4>2, <4>3
    <3>4. QED BY <2>1, <3>1, <3>2, <3>3 DEF OwnWait
  <2>3. QED BY <1>2, <2>1, <2>2
<1>5. QED BY <1>1, <1>3, <1>4 DEF ClockInv

-----------------------------------------------------------------------------
(* The Run's status: its bill and its suspension.                          *)

\* What a step does to the Run.
LEMMA RunGoes ==
  ASSUME Next
  PROVE  \/ UNCHANGED <<run, bill>>
         \/ \E to \in {"Running", "Failed", "Succeeded", "Cancelled"} : MoveRun(to)
         \/ \E r \in Replicas : SuspendCommit(r) /\ MoveRun("Suspended")
         \/ run' = run /\ bill' = [billed |-> 0, counting |-> FALSE, ran |-> 0]
         \/ Tick
<1>1. CASE \E r \in Replicas : PassBegin(r) \/ PassStep(r) \/ NewLeader(r)
  <2>1. PICK r \in Replicas : PassBegin(r) \/ PassStep(r) \/ NewLeader(r) BY <1>1
  <2>2. CASE SuspendCommit(r) BY <2>2 DEF SuspendCommit
  <2>3. CASE Resume(r) BY <2>3 DEF Resume
  <2>4. CASE ExhaustRun(r) BY <2>4 DEF ExhaustRun
  <2>5. CASE ~SuspendCommit(r) /\ ~Resume(r) /\ ~ExhaustRun(r)
    <3>1. UNCHANGED <<run, bill>>
      BY <2>1, <2>5
      DEF PassStep, PassBegin, NewLeader, VisitSupersede, VisitMint, StoreInputs, InputsFail, Judge,
          PassResolve, SpareRead, SpareSkip, SpareRevive, StaySuspended, OverBudget, StepsRead,
          AdmitPromote, AdmitSkip, AdmitClaim, SuspendDecide, FencedOff, KillStep, KillClose
    <3>2. QED BY <3>1
  <2>6. QED BY <2>2, <2>3, <2>4, <2>5
<1>2. CASE \E c \in Callers : CallStep(c) \/ CallStops(c)
  <2>1. UNCHANGED <<run, bill>> \/ MoveRun("Running")
    BY <1>2 DEF CallStep, ApproveRecord, ApproveDecide, ApproveMet, CallCheck, PluginAnswer,
                CallResolve, CallReopen, CallStops
  <2>2. QED BY <2>1
<1>3. CASE \E c \in Callers, g \in Gates : ApproveRead(c, g) \/ VerdictRead(c, g) \/ PluginRead(c, g)
  BY <1>3 DEF ApproveRead, VerdictRead, PluginRead, Starts
<1>4. CASE \E t \in Steps, retry \in BOOLEAN : RerunRead(t, retry) BY <1>4 DEF RerunRead
<1>5. CASE RerunGoesOn \/ RerunStops BY <1>5 DEF RerunGoesOn, RerunReopen, RerunStep, RerunStops
<1>6. CASE CancelRead \/ CancelStep \/ CancelStops
  BY <1>6 DEF CancelRead, CancelStep, KillStep, KillClose, CancelRun, CancelStops
<1>7. CASE \E s \in Work : Drive(s) BY <1>7 DEF Drive
<1>8. CASE Settle BY <1>8 DEF Settle
<1>9. QED BY <1>1, <1>2, <1>3, <1>4, <1>5, <1>6, <1>7, <1>8 DEF Next

LEMMA BillStep == ASSUME BillInv, Next PROVE BillInv'
<1> DEFINE B == [billed : 0..Budget, counting : BOOLEAN, ran : 0..Budget]
<1>0. bill \in B /\ Budget \in Nat BY GateWaitsAssumption DEF BillInv
<1>1. CASE UNCHANGED <<run, bill>> BY <1>1 DEF BillInv
<1>2. CASE \E to \in {"Running", "Suspended", "Failed", "Succeeded", "Cancelled"} : MoveRun(to)
  <2>1. PICK to \in {"Running", "Suspended", "Failed", "Succeeded", "Cancelled"} : MoveRun(to) BY <1>2
  <2> DEFINE b == (to = "Running")
  <2>2. run' = to /\ bill' = [bill EXCEPT !.counting = b] /\ b \in BOOLEAN /\ (b => to = "Running")
    BY <2>1 DEF MoveRun, CountFrom
  <2> HIDE DEF b
  <2>3. bill' \in B /\ bill'.counting = b /\ bill'.billed = bill.billed /\ bill'.ran = bill.ran
    BY <1>0, <2>2
  <2>4. QED BY <2>2, <2>3 DEF BillInv
<1>3. CASE run' = run /\ bill' = [billed |-> 0, counting |-> FALSE, ran |-> 0]
  BY <1>0, <1>3 DEF BillInv
<1>4. CASE Tick
  <2> DEFINE x == IF bill.counting THEN Spent(bill.billed) ELSE bill.billed
             y == IF run = "Running" THEN Spent(bill.ran) ELSE bill.ran
  <2>1. run' = run /\ bill' = [bill EXCEPT !.billed = x, !.ran = y] BY <1>4 DEF Tick
  <2>2. x \in 0..Budget /\ y \in 0..Budget BY <1>0 DEF Spent
  <2>3. x <= y BY <1>0 DEF BillInv, Spent
  <2> HIDE DEF x, y
  <2>4. bill' \in B /\ bill'.counting = bill.counting /\ bill'.billed = x /\ bill'.ran = y
    BY <1>0, <2>1, <2>2
  <2>5. QED BY <2>1, <2>3, <2>4 DEF BillInv
<1>5. QED BY <1>1, <1>2, <1>3, <1>4, RunGoes

\* Only the leader's promotion and claim put a Step on its way.
NoneStarts ==
  \A s \in Steps : st'[s] \in {"Ready", "Running"} => st[s] \in {"Ready", "Running"}

LEMMA MoveStarts ==
  ASSUME st \in Snapshot, NEW s, NEW to, to \notin {"Ready", "Running"}, StepMoves(s, to)
  PROVE  NoneStarts
  BY DEF StepMoves, NoneStarts, Snapshot

LEMMA ResolveStarts ==
  ASSUME st \in Snapshot, NEW g, NEW b \in BOOLEAN, Resolve(g, b) PROVE NoneStarts
<1>1. PICK to \in {"Succeeded", "Failed"} : StepMoves(g, to) BY DEF Resolve
<1>2. QED BY <1>1, MoveStarts

LEMMA PassStarts ==
  ASSUME TypeInv, NEW r \in Replicas, PassBegin(r) \/ PassStep(r) \/ NewLeader(r),
         ~AdmitPromote(r), ~AdmitClaim(r)
  PROVE  NoneStarts
<1>0. st \in Snapshot BY DEF TypeInv, RowsTyped
<1>1. CASE st' = st BY <1>1 DEF NoneStarts
<1>2. CASE st' # st
  <2>1. PassResolve(r) \/ SpareSkip(r) \/ SpareRevive(r) \/ AdmitSkip(r) \/ KillStep(r)
    BY <1>2
    DEF PassStep, PassBegin, NewLeader, VisitSupersede, VisitMint, StoreInputs, InputsFail, Judge,
        SpareRead, StaySuspended, Resume, OverBudget, StepsRead, SuspendDecide, SuspendCommit,
        FencedOff, KillClose, ExhaustRun
  <2>2. CASE PassResolve(r)
    <3>1. Resolve(Item(r), pass[r].passed) BY <1>2, <2>2 DEF PassResolve
    <3>2. pass[r].passed \in BOOLEAN BY DEF TypeInv, TasksTyped, PassTyped, PassType
    <3>3. QED BY <1>0, <3>1, <3>2, ResolveStarts
  <2>3. CASE SpareSkip(r) BY <1>0, <1>2, <2>3, MoveStarts DEF SpareSkip
  <2>4. CASE SpareRevive(r) BY <1>0, <1>2, <2>4, MoveStarts DEF SpareRevive
  <2>5. CASE AdmitSkip(r) BY <1>0, <1>2, <2>5, MoveStarts DEF AdmitSkip
  <2>6. CASE KillStep(r) BY <1>0, <1>2, <2>6, MoveStarts DEF KillStep
  <2>7. QED BY <2>1, <2>2, <2>3, <2>4, <2>5, <2>6
<1>3. QED BY <1>1, <1>2

\* Whatever is not a pass's leaves the passes and the lease alone.
LEMMA OtherStarts ==
  ASSUME TypeInv, Next, ~\E r \in Replicas : PassBegin(r) \/ PassStep(r) \/ NewLeader(r), ~Tick
  PROVE  NoneStarts /\ UNCHANGED <<pass, leader>>
<1>0. st \in Snapshot BY DEF TypeInv, RowsTyped
<1>1. CASE \E c \in Callers : CallStep(c) \/ CallStops(c)
  <2>1. PICK c \in Callers : CallStep(c) \/ CallStops(c) BY <1>1
  <2>2. UNCHANGED <<pass, leader>> /\ (st' = st \/ Resolve(call[c].g, call[c].passed))
    BY <2>1 DEF CallStep, ApproveRecord, ApproveDecide, ApproveMet, CallCheck, PluginAnswer,
                CallResolve, CallReopen, CallStops
  <2>3. call[c].passed \in BOOLEAN BY DEF TypeInv, TasksTyped, CallTyped, CallType
  <2>4. NoneStarts BY <1>0, <2>2, <2>3, ResolveStarts DEF NoneStarts
  <2>5. QED BY <2>2, <2>4
<1>2. CASE \E c \in Callers, g \in Gates : ApproveRead(c, g) \/ VerdictRead(c, g) \/ PluginRead(c, g)
  <2>1. UNCHANGED <<st, pass, leader>> BY <1>2 DEF ApproveRead, VerdictRead, PluginRead, Starts
  <2>2. QED BY <2>1 DEF NoneStarts
<1>3. CASE \/ \E t \in Steps, retry \in BOOLEAN : RerunRead(t, retry)
           \/ RerunGoesOn \/ RerunStops
  <2>1. /\ UNCHANGED <<pass, leader>>
        /\ st' = st \/ StepMoves(First(rerun.todo), "Pending")
    BY <1>3 DEF RerunRead, RerunGoesOn, RerunReopen, RerunStep, Rearm, RerunStops
  <2>2. QED BY <1>0, <2>1, MoveStarts DEF NoneStarts
<1>4. CASE CancelRead \/ CancelStep \/ CancelStops
  <2>1. /\ UNCHANGED <<pass, leader>>
        /\ st' = st \/ StepMoves(KillItem("api"), "Cancelled")
    BY <1>4 DEF CancelRead, CancelStep, KillStep, KillClose, CancelRun, CancelStops
  <2>2. QED BY <1>0, <2>1, MoveStarts DEF NoneStarts
<1>5. CASE \E s \in Work : Drive(s)
  <2>1. UNCHANGED <<pass, leader>>
        /\ \E s \in Work : \E to \in {"Succeeded", "Failed"} : StepMoves(s, to)
    BY <1>5 DEF Drive
  <2>2. QED BY <1>0, <2>1, MoveStarts
<1>6. CASE Settle BY <1>6 DEF Settle, NoneStarts
<1>7. QED BY <1>1, <1>2, <1>3, <1>4, <1>5, <1>6 DEF Next

\* A Run that only waits has nothing claimed.
LEMMA OnlyWaitsIdle == ASSUME OnlyWaits(st) PROVE NoneClaimed
  BY DEF OnlyWaits, NoneClaimed, Over

LEMMA StartsIdle == ASSUME NoneStarts, NoneClaimed PROVE NoneClaimed'
  BY DEF NoneStarts, NoneClaimed

\* A pass other than the leader's.
LEMMA OtherPassIdle ==
  ASSUME TypeInv, IdleInv, NEW r \in Replicas, PassBegin(r) \/ PassStep(r), r # leader
  PROVE  IdleInv'
<1>1. ~AdmitPromote(r) /\ ~AdmitClaim(r) /\ ~Resume(r) /\ ~SuspendCommit(r)
  BY DEF AdmitPromote, AdmitClaim, Resume, SuspendCommit
<1>2. NoneStarts BY <1>1, PassStarts
<1>3. /\ leader' = leader /\ (pass' = pass \/ \E p : Goes(r, p))
      /\ run' = run \/ run' = "Failed"
  <2>1. CASE PassBegin(r) BY <2>1 DEF PassBegin
  <2>2. CASE VisitSupersede(r) \/ VisitMint(r) \/ StoreInputs(r) \/ InputsFail(r) \/ Judge(r)
    BY <2>2 DEF VisitSupersede, VisitMint, StoreInputs, InputsFail, Judge
  <2>3. CASE PassResolve(r) \/ SpareRead(r) \/ SpareSkip(r) \/ SpareRevive(r) \/ StaySuspended(r)
    BY <2>3 DEF PassResolve, SpareRead, SpareSkip, SpareRevive, StaySuspended, Leave
  <2>4. CASE OverBudget(r) \/ StepsRead(r) \/ AdmitSkip(r) \/ SuspendDecide(r) \/ FencedOff(r)
    BY <2>4 DEF OverBudget, StepsRead, AdmitSkip, SuspendDecide, FencedOff, Leave
  <2>5. CASE KillStep(r) \/ KillClose(r) BY <2>5 DEF KillStep, KillClose
  <2>6. CASE ExhaustRun(r) BY <2>6 DEF ExhaustRun, MoveRun, Leave
  <2>7. QED BY <1>1, <2>1, <2>2, <2>3, <2>4, <2>5, <2>6 DEF PassStep
<1>4. pass'[leader'] = pass[leader]
  BY <1>3 DEF Goes, TypeInv, TasksTyped, PassTyped, RowsTyped
<1>5. QED BY <1>2, <1>3, <1>4, StartsIdle DEF IdleInv

\* The leader's own pass becomes p.
LEMMA GoesTo ==
  ASSUME TypeInv, NEW r \in Replicas, NEW p, Goes(r, p), leader' = r PROVE pass'[leader'] = p
  BY DEF Goes, TypeInv, TasksTyped, PassTyped

LEMMA EnterFields ==
  ASSUME TypeInv, NEW r \in Replicas, NEW p \in PassType, NEW todo, NEW here, NEW next,
         here # "suspending", next # "suspending", leader' = r, Goes(r, Enter(p, todo, here, next))
  PROVE  pass'[leader'].pc # "suspending" /\ pass'[leader'].from = p.from
<1> DEFINE c == IF todo = {} THEN next ELSE here
<1>1. c # "suspending" OBVIOUS
<1>2. pass'[leader'] = [p EXCEPT !.todo = todo, !.pc = c] BY GoesTo DEF Enter
<1> HIDE DEF c
<1>3. QED BY <1>1, <1>2 DEF PassType

\* The leader's.
LEMMA LeaderPassIdle ==
  ASSUME TypeInv, IdleInv, PassBegin(leader) \/ PassStep(leader)
  PROVE  IdleInv'
<1> DEFINE r == leader
<1>0. r \in Replicas /\ pass[r] \in PassType /\ GoodPass(pass[r])
  BY DEF TypeInv, TasksTyped, PassTyped, RowsTyped
<1>1. leader' = r
  BY DEF PassStep, PassBegin, VisitSupersede, VisitMint, StoreInputs, InputsFail, Judge, PassResolve,
         SpareRead, SpareSkip, SpareRevive, StaySuspended, Resume, OverBudget, StepsRead, AdmitPromote,
         AdmitSkip, AdmitClaim, SuspendDecide, SuspendCommit, FencedOff, KillStep, KillClose, ExhaustRun
<1>2. ASSUME run' = run, pass'[leader'].pc # "suspending",
             pass'[leader'].pc = "idle" \/ pass'[leader'].from = pass[r].from, pass[r].pc # "idle",
             NoneStarts
      PROVE  IdleInv'
  BY <1>2, StartsIdle DEF IdleInv
<1> HIDE DEF r
<1>3. CASE PassBegin(r)
  <2>1. run' = run /\ st' = st BY <1>3 DEF PassBegin
  <2> DEFINE p == [IdlePass EXCEPT !.from = run, !.snap = st, !.att = wait]
  <2>2. p \in PassType /\ p.from = run BY IdleTyped DEF PassType, TypeInv, RowsTyped
  <2>3. \E todo : Goes(r, Enter(p, todo, "visit", "spare")) BY <1>3 DEF PassBegin
  <2> HIDE DEF p
  <2>4. pass'[leader'].pc # "suspending" /\ pass'[leader'].from = run
    BY <1>0, <1>1, <2>2, <2>3, EnterFields
  <2>5. QED BY <2>1, <2>4 DEF IdleInv, NoneClaimed
<1>4. CASE VisitSupersede(r) \/ PassResolve(r) \/ SpareSkip(r) \/ SpareRevive(r) \/ AdmitSkip(r)
  <2>1. \E todo, here, next : /\ here # "suspending" /\ next # "suspending"
                              /\ Goes(r, Enter(pass[r], todo, here, next))
    BY <1>4 DEF VisitSupersede, PassResolve, SpareSkip, SpareRevive, AdmitSkip, NextItem
  <2>2. run' = run /\ pass[r].pc # "idle"
    BY <1>4 DEF VisitSupersede, PassResolve, SpareSkip, SpareRevive, AdmitSkip, At
  <2>3. pass'[leader'].pc # "suspending" /\ pass'[leader'].from = pass[r].from
    BY <1>0, <1>1, <2>1, EnterFields
  <2>4. NoneStarts
    <3>1. CASE AdmitSkip(r)
      <4>1. st' = st \/ StepMoves(Item(r), "Skipped") BY <3>1 DEF AdmitSkip
      <4>2. QED BY <4>1, MoveStarts DEF NoneStarts, TypeInv, RowsTyped
    <3>2. CASE ~AdmitSkip(r)
      <4>1. ~AdmitPromote(r) /\ ~AdmitClaim(r)
        BY <1>4, <3>2 DEF VisitSupersede, PassResolve, SpareSkip, SpareRevive, AdmitPromote, AdmitClaim, At
      <4>2. QED BY <1>0, <1>4, <4>1, PassStarts DEF PassStep
    <3>3. QED BY <3>1, <3>2
  <2>5. QED BY <1>2, <2>2, <2>3, <2>4
<1>5. CASE VisitMint(r) \/ StoreInputs(r) \/ InputsFail(r) \/ Judge(r)
  <2>1. run' = run /\ st' = st /\ pass[r].pc = "visit"
    BY <1>5 DEF VisitMint, StoreInputs, InputsFail, Judge, Judging, At
  <2>2. NoneStarts BY <2>1 DEF NoneStarts
  <2>3. CASE Goes(r, NextItem(r, "visit", "spare"))
    <3>1. pass'[leader'].pc # "suspending" /\ pass'[leader'].from = pass[r].from
      BY <1>0, <1>1, <2>3, EnterFields DEF NextItem
    <3>2. QED BY <1>2, <2>1, <2>2, <3>1
  <2>4. CASE \E c : Goes(r, [pass[r] EXCEPT !.pc = "resolve", !.passed = c])
    <3>1. PICK c : Goes(r, [pass[r] EXCEPT !.pc = "resolve", !.passed = c]) BY <2>4
    <3>2. pass'[leader'] = [pass[r] EXCEPT !.pc = "resolve", !.passed = c] BY <1>0, <1>1, <3>1, GoesTo
    <3>3. pass'[leader'].pc # "suspending" /\ pass'[leader'].from = pass[r].from
      BY <1>0, <3>2 DEF PassType
    <3>4. QED BY <1>2, <2>1, <2>2, <3>3
  <2>5. CASE \E a : Goes(r, [pass[r] EXCEPT !.att = a])
    <3>1. PICK a : Goes(r, [pass[r] EXCEPT !.att = a]) BY <2>5
    <3>2. pass'[leader'] = [pass[r] EXCEPT !.att = a] BY <1>0, <1>1, <3>1, GoesTo
    <3>3. pass'[leader'].pc # "suspending" /\ pass'[leader'].from = pass[r].from
      BY <1>0, <2>1, <3>2 DEF PassType
    <3>4. QED BY <1>2, <2>1, <2>2, <3>3
  <2>6. CASE VisitMint(r) \/ StoreInputs(r)
    <3>1. \/ Goes(r, NextItem(r, "visit", "spare"))
          \/ \E w : Goes(r, [pass[r] EXCEPT !.att[Item(r)] = w])
          \/ Goes(r, [pass[r] EXCEPT !.att[Item(r)].inputs = TRUE])
      BY <2>6 DEF VisitMint, StoreInputs
    <3>2. \A w : [pass[r] EXCEPT !.att[Item(r)] = w] =
                   [pass[r] EXCEPT !.att = [pass[r].att EXCEPT ![Item(r)] = w]]
      BY <1>0 DEF PassType
    <3>3. [pass[r] EXCEPT !.att[Item(r)].inputs = TRUE] =
            [pass[r] EXCEPT !.att = [pass[r].att EXCEPT ![Item(r)].inputs = TRUE]]
      BY <1>0 DEF PassType
    <3>4. Goes(r, NextItem(r, "visit", "spare")) \/ \E a : Goes(r, [pass[r] EXCEPT !.att = a])
      BY <3>1, <3>2, <3>3
    <3>5. QED BY <2>3, <2>5, <3>4
  <2>7. CASE InputsFail(r) \/ Judge(r)
    <3>1. \/ Goes(r, NextItem(r, "visit", "spare"))
          \/ \E c : Goes(r, [pass[r] EXCEPT !.pc = "resolve", !.passed = c])
      BY <2>7 DEF InputsFail, Judge
    <3>2. QED BY <2>3, <2>4, <3>1
  <2>8. QED BY <1>5, <2>6, <2>7
<1>6. CASE SpareRead(r)
  <2>1. run' = run /\ st' = st /\ pass[r].pc = "spare" BY <1>6 DEF SpareRead, At
  <2> DEFINE p == [pass[r] EXCEPT !.snap = st, !.att = wait]
  <2>2. p \in PassType /\ p.from = pass[r].from BY <1>0 DEF PassType, TypeInv, RowsTyped
  <2>3. \E todo : Goes(r, Enter(p, todo, "skip", "resume")) BY <1>6 DEF SpareRead
  <2> HIDE DEF p
  <2>4. pass'[leader'].pc # "suspending" /\ pass'[leader'].from = pass[r].from
    BY <1>0, <1>1, <2>2, <2>3, EnterFields
  <2>5. QED BY <1>2, <2>1, <2>4 DEF NoneStarts
<1>7. CASE StaySuspended(r) \/ FencedOff(r) \/ ExhaustRun(r)
  <2>1. Goes(r, IdlePass) /\ st' = st /\ (run' = run \/ run' = "Failed")
    BY <1>7 DEF StaySuspended, FencedOff, ExhaustRun, MoveRun, Leave
  <2>2. pass'[leader'].pc = "idle" BY <1>0, <1>1, <2>1, GoesTo, IdleTyped
  <2>3. QED BY <2>1, <2>2 DEF IdleInv, NoneClaimed
<1>8. ASSUME run' # "Suspended", pass'[leader'].pc # "suspending" PROVE IdleInv'
  BY <1>8 DEF IdleInv
<1>9. CASE Resume(r)
  <2>1. run' # "Suspended" /\ pass[r].pc = "resume" /\ Goes(r, [pass[r] EXCEPT !.from = "Running"])
    BY <1>9 DEF Resume, MoveRun, At
  <2>2. pass'[leader'] = [pass[r] EXCEPT !.from = "Running"] BY <1>0, <1>1, <2>1, GoesTo
  <2>3. pass'[leader'].pc = "resume" BY <1>0, <2>1, <2>2 DEF PassType
  <2>4. QED BY <1>8, <2>1, <2>3
<1>10. CASE OverBudget(r) \/ StepsRead(r)
  <2>1. run' = run /\ pass[r].pc = "resume" /\ pass[r].from # "Suspended"
    BY <1>10 DEF OverBudget, StepsRead, At
  <2>2. run' # "Suspended" BY <2>1 DEF IdleInv, r
  <2>3. CASE OverBudget(r)
    <3>1. pass'[leader'] = [IdlePass EXCEPT !.pc = "exhaust"]
      BY <1>0, <1>1, <2>3, GoesTo DEF OverBudget
    <3>2. pass'[leader'].pc = "exhaust" BY <3>1, IdleTyped DEF PassType
    <3>3. QED BY <1>8, <2>2, <3>2
  <2>4. CASE StepsRead(r)
    <3> DEFINE b == \E g \in Gates : st[g] = "Pending"
               p == [IdlePass EXCEPT !.snap = st, !.passed = b]
    <3>1. b \in BOOLEAN OBVIOUS
    <3>2. \E todo : Goes(r, Enter(p, todo, "admit", "claim")) BY <2>4 DEF StepsRead
    <3> HIDE DEF b
    <3>3. p \in PassType BY <3>1, IdleTyped DEF PassType, TypeInv, RowsTyped
    <3> HIDE DEF p
    <3>4. pass'[leader'].pc # "suspending" BY <1>0, <1>1, <3>2, <3>3, EnterFields
    <3>5. QED BY <1>8, <2>2, <3>4
  <2>5. QED BY <1>10, <2>3, <2>4
<1>11. CASE AdmitPromote(r) \/ AdmitClaim(r) \/ SuspendDecide(r)
  <2>1. run' = run /\ pass[r].pc \in {"admit", "claim", "suspend"}
    BY <1>11 DEF AdmitPromote, AdmitClaim, SuspendDecide, At
  <2>2. run' # "Suspended" BY <1>0, <2>1 DEF IdleInv, GoodPass, r
  <2>3. CASE AdmitPromote(r)
    <3>1. pass'[leader'].pc # "suspending"
      BY <1>0, <1>1, <2>3, EnterFields DEF AdmitPromote, NextItem
    <3>2. QED BY <1>8, <2>2, <3>1
  <2>4. CASE AdmitClaim(r)
    <3>1. pass'[leader'] = IdlePass \/ pass'[leader'] = [IdlePass EXCEPT !.pc = "suspend"]
      BY <1>0, <1>1, <2>4, GoesTo DEF AdmitClaim, Leave
    <3>2. pass'[leader'].pc # "suspending" BY <3>1, IdleTyped DEF PassType
    <3>3. QED BY <1>8, <2>2, <3>2
  <2>5. CASE SuspendDecide(r)
    <3>1. st' = st /\ (OnlyWaits(st) \/ Goes(r, IdlePass)) BY <2>5 DEF SuspendDecide, Leave
    <3>2. CASE OnlyWaits(st)
      <4>1. NoneClaimed' BY <3>1, <3>2, OnlyWaitsIdle DEF NoneClaimed
      <4>2. QED BY <2>2, <4>1 DEF IdleInv
    <3>3. CASE Goes(r, IdlePass)
      <4>1. pass'[leader'].pc = "idle" BY <1>0, <1>1, <3>3, GoesTo, IdleTyped
      <4>2. QED BY <1>8, <2>2, <4>1
    <3>4. QED BY <3>1, <3>2, <3>3
  <2>6. QED BY <1>11, <2>3, <2>4, <2>5
<1>12. CASE SuspendCommit(r)
  <2>1. st' = st /\ Goes(r, IdlePass) /\ pass[r].pc = "suspending"
    BY <1>12 DEF SuspendCommit, Leave, At
  <2>2. NoneClaimed' BY <2>1 DEF IdleInv, NoneClaimed, r
  <2>3. pass'[leader'].pc = "idle" BY <1>0, <1>1, <2>1, GoesTo, IdleTyped
  <2>4. QED BY <2>2, <2>3 DEF IdleInv
<1>13. CASE KillStep(r) \/ KillClose(r)
  <2>1. run' = run /\ pass' = pass /\ (st' = st \/ StepMoves(KillItem(r), "Cancelled"))
    BY <1>13 DEF KillStep, KillClose
  <2>2. NoneStarts BY <2>1, MoveStarts DEF NoneStarts, TypeInv, RowsTyped
  <2>3. QED BY <1>1, <2>1, <2>2, StartsIdle DEF IdleInv, r
<1>14. PassBegin(r) \/ PassStep(r) BY DEF r
<1>15. QED
  BY <1>3, <1>4, <1>5, <1>6, <1>7, <1>9, <1>10, <1>11, <1>12, <1>13, <1>14 DEF PassStep

LEMMA IdleStep == ASSUME TypeInv, IdleInv, Next PROVE IdleInv'
<1>0. leader \in Replicas BY DEF TypeInv, RowsTyped
<1>1. CASE \E r \in Replicas : PassBegin(r) \/ PassStep(r)
  <2>1. PICK r \in Replicas : PassBegin(r) \/ PassStep(r) BY <1>1
  <2>2. CASE r = leader BY <2>1, <2>2, LeaderPassIdle
  <2>3. CASE r # leader BY <2>1, <2>3, OtherPassIdle
  <2>4. QED BY <2>2, <2>3
<1>2. CASE \E r \in Replicas : NewLeader(r)
  <2>1. PICK r \in Replicas : NewLeader(r) BY <1>2
  <2>2. leader' = r /\ run' = run /\ st' = st /\ Goes(r, IdlePass) BY <2>1 DEF NewLeader, Goes
  <2>3. pass'[leader'].pc = "idle" BY <2>2, GoesTo, IdleTyped
  <2>4. QED BY <2>2, <2>3 DEF IdleInv, NoneClaimed
<1>3. CASE Tick
  <2>1. UNCHANGED <<run, st, leader>>
        /\ pass' = [r \in Replicas |-> [pass[r] EXCEPT !.att = OlderWaits(@)]]
    BY <1>3 DEF Tick
  <2>2. pass[leader] \in PassType BY <1>0 DEF TypeInv, TasksTyped, PassTyped
  <2> DEFINE a == OlderWaits(pass[leader].att)
  <2>3. pass'[leader'] = [pass[leader] EXCEPT !.att = a] BY <1>0, <2>1
  <2> HIDE DEF a
  <2>4. pass'[leader'].pc = pass[leader].pc /\ pass'[leader'].from = pass[leader].from
    BY <2>2, <2>3 DEF PassType
  <2>5. QED BY <2>1, <2>4 DEF IdleInv, NoneClaimed
<1>4. CASE ~(\E r \in Replicas : PassBegin(r) \/ PassStep(r) \/ NewLeader(r)) /\ ~Tick
  <2>1. NoneStarts /\ UNCHANGED <<pass, leader>> BY <1>4, OtherStarts
  <2>2. run' = "Suspended" => run = "Suspended"
    <3>1. ~\E r \in Replicas : SuspendCommit(r) BY <1>4 DEF PassStep
    <3>2. QED BY <1>4, <3>1, RunGoes DEF MoveRun
  <2>3. QED BY <2>1, <2>2, StartsIdle DEF IdleInv
<1>5. QED BY <1>1, <1>2, <1>3, <1>4

-----------------------------------------------------------------------------
(* The invariant holds.                                                    *)

LEMMA InitGood == Init => GateInv
<1> SUFFICES ASSUME Init PROVE GateInv OBVIOUS
<1>1. wait = [g \in Gates |-> NoWait] /\ seen = [g \in Gates |-> FirstEpisode] BY DEF Init
<1>2. FirstEpisode \in Episode /\ FirstEpisode.ep = 1 BY AgesAreNumbers DEF FirstEpisode, Episode
<1>3. RowsTyped
  <2>1. wait \in Waits BY <1>1, NoWaitTyped DEF Waits
  <2>2. seen \in [Gates -> Episode] BY <1>1, <1>2
  <2>3. fin \in [Steps -> 0..None] BY AgesAreNumbers DEF Init
  <2>4. count \in CountType BY DEF Init, CountType
  <2>5. QED BY <2>1, <2>2, <2>3, <2>4, IdleTyped DEF Init, RowsTyped, RunStatus
<1>4. TasksTyped
  BY IdleTyped DEF Init, TasksTyped, PassTyped, CallTyped, RerunTyped, KillTyped
<1>5. BillInv BY GateWaitsAssumption DEF Init, BillInv
<1>6. \A g \in Gates : wait[g].open = FALSE /\ wait[g].ep = 0 /\ seen[g].ep = 1
  BY <1>1, <1>2, NoWaitTyped
<1>7. OpenInv /\ ClockInv BY <1>6 DEF OpenInv, ClockInv
<1>8. IdleInv BY IdleTyped DEF Init, IdleInv
<1>9. QED BY <1>3, <1>4, <1>5, <1>7, <1>8 DEF GateInv, TypeInv

LEMMA StepGood == GateInv /\ [Next]_vars => GateInv'
<1> SUFFICES ASSUME GateInv, [Next]_vars PROVE GateInv' OBVIOUS
<1>1. CASE Next
  <2>1. TypeInv' BY <1>1, StepTyped DEF GateInv
  <2>2. BillInv' BY <1>1, BillStep DEF GateInv
  <2>3. OpenInv' BY <1>1, OpenStep DEF GateInv
  <2>4. IdleInv' BY <1>1, IdleStep DEF GateInv
  <2>5. ClockInv' BY <1>1, ClockStep DEF GateInv
  <2>6. QED BY <2>1, <2>2, <2>3, <2>4, <2>5 DEF GateInv
<1>2. CASE UNCHANGED vars
  <2>1. UNCHANGED <<kind, run, st, wait, seen, fin, bill, leader, pass, call, rerun, kill, count>>
    BY <1>2 DEF vars
  <2>2. TypeInv'
    BY <2>1 DEF GateInv, TypeInv, RowsTyped, TasksTyped, PassTyped, CallTyped, RerunTyped, KillTyped
  <2>3. BillInv' /\ OpenInv' BY <2>1 DEF GateInv, BillInv, OpenInv
  <2>4. IdleInv' BY <2>1 DEF GateInv, IdleInv, NoneClaimed
  <2>5. ClockInv' BY <2>1 DEF GateInv, ClockInv, OwnWait
  <2>6. QED BY <2>2, <2>3, <2>4, <2>5 DEF GateInv
<1>3. QED BY <1>1, <1>2

\* A started Run with gates is always in a state of `GateInv`, whatever passes,
\* calls, reruns, cancels and leader changes do (`admit_as_leader`,
\* `rearm_invalidation_set`, `cancel_run_request`).
THEOREM GatesCorrect == Spec => []GateInv
<1>1. Init => GateInv BY InitGood
<1>2. GateInv /\ [Next]_vars => GateInv' BY StepGood
<1>3. QED BY <1>1, <1>2, PTL DEF Spec

\* The state has its type, and a gate with a verdict has no open wait
\* (`resolve_gate_wait`).
THEOREM TypeCorrect == Spec => []TypeOK
<1>1. GateInv => TypeOK
  <2> SUFFICES ASSUME GateInv PROVE TypeOK OBVIOUS
  <2>1. \A r \in Replicas : pass[r] \in PassType BY DEF GateInv, TypeInv, TasksTyped, PassTyped
  <2>2. \A c \in Callers : call[c] \in CallType BY DEF GateInv, TypeInv, TasksTyped, CallTyped
  <2>3. \A k \in Killers : kill[k] \in KillType BY DEF GateInv, TypeInv, TasksTyped, KillTyped
  <2>4. rerun \in RerunType BY DEF GateInv, TypeInv, TasksTyped, RerunTyped
  <2>5. RowsTyped /\ BillInv /\ OpenInv BY DEF GateInv, TypeInv
  <2>6. \A r \in Replicas :
          /\ pass[r].pc \in {"idle", "visit", "resolve", "spare", "skip", "resume", "exhaust",
                             "admit", "claim", "suspend", "suspending"}
          /\ pass[r].todo \subseteq Steps /\ pass[r].snap \in Snapshot /\ pass[r].att \in Waits
    BY <2>1 DEF PassType
  <2>7. \A c \in Callers :
          /\ call[c].pc \in {"idle", "record", "decide", "met", "check", "answer", "resolve", "reopen"}
          /\ call[c].n \in Nat /\ call[c].due \in Age
    BY <2>2 DEF CallType
  <2>8. rerun.pc \in {"idle", "reopen", "rearm"} /\ rerun.set \subseteq Steps BY <2>4 DEF RerunType
  <2>9. \A k \in Killers : kill[k].pc \in {"idle", "steps", "close", "run"} BY <2>3 DEF KillType
  <2>10. QED
    BY <2>5, <2>6, <2>7, <2>8, <2>9 DEF TypeOK, RowsTyped, BillInv, OpenInv, RunStatus, CountType
<1>2. QED BY <1>1, GatesCorrect, PTL

\* A Suspended Run has nothing claimed (`only_waits_outstanding`,
\* `claim_ready_steps`).
THEOREM SuspendedStaysIdle == Spec => []SuspendedIsIdle
<1>1. GateInv => SuspendedIsIdle BY DEF GateInv, IdleInv, NoneClaimed, SuspendedIsIdle
<1>2. QED BY <1>1, GatesCorrect, PTL

\* No open wait's clock is ahead of the wait (`wait_began_at`).
THEOREM ClocksAreTrue == Spec => []ClockOfItsOwnWait
<1>1. GateInv => ClockOfItsOwnWait BY DEF GateInv, ClockInv, OwnWait, ClockOfItsOwnWait
<1>2. QED BY <1>1, GatesCorrect, PTL

\* The log bills no time that was not spent in Running (`enforce_run_budget`).
THEOREM BillsAreTrue == Spec => []OnlyActiveTimeBills
<1>1. GateInv => OnlyActiveTimeBills BY DEF GateInv, BillInv, OnlyActiveTimeBills
<1>2. QED BY <1>1, GatesCorrect, PTL

-----------------------------------------------------------------------------
(* The approvals of a wait, in a Run that nobody cancels: a cancel may close *)
(* the wait of a gate that a rerun re-armed meanwhile, and leaves what was   *)
(* approved in it to the next wait.                                          *)

\* Who is asked: a gate that is Pending, or that has a wait open.
Asking(g) == st[g] = "Pending" \/ wait[g].open

EnoughOf(v) == Cardinality(v.by) >= Quorum \/ v.stale

\* What the log has of a gate's episode was approved in its wait, and the rules
\* are noted as met when they are, or by a call of an earlier episode.
AskedInv ==
  \A g \in Gates : Asking(g) =>
    /\ seen[g].by \subseteq wait[g].by
    /\ (kind[g] = "approval" /\ seen[g].due # None) => Met(g) \/ wait[g].stale

\* A call that found the approvals enough found them so in an episode that is
\* over, or that still has them.
CountedCall(c) ==
  /\ c.pc = "answer" => kind[c.g] = "plugin"
  /\ (c.pc \in {"met", "check", "resolve"} /\ kind[c.g] = "approval" /\ (c.pc = "met" \/ c.passed))
       => c.ep <= seen[c.g].ep /\ (c.ep = seen[c.g].ep => Met(c.g))

\* A pass never read a wait that was not there yet, and if it is about to let
\* an approval gate through, and the wait it judged is open, that wait has its
\* approvals.
JudgedPass(p) ==
  /\ \A g \in Gates : p.att[g].n <= wait[g].n
  /\ (p.pc = "resolve" /\ p.passed /\ kind[First(p.todo)] = "approval") =>
       LET v == wait[First(p.todo)]
       IN  (v.open /\ v.n = p.att[First(p.todo)].n) => EnoughOf(v)

NoKill == \A k \in Killers : kill[k].pc = "idle"

AskInv ==
  /\ AskedInv /\ NoKill
  /\ \A c \in Callers : CountedCall(call[c])
  /\ \A r \in Replicas : JudgedPass(pass[r])

\* What a step does to the asking of a gate.  The wait that is open keeps its
\* approvals; the episode ends, or keeps its approvals and whatever is asked
\* was asked before.
WaitGoes(g) ==
  /\ wait'[g].n >= wait[g].n
  /\ (wait'[g].open /\ wait'[g].n = wait[g].n) =>
       wait[g].open /\ wait[g].by \subseteq wait'[g].by /\ (wait[g].stale => wait'[g].stale)
EpisodeEnds(g) == seen'[g].by = {} /\ seen'[g].due = None /\ seen'[g].ep = seen[g].ep + 1
EpisodeGoes(g) ==
  /\ seen'[g].ep = seen[g].ep /\ seen[g].by \subseteq seen'[g].by
  /\ (st'[g] = "Pending" \/ wait'[g].open) =>
       /\ Asking(g) /\ wait[g].by \subseteq wait'[g].by /\ (wait[g].stale => wait'[g].stale)
       /\ seen'[g].by \subseteq seen[g].by \cup wait'[g].by
       /\ (kind[g] = "approval" /\ seen'[g].due # None) =>
            seen[g].due # None \/ Met(g) \/ wait'[g].stale
KeepsAsk(g) == WaitGoes(g) /\ (EpisodeEnds(g) \/ EpisodeGoes(g))

\* More approvals count for more.
LEMMA MoreCount ==
  ASSUME NEW T \in SUBSET Callers, NEW S \in SUBSET T
  PROVE  Cardinality(S) \in Nat /\ Cardinality(T) \in Nat /\ Cardinality(S) <= Cardinality(T)
<1>1. IsFiniteSet(T) BY FS_Subset, GateWaitsAssumption
<1>2. IsFiniteSet(S) /\ Cardinality(S) <= Cardinality(T) BY <1>1, FS_Subset
<1>3. QED BY <1>1, <1>2, FS_CardinalityType

LEMMA MoreIsEnough ==
  ASSUME NEW T \in SUBSET Callers, NEW S \in SUBSET T, Cardinality(S) >= Quorum
  PROVE  Cardinality(T) >= Quorum
  BY MoreCount, GateWaitsAssumption

LEMMA AskTyped ==
  ASSUME RowsTyped, NEW g \in Gates
  PROVE  /\ wait[g] \in Wait /\ wait[g].n \in Nat /\ wait[g].by \subseteq Callers
         /\ wait[g].open \in BOOLEAN /\ wait[g].stale \in BOOLEAN
         /\ seen[g] \in Episode /\ seen[g].ep \in Nat /\ seen[g].by \subseteq Callers
  BY DEF RowsTyped, Waits, Wait, Episode

\* An episode that goes on keeps its approvals.
LEMMA StillMet ==
  ASSUME RowsTyped, RowsTyped', NEW g \in Gates, EpisodeGoes(g), Met(g) PROVE Met(g)'
<1>1. seen'[g].by \subseteq Callers BY DEF RowsTyped, Episode
<1>2. seen[g].by \subseteq seen'[g].by BY DEF EpisodeGoes
<1>3. QED BY <1>1, <1>2, MoreIsEnough DEF Met

LEMMA AskedKept ==
  ASSUME RowsTyped, RowsTyped', kind' = kind, AskedInv, \A g \in Gates : KeepsAsk(g)
  PROVE  AskedInv'
<1> SUFFICES ASSUME NEW g \in Gates, st'[g] = "Pending" \/ wait'[g].open
             PROVE  /\ seen'[g].by \subseteq wait'[g].by
                    /\ (kind[g] = "approval" /\ seen'[g].due # None) => Met(g)' \/ wait'[g].stale
  BY DEF AskedInv, Asking
<1>1. CASE EpisodeEnds(g) BY <1>1 DEF EpisodeEnds
<1>2. CASE EpisodeGoes(g)
  <2>1. /\ seen[g].by \subseteq wait[g].by
        /\ (kind[g] = "approval" /\ seen[g].due # None) => Met(g) \/ wait[g].stale
    BY <1>2 DEF EpisodeGoes, AskedInv
  <2>2. seen'[g].by \subseteq wait'[g].by BY <1>2, <2>1 DEF EpisodeGoes
  <2>3. Met(g) => Met(g)' BY <1>2, StillMet
  <2>4. QED BY <1>2, <2>1, <2>2, <2>3 DEF EpisodeGoes
<1>3. QED BY <1>1, <1>2 DEF KeepsAsk

LEMMA CountedKept ==
  ASSUME RowsTyped, RowsTyped', kind' = kind, \A g \in Gates : KeepsAsk(g),
         NEW c \in CallType, GoodCall(c), CountedCall(c)
  PROVE  CountedCall(c)'
<1> DEFINE g == c.g
<1>1. CASE c.pc \notin {"met", "check", "resolve"} BY <1>1 DEF CountedCall
<1>2. CASE c.pc \in {"met", "check", "resolve"}
  <2>1. g \in Gates /\ c.ep \in Nat BY <1>2 DEF GoodCall, CallType
  <2>2. seen[g].ep \in Nat BY <2>1, AskTyped
  <2> HIDE DEF g
  <2>3. CASE EpisodeEnds(g) BY <1>2, <2>1, <2>2, <2>3 DEF CountedCall, EpisodeEnds, g
  <2>4. CASE EpisodeGoes(g)
    <3>1. Met(g) => Met(g)' BY <2>1, <2>4, StillMet
    <3>2. QED BY <1>2, <2>4, <3>1 DEF CountedCall, EpisodeGoes, g
  <2>5. QED BY <2>1, <2>3, <2>4 DEF KeepsAsk
<1>3. QED BY <1>1, <1>2

LEMMA JudgedKept ==
  ASSUME RowsTyped, RowsTyped', kind' = kind, \A g \in Gates : KeepsAsk(g),
         NEW p \in PassType, GoodPass(p), JudgedPass(p)
  PROVE  JudgedPass(p)'
<1>1. \A g \in Gates : p.att[g].n \in Nat /\ p.att[g].n <= wait[g].n
  BY DEF JudgedPass, PassType, Waits, Wait
<1>2. \A g \in Gates : wait[g].n \in Nat /\ wait'[g].n \in Nat /\ wait[g].n <= wait'[g].n
  BY DEF KeepsAsk, WaitGoes, RowsTyped, Waits, Wait
<1>3. \A g \in Gates : p.att[g].n <= wait'[g].n BY <1>1, <1>2
<1>4. ASSUME p.pc = "resolve", p.passed, kind[First(p.todo)] = "approval",
             wait'[First(p.todo)].open, wait'[First(p.todo)].n = p.att[First(p.todo)].n
      PROVE  EnoughOf(wait'[First(p.todo)])
  <2> DEFINE g == First(p.todo)
  <2>1. g \in Gates
    <3>1. p.todo \in SUBSET Steps /\ p.todo # {} /\ p.todo \subseteq Gates BY <1>4 DEF GoodPass, PassType
    <3>2. QED BY <3>1, FirstIsIn
  <2>2. wait'[g].n = wait[g].n /\ wait[g].n = p.att[g].n BY <1>1, <1>2, <1>4, <2>1
  <2>3. wait[g].open /\ wait[g].by \subseteq wait'[g].by /\ (wait[g].stale => wait'[g].stale)
    BY <1>4, <2>1, <2>2 DEF KeepsAsk, WaitGoes
  <2>4. EnoughOf(wait[g]) BY <1>4, <2>2, <2>3 DEF JudgedPass
  <2>5. wait'[g].by \subseteq Callers BY <2>1 DEF RowsTyped, Waits, Wait
  <2> HIDE DEF g
  <2>6. EnoughOf(wait'[g]) BY <2>3, <2>4, <2>5, MoreIsEnough DEF EnoughOf
  <2>7. QED BY <2>6 DEF g
<1>5. QED BY <1>3, <1>4 DEF JudgedPass

-----------------------------------------------------------------------------
(* What each step does to the asking.                                      *)

\* Nothing, if it leaves the wait and the log alone and re-arms nothing.
LEMMA AskStays ==
  ASSUME RowsTyped, NEW g \in Gates, wait'[g] = wait[g], seen'[g] = seen[g],
         st'[g] = "Pending" => st[g] = "Pending"
  PROVE  KeepsAsk(g)
<1>1. wait[g].n \in Nat BY AskTyped
<1>2. QED BY <1>1 DEF KeepsAsk, WaitGoes, EpisodeGoes, Asking

\* A re-arm ends the episode.
LEMMA RearmEnds ==
  ASSUME RowsTyped, NEW g \in Gates, seen'[g] = Rearmed(g)
  PROVE  EpisodeEnds(g)
<1> DEFINE e == seen[g].ep + 1
<1>1. FirstEpisode \in Episode BY AgesAreNumbers DEF FirstEpisode, Episode
<1>2. FirstEpisode.by = {} /\ FirstEpisode.due = None BY DEF FirstEpisode
<1>3. Rearmed(g) = [FirstEpisode EXCEPT !.rearm = 0, !.ep = e] BY DEF Rearmed
<1> HIDE DEF e
<1>4. Rearmed(g).by = {} /\ Rearmed(g).due = None /\ Rearmed(g).ep = e
  BY <1>1, <1>2, <1>3 DEF Episode
<1>5. QED BY <1>4 DEF EpisodeEnds, e

\* A wait that is closed keeps its number.
LEMMA CloseGoes ==
  ASSUME RowsTyped, NEW g \in Gates
  PROVE  Close(g)[g].open = FALSE /\ Close(g)[g].n = wait[g].n
<1> DEFINE n == wait[g].n
           w == [NoWait EXCEPT !.n = n]
<1>1. n \in Nat BY AskTyped
<1>2. Close(g)[g] = w BY DEF Close, RowsTyped, Waits
<1> HIDE DEF n
<1>3. w.open = FALSE /\ w.n = n BY <1>1 DEF NoWait
<1>4. QED BY <1>2, <1>3 DEF n

\* The wait is closed and the episode ends.
LEMMA ClosedAsk ==
  ASSUME RowsTyped, NEW g \in Gates, wait' = Close(g), seen' = [seen EXCEPT ![g] = Rearmed(g)],
         UNCHANGED st
  PROVE  \A h \in Gates : KeepsAsk(h)
<1>1. wait'[g].open = FALSE /\ wait'[g].n = wait[g].n BY CloseGoes
<1>2. seen'[g] = Rearmed(g) /\ \A h \in Gates : h # g => seen'[h] = seen[h] BY DEF RowsTyped
<1>3. \A h \in Gates : h # g => wait'[h] = wait[h] BY ClosedTyped DEF RowsTyped
<1>4. wait[g].n \in Nat BY AskTyped
<1>5. KeepsAsk(g) BY <1>1, <1>2, <1>4, RearmEnds DEF KeepsAsk, WaitGoes
<1>6. \A h \in Gates : h # g => KeepsAsk(h) BY <1>2, <1>3, AskStays
<1>7. QED BY <1>5, <1>6

LEMMA SupersedeAsk ==
  ASSUME TypeInv, NEW r \in Replicas, VisitSupersede(r) PROVE \A g \in Gates : KeepsAsk(g)
<1>1. RowsTyped /\ PassTyped BY DEF TypeInv, TasksTyped
<1>2. Item(r) \in Gates BY <1>1, ItemTyped DEF VisitSupersede, At
<1>3. CASE UNCHANGED <<wait, seen>> BY <1>1, <1>3, AskStays DEF VisitSupersede
<1>4. CASE wait' = Close(Item(r)) /\ seen' = [seen EXCEPT ![Item(r)] = Rearmed(Item(r))]
  BY <1>1, <1>2, <1>4, ClosedAsk DEF VisitSupersede
<1>5. QED BY <1>3, <1>4 DEF VisitSupersede

LEMMA MintAsk ==
  ASSUME TypeInv, NEW r \in Replicas, VisitMint(r) PROVE \A g \in Gates : KeepsAsk(g)
<1> DEFINE g == Item(r)
           w == [n |-> wait[g].n + 1, open |-> TRUE, age |-> WaitBegan(g), inputs |-> FALSE,
                 ep |-> EpisodeOf(g), by |-> wait[g].by, stale |-> wait[g].stale]
<1>1. RowsTyped /\ PassTyped BY DEF TypeInv, TasksTyped
<1>2. g \in Gates BY <1>1, ItemTyped DEF VisitMint, At
<1>3. UNCHANGED <<st, seen>> BY DEF VisitMint
<1>4. CASE wait' = wait BY <1>1, <1>3, <1>4, AskStays
<1>5. CASE wait' # wait
  <2>1. st[g] = "Pending" /\ wait' = [wait EXCEPT ![g] = w] BY <1>5 DEF VisitMint
  <2>2. wait[g].n \in Nat BY <1>1, <1>2, AskTyped
  <2> HIDE DEF g
  <2>3. w.n = wait[g].n + 1 /\ w.by = wait[g].by /\ w.stale = wait[g].stale OBVIOUS
  <2> HIDE DEF w
  <2>4. wait'[g] = w /\ \A h \in Gates : h # g => wait'[h] = wait[h]
    BY <1>1, <1>2, <2>1 DEF RowsTyped, Waits
  <2>5. KeepsAsk(g)
    <3>1. WaitGoes(g) BY <2>2, <2>3, <2>4 DEF WaitGoes
    <3>2. EpisodeGoes(g) BY <1>3, <2>1, <2>3, <2>4 DEF EpisodeGoes, Asking
    <3>3. QED BY <3>1, <3>2 DEF KeepsAsk
  <2>6. \A h \in Gates : h # g => KeepsAsk(h) BY <1>1, <1>3, <2>4, AskStays
  <2>7. QED BY <2>5, <2>6
<1>6. QED BY <1>4, <1>5

\* A change to a wait that does not touch what is told apart here.
LEMMA OtherField ==
  ASSUME RowsTyped, NEW g \in Gates,
         wait'[g].n = wait[g].n, wait'[g].open = wait[g].open,
         wait'[g].by = wait[g].by, wait'[g].stale = wait[g].stale,
         seen'[g].ep = seen[g].ep, seen'[g].by = seen[g].by,
         seen'[g].due # None => seen[g].due # None,
         st'[g] = "Pending" => st[g] = "Pending"
  PROVE  KeepsAsk(g)
<1>1. wait[g].n \in Nat BY AskTyped
<1>2. QED BY <1>1 DEF KeepsAsk, WaitGoes, EpisodeGoes, Asking

LEMMA InputsAsk ==
  ASSUME TypeInv, NEW r \in Replicas, StoreInputs(r) PROVE \A g \in Gates : KeepsAsk(g)
<1> DEFINE g == Item(r)
           v == wait[g]
           w == [v EXCEPT !.inputs = TRUE]
<1>1. RowsTyped /\ PassTyped BY DEF TypeInv, TasksTyped
<1>2. g \in Gates BY <1>1, ItemTyped DEF StoreInputs, Judging, At
<1>3. UNCHANGED <<st, seen>> BY DEF StoreInputs
<1>4. CASE wait' = wait BY <1>1, <1>3, <1>4, AskStays
<1>5. CASE wait' # wait
  <2>1. wait' = [wait EXCEPT ![g] = w] BY <1>5 DEF StoreInputs
  <2>2. v \in Wait BY <1>1, <1>2, AskTyped
  <2> HIDE DEF v
  <2>3. w.n = v.n /\ w.open = v.open /\ w.by = v.by /\ w.stale = v.stale BY <2>2 DEF Wait
  <2> HIDE DEF w, g
  <2>4. wait'[g] = w /\ \A h \in Gates : h # g => wait'[h] = wait[h]
    BY <1>1, <1>2, <2>1 DEF RowsTyped, Waits
  <2>5. KeepsAsk(g) BY <1>1, <1>2, <1>3, <2>3, <2>4, OtherField DEF v
  <2>6. \A h \in Gates : h # g => KeepsAsk(h) BY <1>1, <1>3, <2>4, AskStays
  <2>7. QED BY <2>5, <2>6
<1>6. QED BY <1>4, <1>5

\* A verdict: nobody is asked any more.
LEMMA ResolveAsk ==
  ASSUME RowsTyped, NEW g \in Gates, NEW passed \in BOOLEAN, Resolve(g, passed), UNCHANGED seen
  PROVE  \A h \in Gates : KeepsAsk(h)
<1> DEFINE n == IF wait[g].open THEN wait[g].n ELSE wait[g].n + 1
           w == [NoWait EXCEPT !.n = n]
<1>1. wait[g].n \in Nat BY AskTyped
<1>2. n \in Nat /\ n >= wait[g].n BY <1>1
<1>3. wait' = [wait EXCEPT ![g] = w] BY DEF Resolve
<1> HIDE DEF n
<1>4. w.open = FALSE /\ w.n = n BY <1>2 DEF NoWait
<1> HIDE DEF w
<1>5. wait'[g] = w /\ \A h \in Gates : h # g => wait'[h] = wait[h] BY <1>3 DEF RowsTyped, Waits
<1>6. st'[g] # "Pending" /\ \A x \in Steps : x # g => st'[x] = st[x]
  BY DEF Resolve, StepMoves, RowsTyped, Snapshot, Steps
<1>7. KeepsAsk(g) BY <1>1, <1>2, <1>4, <1>5, <1>6 DEF KeepsAsk, WaitGoes, EpisodeGoes
<1>8. \A h \in Gates : h # g => KeepsAsk(h) BY <1>5, <1>6, AskStays DEF Steps
<1>9. QED BY <1>7, <1>8

\* A Step that moves to a status other than Pending, or back to it with its
\* episode ended.
LEMMA MovedAsk ==
  ASSUME RowsTyped, NEW s \in Steps, NEW to, StepMoves(s, to), to # "Pending", UNCHANGED <<wait, seen>>
  PROVE  \A g \in Gates : KeepsAsk(g)
<1>1. st'[s] = to /\ \A x \in Steps : x # s => st'[x] = st[x]
  BY DEF StepMoves, RowsTyped, Snapshot
<1>2. QED BY <1>1, AskStays DEF Steps

LEMMA RearmedAsk ==
  ASSUME RowsTyped, NEW s \in Steps, StepMoves(s, "Pending"), UNCHANGED wait,
         seen' = IF s \in Gates THEN [seen EXCEPT ![s] = Rearmed(s)] ELSE seen
  PROVE  \A g \in Gates : KeepsAsk(g)
<1>1. \A x \in Steps : x # s => st'[x] = st[x] BY DEF StepMoves, RowsTyped, Snapshot
<1>2. \A g \in Gates : g # s => KeepsAsk(g)
  <2> TAKE g \in Gates
  <2>1. g # s => seen'[g] = seen[g] BY DEF RowsTyped
  <2>2. QED BY <1>1, <2>1, AskStays DEF Steps
<1>3. ASSUME s \in Gates PROVE KeepsAsk(s)
  <2>1. seen'[s] = Rearmed(s) BY <1>3 DEF RowsTyped
  <2>2. wait[s].n \in Nat BY <1>3, AskTyped
  <2>3. QED BY <1>3, <2>1, <2>2, RearmEnds DEF KeepsAsk, WaitGoes
<1>4. QED BY <1>2, <1>3

LEMMA SpareAsk ==
  ASSUME TypeInv, NEW r \in Replicas, SpareSkip(r) \/ SpareRevive(r)
  PROVE  \A g \in Gates : KeepsAsk(g)
<1> DEFINE g == Item(r)
<1>1. RowsTyped /\ PassTyped BY DEF TypeInv, TasksTyped
<1>2. g \in Gates /\ g \in Steps BY <1>1, ItemTyped DEF SpareSkip, SpareRevive, At
<1>3. CASE UNCHANGED <<st, wait, seen>> BY <1>1, <1>3, AskStays
<1>4. CASE SpareSkip(r) /\ ~UNCHANGED <<st, wait, seen>>
  <2>1. StepMoves(g, "Skipped") /\ wait' = Close(g) /\ seen' = [seen EXCEPT ![g].unneeded = TRUE]
    BY <1>4 DEF SpareSkip
  <2> DEFINE x == seen[g]
             e == [x EXCEPT !.unneeded = TRUE]
  <2>2. x \in Episode BY <1>1, <1>2, AskTyped
  <2>3. seen' = [seen EXCEPT ![g] = e] BY <2>1
  <2> HIDE DEF x
  <2>4. e.ep = x.ep /\ e.by = x.by BY <2>2 DEF Episode
  <2> HIDE DEF e, g
  <2>5. seen'[g] = e /\ \A h \in Gates : h # g => seen'[h] = seen[h]
    BY <1>1, <1>2, <2>3 DEF RowsTyped
  <2>6. wait'[g].open = FALSE /\ wait'[g].n = wait[g].n /\ wait[g].n \in Nat
        /\ \A h \in Gates : h # g => wait'[h] = wait[h]
    BY <1>1, <1>2, <2>1, CloseGoes, ClosedTyped, AskTyped DEF RowsTyped
  <2>7. st'[g] = "Skipped" /\ \A y \in Steps : y # g => st'[y] = st[y]
    BY <1>1, <1>2, <2>1 DEF StepMoves, RowsTyped, Snapshot
  <2>8. KeepsAsk(g) BY <2>4, <2>5, <2>6, <2>7 DEF KeepsAsk, WaitGoes, EpisodeGoes, x
  <2>9. \A h \in Gates : h # g => KeepsAsk(h) BY <1>1, <2>5, <2>6, <2>7, AskStays DEF Steps
  <2>10. QED BY <2>8, <2>9
<1>5. CASE SpareRevive(r) /\ ~UNCHANGED <<st, wait, seen>>
  <2>1. StepMoves(g, "Pending") /\ wait' = wait /\ seen' = [seen EXCEPT ![g] = Rearmed(g)]
    BY <1>5 DEF SpareRevive
  <2>2. QED BY <1>1, <1>2, <2>1, RearmedAsk
<1>6. QED BY <1>3, <1>4, <1>5

\* The steps of a pass.
LEMMA VerdictAsk ==
  ASSUME TypeInv, NEW r \in Replicas, PassResolve(r) PROVE \A g \in Gates : KeepsAsk(g)
<1>1. RowsTyped /\ PassTyped BY DEF TypeInv, TasksTyped
<1>2. Item(r) \in Gates /\ pass[r].passed \in BOOLEAN
  BY <1>1, ItemTyped DEF PassResolve, At, PassType
<1>3. UNCHANGED seen BY DEF PassResolve
<1>4. CASE UNCHANGED <<st, wait>> BY <1>1, <1>3, <1>4, AskStays
<1>5. CASE Resolve(Item(r), pass[r].passed) BY <1>1, <1>2, <1>3, <1>5, ResolveAsk
<1>6. QED BY <1>4, <1>5 DEF PassResolve

LEMMA AdmitAsk ==
  ASSUME TypeInv, NEW r \in Replicas, AdmitPromote(r) \/ AdmitSkip(r) \/ AdmitClaim(r)
  PROVE  \A g \in Gates : KeepsAsk(g)
<1>1. RowsTyped /\ PassTyped BY DEF TypeInv, TasksTyped
<1>2. UNCHANGED <<wait, seen>> BY DEF AdmitPromote, AdmitSkip, AdmitClaim
<1>3. CASE AdmitClaim(r)
  <2>1. st' = [s \in Steps |-> IF st[s] = "Ready" THEN "Running" ELSE st[s]] BY <1>3 DEF AdmitClaim
  <2>2. \A g \in Gates : st'[g] = "Pending" => st[g] = "Pending" BY <2>1 DEF Steps
  <2>3. QED BY <1>1, <1>2, <2>2, AskStays
<1>4. CASE AdmitPromote(r) \/ AdmitSkip(r)
  <2>1. Item(r) \in Steps BY <1>1, <1>4, ItemTyped DEF AdmitPromote, AdmitSkip, At
  <2>2. CASE st' = st BY <1>1, <1>2, <2>2, AskStays
  <2>3. CASE \E to : to # "Pending" /\ StepMoves(Item(r), to) BY <1>1, <1>2, <2>1, <2>3, MovedAsk
  <2>4. st' = st \/ StepMoves(Item(r), "Ready") \/ StepMoves(Item(r), "Skipped")
    BY <1>4 DEF AdmitPromote, AdmitSkip
  <2>5. QED BY <2>2, <2>3, <2>4
<1>5. QED BY <1>3, <1>4

\* The steps of a call.
LEMMA RecordAsk ==
  ASSUME TypeInv, NEW c \in Callers, ApproveRecord(c) PROVE \A g \in Gates : KeepsAsk(g)
<1> DEFINE g == call[c].g
<1>1. RowsTyped /\ g \in Gates BY DEF ApproveRecord, CallAt, TypeInv, TasksTyped, CallTyped, GoodCall
<1>2. UNCHANGED st BY DEF ApproveRecord
<1>3. CASE UNCHANGED <<wait, seen>> BY <1>1, <1>2, <1>3, AskStays
<1>4. CASE ~UNCHANGED <<wait, seen>>
  <2> DEFINE x == seen[g]
             X == x.by \cup {c}
             e == [x EXCEPT !.by = X]
             v == wait[g]
             V == v.by \cup {c}
             w == [v EXCEPT !.by = V]
  <2>1. st[g] = "Pending" /\ seen' = [seen EXCEPT ![g] = e] /\ wait' = [wait EXCEPT ![g] = w]
    BY <1>4 DEF ApproveRecord, Waiting
  <2>2. x \in Episode /\ v \in Wait /\ v.n \in Nat BY <1>1, AskTyped
  <2> HIDE DEF x, X, v, V
  <2>3. e.by = X /\ e.ep = x.ep /\ e.due = x.due BY <2>2 DEF Episode
  <2>4. w.by = V /\ w.n = v.n /\ w.open = v.open /\ w.stale = v.stale BY <2>2 DEF Wait
  <2> HIDE DEF e, w, g
  <2>5. seen'[g] = e /\ \A h \in Gates : h # g => seen'[h] = seen[h] BY <1>1, <2>1 DEF RowsTyped
  <2>6. wait'[g] = w /\ \A h \in Gates : h # g => wait'[h] = wait[h]
    BY <1>1, <2>1 DEF RowsTyped, Waits
  <2>7. v.by \subseteq V /\ x.by \subseteq X /\ X \subseteq x.by \cup V BY DEF V, X
  <2>8. WaitGoes(g) BY <2>2, <2>4, <2>6, <2>7 DEF WaitGoes, v
  <2>9. EpisodeGoes(g) BY <2>1, <2>3, <2>4, <2>5, <2>6, <2>7 DEF EpisodeGoes, Asking, v, x
  <2>10. \A h \in Gates : h # g => KeepsAsk(h) BY <1>1, <1>2, <2>5, <2>6, AskStays
  <2>11. QED BY <2>8, <2>9, <2>10 DEF KeepsAsk
<1>5. QED BY <1>3, <1>4

LEMMA MetAsk ==
  ASSUME TypeInv, NEW c \in Callers, CountedCall(call[c]), ApproveMet(c)
  PROVE  \A g \in Gates : KeepsAsk(g)
<1> DEFINE g == call[c].g
           x == seen[g]
           d == call[c].due
           e == [x EXCEPT !.due = d]
           v == wait[g]
           w == [v EXCEPT !.stale = TRUE]
<1>1. RowsTyped /\ g \in Gates BY DEF ApproveMet, CallAt, TypeInv, TasksTyped, CallTyped, GoodCall
<1>2. UNCHANGED st /\ seen' = [seen EXCEPT ![g] = e] BY DEF ApproveMet
<1>3. \/ wait' = wait /\ (Asking(g) => call[c].ep = x.ep)
      \/ wait' = [wait EXCEPT ![g] = w]
  BY DEF ApproveMet, Asking
<1>4. (kind[g] = "approval" /\ call[c].ep = x.ep) => Met(g) BY DEF CountedCall, ApproveMet, CallAt
<1>5. x \in Episode /\ v \in Wait /\ v.n \in Nat BY <1>1, AskTyped
<1> HIDE DEF x, v, d
<1>6. e.by = x.by /\ e.ep = x.ep BY <1>5 DEF Episode
<1>7. w.by = v.by /\ w.n = v.n /\ w.open = v.open /\ w.stale = TRUE BY <1>5 DEF Wait
<1> HIDE DEF e, w
<1>8. seen'[g] = e /\ \A h \in Gates : h # g => seen'[h] = seen[h] BY <1>1, <1>2 DEF RowsTyped
<1>9. \/ wait'[g] = v /\ (Asking(g) => call[c].ep = x.ep)
      \/ wait'[g] = w
  BY <1>1, <1>3 DEF RowsTyped, Waits, v
<1>10. \A h \in Gates : h # g => wait'[h] = wait[h] BY <1>1, <1>3 DEF RowsTyped, Waits
<1> HIDE DEF g
<1>11. WaitGoes(g) BY <1>5, <1>7, <1>9 DEF WaitGoes, v
<1>12. EpisodeGoes(g)
  <2>1. wait'[g].open = wait[g].open /\ wait'[g].by = wait[g].by /\ (wait[g].stale => wait'[g].stale)
    BY <1>7, <1>9 DEF v
  <2>2. (Asking(g) /\ kind[g] = "approval") => Met(g) \/ wait'[g].stale BY <1>4, <1>7, <1>9
  <2>3. seen'[g].ep = seen[g].ep /\ seen'[g].by = seen[g].by BY <1>6, <1>8 DEF x
  <2>4. (st'[g] = "Pending" \/ wait'[g].open) => Asking(g) BY <1>2, <2>1 DEF Asking
  <2>5. QED BY <2>1, <2>2, <2>3, <2>4 DEF EpisodeGoes
<1>13. \A h \in Gates : h # g => KeepsAsk(h) BY <1>1, <1>2, <1>8, <1>10, AskStays
<1>14. QED BY <1>11, <1>12, <1>13 DEF KeepsAsk

LEMMA CallAsk ==
  ASSUME TypeInv, NEW c \in Callers, CountedCall(call[c]), CallStep(c) \/ CallStops(c)
  PROVE  \A g \in Gates : KeepsAsk(g)
<1>1. RowsTyped BY DEF TypeInv
<1>2. CASE ApproveRecord(c) BY <1>2, RecordAsk
<1>3. CASE ApproveMet(c) BY <1>3, MetAsk
<1>4. CASE CallResolve(c) /\ Resolve(call[c].g, call[c].passed)
  <2>1. call[c].g \in Gates /\ call[c].passed \in BOOLEAN
    BY <1>4 DEF CallResolve, CallAt, TypeInv, TasksTyped, CallTyped, GoodCall, CallType
  <2>2. UNCHANGED seen BY <1>4 DEF CallResolve
  <2>3. QED BY <1>1, <1>4, <2>1, <2>2, ResolveAsk
<1>5. CASE UNCHANGED <<st, wait, seen>> BY <1>1, <1>5, AskStays
<1>6. QED
  BY <1>2, <1>3, <1>4, <1>5 DEF CallStep, CallStops, ApproveDecide, CallCheck, PluginAnswer,
       CallResolve, CallReopen

\* Reruns.
LEMMA ReadAsk ==
  ASSUME TypeInv, NEW t \in Steps, NEW retry \in BOOLEAN, RerunRead(t, retry)
  PROVE  \A g \in Gates : KeepsAsk(g)
<1> DEFINE set == Downstream(t)
<1>1. RowsTyped BY DEF TypeInv
<1>2. UNCHANGED st BY DEF RerunRead
<1>3. wait' = [g \in Gates |-> IF g \in set THEN Covered(g, retry) ELSE wait[g]] BY DEF RerunRead
<1>4. seen' = IF retry THEN seen ELSE [g \in Gates |-> IF g \in set THEN Rearmed(g) ELSE seen[g]]
  BY DEF RerunRead
<1> HIDE DEF set
<1> TAKE g \in Gates
<1>5. CASE g \notin set
  <2>1. wait'[g] = wait[g] /\ seen'[g] = seen[g] BY <1>3, <1>4, <1>5
  <2>2. QED BY <1>1, <1>2, <2>1, AskStays
<1>6. CASE g \in set /\ retry
  <2> DEFINE v == wait[g]
             w == [v EXCEPT !.ep = 0]
  <2>1. wait'[g] = w /\ seen'[g] = seen[g] BY <1>3, <1>4, <1>6 DEF Covered
  <2>2. v \in Wait BY <1>1, AskTyped
  <2> HIDE DEF v
  <2>3. w.by = v.by /\ w.n = v.n /\ w.open = v.open /\ w.stale = v.stale BY <2>2 DEF Wait
  <2> HIDE DEF w
  <2>4. QED BY <1>1, <1>2, <2>1, <2>3, OtherField DEF v
<1>7. CASE g \in set /\ ~retry
  <2>1. seen'[g] = Rearmed(g) BY <1>4, <1>7
  <2>2. wait'[g] = wait[g] \/ wait'[g] = Close(g)[g] BY <1>3, <1>7 DEF Covered
  <2>3. wait'[g].n = wait[g].n /\ wait[g].n \in Nat /\ (wait'[g].open => wait'[g] = wait[g])
    BY <1>1, <2>2, CloseGoes, AskTyped
  <2>4. EpisodeEnds(g) BY <1>1, <2>1, RearmEnds
  <2>5. QED BY <2>3, <2>4 DEF KeepsAsk, WaitGoes
<1>8. QED BY <1>5, <1>6, <1>7

LEMMA RerunStepAsk == ASSUME TypeInv, RerunStep PROVE \A g \in Gates : KeepsAsk(g)
<1> DEFINE s == First(rerun.todo)
<1>1. RowsTyped /\ RerunTyped /\ rerun.pc = "rearm" BY DEF RerunStep, TypeInv, TasksTyped
<1>2. s \in Steps /\ (rerun.snap[s] = "Pending" => s \in Gates) BY <1>1, RerunItem
<1>3. CASE s \in Gates /\ wait' = Close(s) /\ seen' = [seen EXCEPT ![s] = Rearmed(s)] /\ UNCHANGED st
  BY <1>1, <1>3, ClosedAsk
<1>4. CASE Rearm(s) /\ UNCHANGED wait
  <2>1. CASE st[s] = "Pending"
    <3>1. UNCHANGED <<st, seen>> BY <1>4, <2>1 DEF Rearm
    <3>2. QED BY <1>1, <1>4, <3>1, AskStays
  <2>2. CASE st[s] # "Pending"
    <3>1. /\ StepMoves(s, "Pending")
          /\ seen' = IF s \in Gates THEN [seen EXCEPT ![s] = Rearmed(s)] ELSE seen
      BY <1>4, <2>2 DEF Rearm
    <3>2. QED BY <1>1, <1>2, <1>4, <3>1, RearmedAsk
  <2>3. QED BY <2>1, <2>2
<1>5. QED BY <1>2, <1>3, <1>4 DEF RerunStep

\* The rest.
LEMMA DriveAsk == ASSUME TypeInv, NEW s \in Work, Drive(s) PROVE \A g \in Gates : KeepsAsk(g)
<1>1. RowsTyped /\ s \in Steps BY DEF TypeInv, Steps
<1>2. PICK to \in {"Succeeded", "Failed"} : StepMoves(s, to) BY DEF Drive
<1>3. UNCHANGED <<wait, seen>> /\ to # "Pending" BY <1>2 DEF Drive
<1>4. QED BY <1>1, <1>2, <1>3, MovedAsk

LEMMA TickAsk == ASSUME TypeInv, Tick PROVE \A g \in Gates : KeepsAsk(g)
<1>1. RowsTyped BY DEF TypeInv
<1>2. wait' = OlderWaits(wait) /\ UNCHANGED st BY DEF Tick
<1>3. seen' = [g \in Gates |-> [seen[g] EXCEPT !.rearm = Older(@), !.due = Sooner(@)]] BY DEF Tick
<1> TAKE g \in Gates
<1>4. wait[g] \in Wait /\ seen[g] \in Episode BY <1>1, AskTyped
<1>5. /\ wait'[g].n = wait[g].n /\ wait'[g].open = wait[g].open
      /\ wait'[g].by = wait[g].by /\ wait'[g].stale = wait[g].stale
  <2> DEFINE v == wait[g]
             a == Older(v.age)
             w == [v EXCEPT !.age = a]
  <2>1. wait'[g] = IF v.open THEN w ELSE v BY <1>2 DEF OlderWaits
  <2>2. v \in Wait BY <1>4
  <2> HIDE DEF v, a
  <2>3. w.by = v.by /\ w.n = v.n /\ w.open = v.open /\ w.stale = v.stale BY <2>2 DEF Wait
  <2> HIDE DEF w
  <2>4. QED BY <2>1, <2>3 DEF v
<1>6. seen'[g].ep = seen[g].ep /\ seen'[g].by = seen[g].by /\ seen'[g].due = Sooner(seen[g].due)
  <2> DEFINE x == seen[g]
             a == Older(x.rearm)
             d == Sooner(x.due)
             e == [x EXCEPT !.rearm = a, !.due = d]
  <2>1. seen'[g] = e BY <1>3
  <2>2. x \in Episode BY <1>4
  <2> HIDE DEF x, a, d
  <2>3. e.ep = x.ep /\ e.by = x.by /\ e.due = d BY <2>2 DEF Episode
  <2> HIDE DEF e
  <2>4. QED BY <2>1, <2>3 DEF x, d
<1>7. Sooner(None) = None BY AgesAreNumbers DEF Sooner
<1>8. QED BY <1>1, <1>2, <1>5, <1>6, <1>7, OtherField

-----------------------------------------------------------------------------
(* What each step does to the calls and the passes.                        *)

\* The calls and passes that were, or that are, in the next state.
LEMMA CallsCounted ==
  ASSUME \A x \in Callers : \E c : call'[x] = c /\ CountedCall(c)'
  PROVE  (\A x \in Callers : CountedCall(call[x]))'
  BY DEF CountedCall, Met

LEMMA PassesJudged ==
  ASSUME \A x \in Replicas : \E p : pass'[x] = p /\ JudgedPass(p)'
  PROVE  (\A x \in Replicas : JudgedPass(pass[x]))'
  BY DEF JudgedPass, EnoughOf

Steady == RowsTyped /\ RowsTyped' /\ kind' = kind /\ \A g \in Gates : KeepsAsk(g)

LEMMA CallsStay ==
  ASSUME Steady, TasksTyped, UNCHANGED call, \A x \in Callers : CountedCall(call[x])
  PROVE  (\A x \in Callers : CountedCall(call[x]))'
<1> SUFFICES ASSUME NEW x \in Callers PROVE \E c : call'[x] = c /\ CountedCall(c)'
  BY CallsCounted
<1>1. PICK c : c = call[x] OBVIOUS
<1>2. c \in CallType /\ GoodCall(c) /\ CountedCall(c)
  BY <1>1 DEF TasksTyped, CallTyped
<1>3. CountedCall(c)' BY <1>2, CountedKept DEF Steady
<1>4. QED BY <1>1, <1>3

LEMMA CallsMove ==
  ASSUME Steady, TasksTyped, \A x \in Callers : CountedCall(call[x]),
         NEW c \in Callers, NEW p, CallGoes(c, p), CountedCall(p)'
  PROVE  (\A x \in Callers : CountedCall(call[x]))'
<1> SUFFICES ASSUME NEW x \in Callers PROVE \E q : call'[x] = q /\ CountedCall(q)'
  BY CallsCounted
<1>1. call \in [Callers -> CallType] BY DEF TasksTyped, CallTyped
<1>2. CASE x = c
  <2>1. call'[x] = p BY <1>1, <1>2 DEF CallGoes
  <2>2. QED BY <2>1
<1>3. CASE x # c
  <2>1. call'[x] = call[x] BY <1>1, <1>3 DEF CallGoes
  <2>2. PICK q : q = call[x] OBVIOUS
  <2>3. q \in CallType /\ GoodCall(q) /\ CountedCall(q) BY <2>2 DEF TasksTyped, CallTyped
  <2>4. CountedCall(q)' BY <2>3, CountedKept DEF Steady
  <2>5. QED BY <2>1, <2>2, <2>4
<1>4. QED BY <1>2, <1>3

LEMMA PassesStay ==
  ASSUME Steady, TasksTyped, UNCHANGED pass, \A x \in Replicas : JudgedPass(pass[x])
  PROVE  (\A x \in Replicas : JudgedPass(pass[x]))'
<1> SUFFICES ASSUME NEW x \in Replicas PROVE \E p : pass'[x] = p /\ JudgedPass(p)'
  BY PassesJudged
<1>1. PICK p : p = pass[x] OBVIOUS
<1>2. p \in PassType /\ GoodPass(p) /\ JudgedPass(p) BY <1>1 DEF TasksTyped, PassTyped
<1>3. JudgedPass(p)' BY <1>2, JudgedKept DEF Steady
<1>4. QED BY <1>1, <1>3

LEMMA PassesMove ==
  ASSUME Steady, TasksTyped, \A x \in Replicas : JudgedPass(pass[x]),
         NEW r \in Replicas, NEW p, Goes(r, p), JudgedPass(p)'
  PROVE  (\A x \in Replicas : JudgedPass(pass[x]))'
<1> SUFFICES ASSUME NEW x \in Replicas PROVE \E q : pass'[x] = q /\ JudgedPass(q)'
  BY PassesJudged
<1>1. pass \in [Replicas -> PassType] BY DEF TasksTyped, PassTyped
<1>2. CASE x = r
  <2>1. pass'[x] = p BY <1>1, <1>2 DEF Goes
  <2>2. QED BY <2>1
<1>3. CASE x # r
  <2>1. pass'[x] = pass[x] BY <1>1, <1>3 DEF Goes
  <2>2. PICK q : q = pass[x] OBVIOUS
  <2>3. q \in PassType /\ GoodPass(q) /\ JudgedPass(q) BY <2>2 DEF TasksTyped, PassTyped
  <2>4. JudgedPass(q)' BY <2>3, JudgedKept DEF Steady
  <2>5. QED BY <2>1, <2>2, <2>4
<1>4. QED BY <1>2, <1>3

\* A call that has found nothing enough.
LEMMA QuietCall ==
  ASSUME NEW p \in CallType, p.pc \in {"idle", "record", "decide", "reopen"}
  PROVE  CountedCall(p)'
  BY DEF CountedCall

LEMMA IdleQuiet == IdleCall.pc = "idle" BY DEF IdleCall

\* A call that goes on with what it found.
LEMMA FoundCall ==
  ASSUME kind' = kind, NEW q \in CallType, CountedCall(q)', NEW to \in {"check", "resolve"},
         q.pc = "met" \/ q.pc = "check" \/ kind[q.g] = "plugin"
  PROVE  CountedCall([q EXCEPT !.pc = to])'
<1> DEFINE p == [q EXCEPT !.pc = to]
<1>1. p.pc = to /\ p.g = q.g /\ p.ep = q.ep /\ p.passed = q.passed BY DEF CallType
<1> HIDE DEF p
<1>2. CountedCall(p)' BY <1>1 DEF CountedCall
<1>3. QED BY <1>2 DEF p

LEMMA StepCounted ==
  ASSUME Steady, TypeInv, \A x \in Callers : CountedCall(call[x]),
         NEW c \in Callers, CallStep(c) \/ CallStops(c)
  PROVE  (\A x \in Callers : CountedCall(call[x]))'
<1>1. TasksTyped BY DEF TypeInv
<1>2. PICK q : q = call[c] OBVIOUS
<1>3. q \in CallType /\ GoodCall(q) /\ CountedCall(q) BY <1>1, <1>2 DEF TasksTyped, CallTyped
<1>4. CountedCall(q)' BY <1>3, CountedKept DEF Steady
<1>5. kind' = kind BY DEF Steady
<1>6. CASE CallEnds(c)
  <2>1. CountedCall(IdleCall)' BY QuietCall, IdleQuiet, IdleTyped
  <2>2. CallGoes(c, IdleCall) BY <1>6 DEF CallEnds
  <2>3. QED BY <1>1, <2>1, <2>2, CallsMove
<1>7. CASE \E to \in {"decide", "reopen"} : CallTo(c, to)
  <2>1. PICK to \in {"decide", "reopen"} : CallTo(c, to) BY <1>7
  <2> DEFINE p == [q EXCEPT !.pc = to]
  <2>2. CallGoes(c, p) BY <1>2, <2>1 DEF CallTo
  <2>3. p \in CallType /\ p.pc = to BY <1>3 DEF CallType
  <2> HIDE DEF p
  <2>4. CountedCall(p)' BY <2>3, QuietCall
  <2>5. QED BY <1>1, <2>2, <2>4, CallsMove
<1>8. CASE /\ q.pc = "met" \/ q.pc = "check" \/ kind[q.g] = "plugin"
           /\ \E to \in {"check", "resolve"} : CallTo(c, to)
  <2>1. PICK to \in {"check", "resolve"} : CallTo(c, to) BY <1>8
  <2> DEFINE p == [q EXCEPT !.pc = to]
  <2>2. CallGoes(c, p) BY <1>2, <2>1 DEF CallTo
  <2>3. CountedCall(p)' BY <1>3, <1>4, <1>5, <1>8, FoundCall
  <2> HIDE DEF p
  <2>4. QED BY <1>1, <2>2, <2>3, CallsMove
<1>9. CASE ApproveDecide(c) /\ ~CallEnds(c)
  <2>a. PICK e : e = seen[q.g].ep OBVIOUS
  <2>b. PICK to : to = IF kind[q.g] = "plain" THEN "check" ELSE "met" OBVIOUS
  <2> DEFINE p == [q EXCEPT !.pc = to, !.ep = e]
  <2>1. /\ q.pc = "decide" /\ UNCHANGED <<kind, seen>> /\ CallGoes(c, p)
        /\ kind[q.g] = "approval" => Met(q.g)
    BY <1>2, <1>9, <2>a, <2>b DEF ApproveDecide, CallAt
  <2>2. q.g \in Gates BY <1>3, <2>1 DEF GoodCall
  <2>3. e \in Nat BY <2>2, <2>a, AskTyped DEF Steady
  <2>4. to \in {"check", "met"} BY <2>b
  <2>5. UNCHANGED seen /\ UNCHANGED kind BY <2>1
  <2>6. e = seen'[q.g].ep BY <2>5, <2>a
  <2>7. p.pc = to /\ p.g = q.g /\ p.ep = e BY <1>3 DEF CallType
  <2> HIDE DEF p
  <2>8. kind[q.g] = "approval" => Met(q.g)' BY <2>1, <2>5 DEF Met
  <2>9. CountedCall(p)' BY <2>3, <2>4, <2>5, <2>6, <2>7, <2>8 DEF CountedCall
  <2>10. QED BY <1>1, <2>1, <2>9, CallsMove
<1>10. CASE ApproveRecord(c) BY <1>6, <1>7, <1>10 DEF ApproveRecord
<1>11. CASE ApproveMet(c) BY <1>2, <1>6, <1>8, <1>11 DEF ApproveMet, CallAt
<1>12. CASE CallCheck(c) BY <1>2, <1>6, <1>8, <1>12 DEF CallCheck, CallAt
<1>13. CASE PluginAnswer(c)
  <2>1. kind[q.g] = "plugin" BY <1>2, <1>3, <1>13 DEF PluginAnswer, CallAt, CountedCall
  <2>2. QED BY <1>6, <1>8, <1>13, <2>1 DEF PluginAnswer
<1>14. CASE CallResolve(c) BY <1>6, <1>7, <1>14 DEF CallResolve
<1>15. CASE CallReopen(c) \/ CallStops(c) BY <1>6, <1>15 DEF CallReopen, CallStops
<1>16. QED
  BY <1>6, <1>9, <1>10, <1>11, <1>12, <1>13, <1>14, <1>15 DEF CallStep

LEMMA ReadCounted ==
  ASSUME Steady, TypeInv, \A x \in Callers : CountedCall(call[x]), NEW c \in Callers, NEW g \in Gates,
         ApproveRead(c, g) \/ VerdictRead(c, g) \/ PluginRead(c, g)
  PROVE  (\A x \in Callers : CountedCall(call[x]))'
<1>1. TasksTyped /\ kind' = kind BY DEF TypeInv, Steady
<1>2. CASE ApproveRead(c, g)
  <2> DEFINE age == IF wait[g].open THEN wait[g].age ELSE 0
             due == IF kind[g] = "plain" \/ age >= Timer THEN 0 ELSE Timer - age
  <2>a. PICK d, b : d = due /\ b = (due = 0) OBVIOUS
  <2> DEFINE p == [IdleCall EXCEPT !.pc = "record", !.g = g, !.due = d, !.passed = b]
  <2>1. CallGoes(c, p) BY <1>2, <2>a DEF ApproveRead, Starts
  <2>2. p.pc = "record" BY DEF IdleCall
  <2> HIDE DEF p
  <2>3. CountedCall(p)' BY <2>2 DEF CountedCall
  <2>4. QED BY <1>1, <2>1, <2>3, CallsMove
<1>3. CASE VerdictRead(c, g)
  <2>1. PICK b \in BOOLEAN : /\ Starts(c, [IdleCall EXCEPT !.pc = "check", !.g = g, !.passed = b])
                             /\ b => kind[g] = "external"
    BY <1>3 DEF VerdictRead
  <2> DEFINE p == [IdleCall EXCEPT !.pc = "check", !.g = g, !.passed = b]
  <2>2. CallGoes(c, p) BY <2>1 DEF Starts
  <2>3. p.pc = "check" /\ p.g = g /\ p.passed = b BY DEF IdleCall
  <2> HIDE DEF p
  <2>4. CountedCall(p)' BY <1>1, <2>1, <2>3 DEF CountedCall
  <2>5. QED BY <1>1, <2>2, <2>4, CallsMove
<1>4. CASE PluginRead(c, g)
  <2>1. PICK b \in BOOLEAN :
          Starts(c, [IdleCall EXCEPT !.pc = "answer", !.g = g, !.n = wait[g].n, !.passed = b])
    BY <1>4 DEF PluginRead
  <2>a. PICK n : n = wait[g].n OBVIOUS
  <2> DEFINE p == [IdleCall EXCEPT !.pc = "answer", !.g = g, !.n = n, !.passed = b]
  <2>2. CallGoes(c, p) /\ kind[g] = "plugin" BY <1>4, <2>1, <2>a DEF Starts, PluginRead
  <2>3. p.pc = "answer" /\ p.g = g BY DEF IdleCall
  <2> HIDE DEF p
  <2>4. CountedCall(p)' BY <1>1, <2>2, <2>3 DEF CountedCall
  <2>5. QED BY <1>1, <2>2, <2>4, CallsMove
<1>5. QED BY <1>2, <1>3, <1>4

LEMMA TickCounted ==
  ASSUME Steady, TypeInv, \A x \in Callers : CountedCall(call[x]), Tick
  PROVE  (\A x \in Callers : CountedCall(call[x]))'
<1> SUFFICES ASSUME NEW x \in Callers PROVE \E p : call'[x] = p /\ CountedCall(p)'
  BY CallsCounted
<1>1. PICK q : q = call[x] OBVIOUS
<1>2. q \in CallType /\ GoodCall(q) /\ CountedCall(q)
  BY <1>1 DEF TypeInv, TasksTyped, CallTyped
<1>3. CountedCall(q)' BY <1>2, CountedKept DEF Steady
<1> DEFINE d == Sooner(q.due)
           p == [q EXCEPT !.due = d]
<1>4. call'[x] = p BY <1>1 DEF Tick
<1> HIDE DEF d
<1>5. p.pc = q.pc /\ p.g = q.g /\ p.passed = q.passed /\ p.ep = q.ep BY <1>2 DEF CallType
<1> HIDE DEF p
<1>6. CountedCall(p)' BY <1>3, <1>5 DEF CountedCall
<1>7. QED BY <1>4, <1>6

\* A pass that lets nothing through.
LEMMA QuietJudge ==
  ASSUME NEW p, p.pc # "resolve" \/ ~p.passed, \A g \in Gates : p.att[g].n <= wait'[g].n
  PROVE  JudgedPass(p)'
  BY DEF JudgedPass

\* What a pass that goes on has read.
LEMMA EnterAtt ==
  ASSUME NEW p \in PassType, NEW todo, NEW here, NEW next
  PROVE  /\ Enter(p, todo, here, next).att = p.att
         /\ Enter(p, todo, here, next).pc \in {here, next}
<1> DEFINE to == IF todo = {} THEN next ELSE here
           q == [p EXCEPT !.todo = todo, !.pc = to]
<1>1. to \in {here, next} OBVIOUS
<1>2. Enter(p, todo, here, next) = q BY DEF Enter
<1> HIDE DEF to
<1>3. q.att = p.att /\ q.pc = to BY DEF PassType
<1>4. QED BY <1>1, <1>2, <1>3

\* A number that was read is not ahead of the next state.
LEMMA OldNumbers ==
  ASSUME Steady, NEW a \in Waits, \A g \in Gates : a[g].n <= wait[g].n
  PROVE  \A g \in Gates : a[g].n <= wait'[g].n
<1>1. \A g \in Gates : /\ a[g].n \in Nat /\ wait[g].n \in Nat /\ wait'[g].n \in Nat
                       /\ wait[g].n <= wait'[g].n
  BY DEF Steady, RowsTyped, Waits, Wait, KeepsAsk, WaitGoes
<1>2. QED BY <1>1

LEMMA FreshNumbers ==
  ASSUME Steady
  PROVE  /\ \A g \in Gates : wait[g].n <= wait'[g].n
         /\ \A g \in Gates : IdlePass.att[g].n <= wait'[g].n
<1>1. \A g \in Gates : wait[g].n \in Nat /\ wait'[g].n \in Nat /\ wait[g].n <= wait'[g].n
  BY DEF Steady, RowsTyped, Waits, Wait, KeepsAsk, WaitGoes
<1>2. \A g \in Gates : IdlePass.att[g].n = 0 BY DEF IdlePass, NoWait
<1>3. QED BY <1>1, <1>2

\* A pass enters a phase, or its next item, with what it read.
LEMMA EnterJudged ==
  ASSUME NEW p \in PassType, NEW todo, NEW here, NEW next, here # "resolve", next # "resolve",
         \A g \in Gates : p.att[g].n <= wait'[g].n
  PROVE  JudgedPass(Enter(p, todo, here, next))'
<1>1. PICK q : q = Enter(p, todo, here, next) OBVIOUS
<1>2. q.att = p.att /\ q.pc # "resolve" BY <1>1, EnterAtt
<1>3. JudgedPass(q)' BY <1>2, QuietJudge
<1>4. QED BY <1>1, <1>3 DEF JudgedPass, EnoughOf

\* The pass that takes a step.
GoesJudged(r) == \E p : Goes(r, p) /\ JudgedPass(p)'

LEMMA NextJudged ==
  ASSUME Steady, TypeInv, NEW r \in Replicas, JudgedPass(pass[r]),
         NEW here, NEW next, here # "resolve", next # "resolve", Goes(r, NextItem(r, here, next))
  PROVE  GoesJudged(r)
<1>1. PICK q, t : q = pass[r] /\ t = pass[r].todo \ {Item(r)} OBVIOUS
<1>2. q \in PassType /\ q.att \in Waits BY <1>1 DEF TypeInv, TasksTyped, PassTyped, PassType
<1>3. \A g \in Gates : q.att[g].n <= wait'[g].n BY <1>1, <1>2, OldNumbers DEF JudgedPass
<1>4. Goes(r, Enter(q, t, here, next)) BY <1>1 DEF NextItem
<1>5. JudgedPass(Enter(q, t, here, next))' BY <1>2, <1>3, EnterJudged
<1>6. QED BY <1>4, <1>5 DEF GoesJudged

LEMMA LeaveJudged ==
  ASSUME Steady, NEW r \in Replicas, Leave(r) \/ \E to \in {"exhaust", "suspend", "suspending"} :
                                                   Goes(r, [IdlePass EXCEPT !.pc = to])
  PROVE  GoesJudged(r)
<1>1. CASE Leave(r)
  <2>1. PICK p : p = IdlePass OBVIOUS
  <2>2. p.pc # "resolve" BY <2>1 DEF IdlePass
  <2>3. JudgedPass(p)' BY <2>1, <2>2, QuietJudge, FreshNumbers
  <2>4. QED BY <1>1, <2>1, <2>3 DEF GoesJudged, Leave
<1>2. CASE \E to \in {"exhaust", "suspend", "suspending"} : Goes(r, [IdlePass EXCEPT !.pc = to])
  <2>1. PICK to \in {"exhaust", "suspend", "suspending"} : Goes(r, [IdlePass EXCEPT !.pc = to])
    BY <1>2
  <2>2. PICK p : p = [IdlePass EXCEPT !.pc = to] OBVIOUS
  <2>3. p.pc # "resolve" /\ p.att = IdlePass.att BY <2>2 DEF IdlePass
  <2>4. JudgedPass(p)' BY <2>3, QuietJudge, FreshNumbers
  <2>5. QED BY <2>1, <2>2, <2>4 DEF GoesJudged
<1>3. QED BY <1>1, <1>2

LEMMA ReadJudged ==
  ASSUME Steady, TypeInv, NEW r \in Replicas, JudgedPass(pass[r]),
         PassBegin(r) \/ SpareRead(r) \/ StepsRead(r) \/ Resume(r)
  PROVE  GoesJudged(r)
<1>1. pass[r] \in PassType /\ st \in Snapshot /\ wait \in Waits /\ run \in RunStatus
  BY DEF TypeInv, TasksTyped, PassTyped, RowsTyped
<1>2. ASSUME NEW p \in PassType, NEW todo, NEW here, NEW next, here # "resolve", next # "resolve",
             p.att = wait \/ p.att = IdlePass.att, Goes(r, Enter(p, todo, here, next))
      PROVE  GoesJudged(r)
  <2>1. \A g \in Gates : p.att[g].n <= wait'[g].n BY <1>2, FreshNumbers
  <2>2. JudgedPass(Enter(p, todo, here, next))' BY <1>2, <2>1, EnterJudged
  <2>3. QED BY <1>2, <2>2 DEF GoesJudged
<1>3. CASE PassBegin(r)
  <2>1. PICK p : p = [IdlePass EXCEPT !.from = run, !.snap = st, !.att = wait] OBVIOUS
  <2>2. p \in PassType /\ p.att = wait BY <1>1, <2>1, IdleTyped DEF PassType
  <2>3. PICK todo : Goes(r, Enter(p, todo, "visit", "spare")) BY <1>3, <2>1 DEF PassBegin
  <2>4. QED BY <1>2, <2>2, <2>3
<1>4. CASE SpareRead(r)
  <2>1. PICK p : p = [pass[r] EXCEPT !.snap = st, !.att = wait] OBVIOUS
  <2>2. p \in PassType /\ p.att = wait BY <1>1, <2>1 DEF PassType
  <2>3. PICK todo : Goes(r, Enter(p, todo, "skip", "resume")) BY <1>4, <2>1 DEF SpareRead
  <2>4. QED BY <1>2, <2>2, <2>3
<1>5. CASE StepsRead(r)
  <2>1. PICK b \in BOOLEAN : b = \E g \in Gates : st[g] = "Pending" OBVIOUS
  <2>2. PICK p : p = [IdlePass EXCEPT !.snap = st, !.passed = b] OBVIOUS
  <2>3. p \in PassType /\ p.att = IdlePass.att BY <1>1, <2>2, IdleTyped DEF PassType
  <2>4. PICK todo : Goes(r, Enter(p, todo, "admit", "claim")) BY <1>5, <2>1, <2>2 DEF StepsRead
  <2>5. QED BY <1>2, <2>3, <2>4
<1>6. CASE Resume(r)
  <2>1. PICK q, p : q = pass[r] /\ p = [q EXCEPT !.from = "Running"] OBVIOUS
  <2>2. p.pc = "resume" /\ p.att = q.att /\ q.att \in Waits
    BY <1>1, <1>6, <2>1 DEF PassType, Resume, At
  <2>3. \A g \in Gates : q.att[g].n <= wait'[g].n BY <2>1, <2>2, OldNumbers DEF JudgedPass
  <2>4. JudgedPass(p)' BY <2>2, <2>3, QuietJudge
  <2>5. QED BY <1>6, <2>1, <2>4 DEF GoesJudged, Resume
<1>7. QED BY <1>3, <1>4, <1>5, <1>6

\* A wait that is opened, or whose inputs are stored, is known to the pass.
LEMMA MintJudged ==
  ASSUME Steady, TypeInv, NEW r \in Replicas, JudgedPass(pass[r]), VisitMint(r) \/ StoreInputs(r)
  PROVE  GoesJudged(r)
<1>1. PassTyped /\ pass[r].pc = "visit"
  BY DEF TypeInv, TasksTyped, VisitMint, StoreInputs, Judging, At
<1>2. PICK q, g : q = pass[r] /\ g = Item(r) OBVIOUS
<1>3. q \in PassType /\ g \in Gates /\ q.pc = "visit" /\ q.att \in Waits
  BY <1>1, <1>2, ItemTyped DEF PassType
<1>4. \A h \in Gates : q.att[h].n <= wait'[h].n BY <1>2, <1>3, OldNumbers DEF JudgedPass
<1>5. ASSUME NEW w, w.n <= wait'[g].n, Goes(r, [q EXCEPT !.att[g] = w]) PROVE GoesJudged(r)
  <2>1. PICK p : p = [q EXCEPT !.att[g] = w] OBVIOUS
  <2>2. p.pc = "visit" /\ p.att[g] = w /\ \A h \in Gates : h # g => p.att[h] = q.att[h]
    BY <1>3, <2>1 DEF PassType, Waits
  <2>3. \A h \in Gates : p.att[h].n <= wait'[h].n BY <1>4, <1>5, <2>2
  <2>4. JudgedPass(p)' BY <2>2, <2>3, QuietJudge
  <2>5. QED BY <1>5, <2>1, <2>4 DEF GoesJudged
<1>6. wait'[g].n \in Nat BY <1>3 DEF Steady, RowsTyped, Waits, Wait
<1>7. CASE VisitMint(r) /\ st[g] = "Pending"
  <2>1. PICK w : w = wait'[g] OBVIOUS
  <2>2. Goes(r, [q EXCEPT !.att[g] = w]) BY <1>2, <1>7, <2>1 DEF VisitMint
  <2>3. QED BY <1>5, <1>6, <2>1, <2>2
<1>8. CASE VisitMint(r) /\ st[g] # "Pending"
  <2>1. Goes(r, NextItem(r, "visit", "spare")) BY <1>2, <1>8 DEF VisitMint
  <2>2. QED BY <2>1, NextJudged
<1>9. CASE StoreInputs(r)
  <2>1. PICK v : v = q.att[g] OBVIOUS
  <2>2. PICK w : w = [v EXCEPT !.inputs = TRUE] OBVIOUS
  <2>3. v \in Wait BY <1>3, <2>1 DEF Waits
  <2>4. w.n = v.n BY <2>2, <2>3 DEF Wait
  <2>5. Goes(r, [q EXCEPT !.att[g] = w])
    <3>1. Goes(r, [q EXCEPT !.att[g].inputs = TRUE]) BY <1>2, <1>9 DEF StoreInputs
    <3>2. [q EXCEPT !.att[g].inputs = TRUE] = [q EXCEPT !.att[g] = [v EXCEPT !.inputs = TRUE]]
      BY <2>1
    <3>3. QED BY <2>2, <3>1, <3>2
  <2>6. QED BY <1>3, <1>4, <1>5, <2>1, <2>4, <2>5
<1>10. QED BY <1>7, <1>8, <1>9

\* A wait that is judged: its approvals are there if the log says so.
LEMMA VerdictJudged ==
  ASSUME Steady, TypeInv, AskedInv, NEW r \in Replicas, JudgedPass(pass[r]), Judge(r) \/ InputsFail(r)
  PROVE  GoesJudged(r)
<1>1. PassTyped /\ RowsTyped /\ pass[r].pc = "visit"
  BY DEF TypeInv, TasksTyped, InputsFail, Judge, Judging, At
<1>2. PICK q, g : q = pass[r] /\ g = Item(r) OBVIOUS
<1>3. q \in PassType /\ g \in Gates /\ g = First(q.todo) /\ q.att \in Waits
  BY <1>1, <1>2, ItemTyped DEF PassType, Item
<1>4. \A h \in Gates : q.att[h].n <= wait'[h].n BY <1>2, <1>3, OldNumbers DEF JudgedPass
<1>5. UNCHANGED <<kind, wait>> BY DEF InputsFail, Judge
<1>6. ASSUME NEW b \in BOOLEAN, b => (kind[g] = "approval" => seen[g].due = 0),
             Goes(r, [q EXCEPT !.pc = "resolve", !.passed = b])
      PROVE  GoesJudged(r)
  <2>1. PICK p : p = [q EXCEPT !.pc = "resolve", !.passed = b] OBVIOUS
  <2>2. p.pc = "resolve" /\ p.att = q.att /\ p.passed = b /\ p.todo = q.todo
    BY <1>3, <2>1 DEF PassType
  <2>3. ASSUME b, kind[g] = "approval", wait[g].open PROVE EnoughOf(wait[g])
    <3>1. seen[g].due # None BY <1>6, <2>3, AgesAreNumbers
    <3>2. seen[g].by \subseteq wait[g].by /\ (Met(g) \/ wait[g].stale)
      BY <1>3, <2>3, <3>1 DEF AskedInv, Asking
    <3>3. wait[g].by \subseteq Callers BY <1>1, <1>3, AskTyped
    <3>4. QED BY <3>2, <3>3, MoreIsEnough DEF Met, EnoughOf
  <2>4. JudgedPass(p)' BY <1>3, <1>4, <1>5, <2>2, <2>3 DEF JudgedPass, EnoughOf
  <2>5. QED BY <1>6, <2>1, <2>4 DEF GoesJudged
<1>7. CASE InputsFail(r)
  <2>1. Goes(r, [q EXCEPT !.pc = "resolve", !.passed = FALSE]) BY <1>2, <1>7 DEF InputsFail
  <2>2. QED BY <1>6, <2>1
<1>8. CASE Judge(r)
  <2> DEFINE v == GateVerdict(g, Judged(r).age)
  <2>1. CASE v = "none"
    <3>1. Goes(r, NextItem(r, "visit", "spare")) BY <1>2, <1>8, <2>1 DEF Judge
    <3>2. QED BY <3>1, NextJudged
  <2>2. CASE v # "none"
    <3>1. PICK refused \in BOOLEAN :
            Goes(r, [q EXCEPT !.pc = "resolve", !.passed = (v = "pass" /\ ~refused)])
      BY <1>2, <1>8, <2>2 DEF Judge
    <3>2. PICK b \in BOOLEAN : b = (v = "pass" /\ ~refused) OBVIOUS
    <3>3. b => (kind[g] = "approval" => seen[g].due = 0) BY <3>2 DEF GateVerdict
    <3>4. Goes(r, [q EXCEPT !.pc = "resolve", !.passed = b]) BY <3>1, <3>2
    <3>5. QED BY <1>6, <3>3, <3>4
  <2>3. QED BY <2>1, <2>2
<1>9. QED BY <1>7, <1>8

LEMMA PassJudged ==
  ASSUME Steady, TypeInv, AskedInv, NEW r \in Replicas, JudgedPass(pass[r]),
         PassBegin(r) \/ PassStep(r) \/ NewLeader(r), ~KillStep(r), ~KillClose(r)
  PROVE  GoesJudged(r)
<1>1. CASE PassBegin(r) \/ SpareRead(r) \/ StepsRead(r) \/ Resume(r) BY <1>1, ReadJudged
<1>2. CASE VisitMint(r) \/ StoreInputs(r) BY <1>2, MintJudged
<1>3. CASE Judge(r) \/ InputsFail(r) BY <1>3, VerdictJudged
<1>4. CASE VisitSupersede(r) \/ PassResolve(r)
  BY <1>4, NextJudged DEF VisitSupersede, PassResolve
<1>5. CASE SpareSkip(r) \/ SpareRevive(r) BY <1>5, NextJudged DEF SpareSkip, SpareRevive
<1>6. CASE AdmitPromote(r) \/ AdmitSkip(r) BY <1>6, NextJudged DEF AdmitPromote, AdmitSkip
<1>7. CASE StaySuspended(r) \/ SuspendCommit(r) \/ FencedOff(r) \/ ExhaustRun(r)
  BY <1>7, LeaveJudged DEF StaySuspended, SuspendCommit, FencedOff, ExhaustRun
<1>8. CASE AdmitClaim(r) \/ SuspendDecide(r) \/ OverBudget(r)
  BY <1>8, LeaveJudged DEF AdmitClaim, SuspendDecide, OverBudget
<1>9. CASE NewLeader(r) BY <1>9, LeaveJudged DEF NewLeader, Leave, Goes
<1>10. QED
  BY <1>1, <1>2, <1>3, <1>4, <1>5, <1>6, <1>7, <1>8, <1>9 DEF PassStep

LEMMA TickJudged ==
  ASSUME Steady, TypeInv, \A x \in Replicas : JudgedPass(pass[x]), Tick
  PROVE  (\A x \in Replicas : JudgedPass(pass[x]))'
<1> SUFFICES ASSUME NEW x \in Replicas PROVE \E p : pass'[x] = p /\ JudgedPass(p)'
  BY PassesJudged
<1>1. PICK q : q = pass[x] OBVIOUS
<1>2. q \in PassType /\ GoodPass(q) /\ JudgedPass(q) BY <1>1 DEF TypeInv, TasksTyped, PassTyped
<1>3. JudgedPass(q)' BY <1>2, JudgedKept DEF Steady
<1>4. PICK a : a = OlderWaits(q.att) OBVIOUS
<1>5. PICK p : p = [q EXCEPT !.att = a] OBVIOUS
<1>6. pass'[x] = p BY <1>1, <1>4, <1>5 DEF Tick
<1>7. p.pc = q.pc /\ p.passed = q.passed /\ p.todo = q.todo /\ p.att = a BY <1>2, <1>5 DEF PassType
<1>8. q.att \in Waits BY <1>2 DEF PassType
<1>9. \A g \in Gates : a[g].n = q.att[g].n
  <2> TAKE g \in Gates
  <2>1. PICK v : v = q.att[g] OBVIOUS
  <2>2. v \in Wait BY <1>8, <2>1 DEF Waits
  <2>3. PICK o : o = Older(v.age) OBVIOUS
  <2>4. a[g] = IF v.open THEN [v EXCEPT !.age = o] ELSE v BY <1>4, <2>1, <2>3 DEF OlderWaits
  <2>5. [v EXCEPT !.age = o].n = v.n BY <2>2 DEF Wait
  <2>6. QED BY <2>1, <2>4, <2>5
<1>10. p.pc = "resolve" => First(p.todo) \in Gates
  BY <1>2, <1>7, FirstIsIn DEF GoodPass, PassType
<1>11. JudgedPass(p)' BY <1>3, <1>7, <1>9, <1>10 DEF JudgedPass, EnoughOf
<1>12. QED BY <1>6, <1>11

-----------------------------------------------------------------------------
(* The approvals of a wait.                                                *)

\* Nobody cancels the Run, and it has no budget to be cancelled over.
Uncancelled == MaxCancels = 0 /\ Budget = 0

LEMMA NoneCancels ==
  ASSUME Uncancelled, TypeInv, NoKill
  PROVE  /\ \A k \in Killers : ~KillStep(k) /\ ~KillClose(k)
         /\ \A r \in Replicas : ~OverBudget(r) /\ ~ExhaustRun(r)
         /\ ~CancelRead /\ ~CancelRun /\ ~CancelStops
<1>1. \A k \in Killers : kill[k].pc = "idle" BY DEF NoKill
<1>2. "api" \in Killers /\ \A r \in Replicas : r \in Killers BY DEF Killers
<1>3. \A k \in Killers : ~KillStep(k) /\ ~KillClose(k) BY <1>1 DEF KillStep, KillClose, KillAt
<1>4. \A r \in Replicas : ~ExhaustRun(r) BY <1>1, <1>2 DEF ExhaustRun, KillAt
<1>5. \A r \in Replicas : ~OverBudget(r) BY DEF OverBudget, Exhausted, Uncancelled
<1>6. ~CancelRun /\ ~CancelStops BY <1>1, <1>2 DEF CancelRun, CancelStops, KillAt
<1>7. ~CancelRead
  <2>1. count.cancels \in Nat BY DEF TypeInv, RowsTyped, CountType
  <2>2. QED BY <2>1 DEF CancelRead, Uncancelled
<1>8. QED BY <1>3, <1>4, <1>5, <1>6, <1>7

\* A step, then, is one of these.
Undisturbed ==
  \/ \E r \in Replicas : /\ PassBegin(r) \/ PassStep(r) \/ NewLeader(r)
                         /\ ~KillStep(r) /\ ~KillClose(r) /\ ~OverBudget(r) /\ ~ExhaustRun(r)
  \/ \E c \in Callers : CallStep(c) \/ CallStops(c)
  \/ \E c \in Callers, g \in Gates : ApproveRead(c, g) \/ VerdictRead(c, g) \/ PluginRead(c, g)
  \/ \E t \in Steps, retry \in BOOLEAN : RerunRead(t, retry)
  \/ RerunStep \/ RerunReopen \/ RerunStops
  \/ \E s \in Work : Drive(s)
  \/ Settle \/ Tick

LEMMA NextUndisturbed == ASSUME Uncancelled, TypeInv, NoKill, Next PROVE Undisturbed
<1>1. "api" \in Killers /\ \A r \in Replicas : r \in Killers BY DEF Killers
<1>2. ~CancelStep /\ ~CancelRead /\ ~CancelStops BY <1>1, NoneCancels DEF CancelStep
<1>3. \A r \in Replicas : ~KillStep(r) /\ ~KillClose(r) /\ ~OverBudget(r) /\ ~ExhaustRun(r)
  BY <1>1, NoneCancels
<1>4. QED BY <1>2, <1>3 DEF Next, Undisturbed, RerunGoesOn

LEMMA PassAsk ==
  ASSUME TypeInv, NEW r \in Replicas, PassBegin(r) \/ PassStep(r) \/ NewLeader(r),
         ~KillStep(r), ~KillClose(r), ~OverBudget(r), ~ExhaustRun(r)
  PROVE  /\ \A g \in Gates : KeepsAsk(g)
         /\ UNCHANGED <<kind, call>> /\ (kill' = kill \/ NewLeader(r))
<1>1. RowsTyped BY DEF TypeInv
<1>2. CASE VisitSupersede(r) BY <1>2, SupersedeAsk DEF VisitSupersede
<1>3. CASE VisitMint(r) BY <1>3, MintAsk DEF VisitMint
<1>4. CASE StoreInputs(r) BY <1>4, InputsAsk DEF StoreInputs
<1>5. CASE PassResolve(r) BY <1>5, VerdictAsk DEF PassResolve
<1>6. CASE SpareSkip(r) \/ SpareRevive(r) BY <1>6, SpareAsk DEF SpareSkip, SpareRevive
<1>7. CASE AdmitPromote(r) \/ AdmitSkip(r) \/ AdmitClaim(r)
  BY <1>7, AdmitAsk DEF AdmitPromote, AdmitSkip, AdmitClaim
<1>8. CASE \/ PassBegin(r) \/ InputsFail(r) \/ Judge(r) \/ SpareRead(r) \/ StaySuspended(r)
           \/ Resume(r) \/ StepsRead(r) \/ SuspendDecide(r) \/ SuspendCommit(r) \/ FencedOff(r)
           \/ NewLeader(r)
  <2>1. UNCHANGED <<kind, call, st, wait, seen>> /\ (kill' = kill \/ NewLeader(r))
    BY <1>8 DEF PassBegin, InputsFail, Judge, SpareRead, StaySuspended, Resume, StepsRead,
                SuspendDecide, SuspendCommit, FencedOff, NewLeader
  <2>2. QED BY <1>1, <2>1, AskStays
<1>9. QED
  BY <1>2, <1>3, <1>4, <1>5, <1>6, <1>7, <1>8 DEF PassStep

\* Everyone else.
LEMMA OthersAsk ==
  ASSUME TypeInv,
         \/ \E c \in Callers, g \in Gates : ApproveRead(c, g) \/ VerdictRead(c, g) \/ PluginRead(c, g)
         \/ \E t \in Steps, retry \in BOOLEAN : RerunRead(t, retry)
         \/ RerunStep \/ RerunReopen \/ RerunStops
         \/ \E s \in Work : Drive(s)
         \/ Settle
  PROVE  /\ \A g \in Gates : KeepsAsk(g)
         /\ UNCHANGED <<kind, pass, kill>>
         /\ \/ UNCHANGED call
            \/ \E c \in Callers, g \in Gates : ApproveRead(c, g) \/ VerdictRead(c, g) \/ PluginRead(c, g)
<1>1. RowsTyped BY DEF TypeInv
<1>2. CASE \E c \in Callers, g \in Gates : ApproveRead(c, g) \/ VerdictRead(c, g) \/ PluginRead(c, g)
  <2>1. UNCHANGED <<kind, pass, kill, st, wait, seen>>
    BY <1>2 DEF ApproveRead, VerdictRead, PluginRead, Starts
  <2>2. QED BY <1>1, <1>2, <2>1, AskStays
<1>3. CASE \E t \in Steps, retry \in BOOLEAN : RerunRead(t, retry)
  <2>1. UNCHANGED <<kind, pass, kill, call>> BY <1>3 DEF RerunRead
  <2>2. QED BY <1>3, <2>1, ReadAsk
<1>4. CASE RerunStep BY <1>4, RerunStepAsk DEF RerunStep
<1>5. CASE RerunReopen \/ RerunStops \/ Settle
  <2>1. UNCHANGED <<kind, pass, kill, call, st, wait, seen>> BY <1>5 DEF RerunReopen, RerunStops, Settle
  <2>2. QED BY <1>1, <2>1, AskStays
<1>6. CASE \E s \in Work : Drive(s)
  <2>1. UNCHANGED <<kind, pass, kill, call>> BY <1>6 DEF Drive
  <2>2. QED BY <1>6, <2>1, DriveAsk
<1>7. QED BY <1>2, <1>3, <1>4, <1>5, <1>6

LEMMA AskStep == ASSUME TypeInv, TypeInv', AskInv, Undisturbed PROVE AskInv'
<1>1. /\ AskedInv /\ NoKill /\ (\A c \in Callers : CountedCall(call[c]))
      /\ \A r \in Replicas : JudgedPass(pass[r])
  BY DEF AskInv
<1>2. RowsTyped /\ TasksTyped /\ RowsTyped' BY DEF TypeInv
<1>3. ASSUME kind' = kind, \A g \in Gates : KeepsAsk(g), NoKill',
             (\A c \in Callers : CountedCall(call[c]))', (\A r \in Replicas : JudgedPass(pass[r]))'
      PROVE  AskInv'
  <2>1. AskedInv' BY <1>1, <1>2, <1>3, AskedKept
  <2>2. QED BY <1>3, <2>1 DEF AskInv
<1>4. kill' = kill => NoKill' BY <1>1 DEF NoKill
<1>5. CASE \E r \in Replicas : /\ PassBegin(r) \/ PassStep(r) \/ NewLeader(r)
                               /\ ~KillStep(r) /\ ~KillClose(r) /\ ~OverBudget(r) /\ ~ExhaustRun(r)
  <2>1. PICK r \in Replicas : /\ PassBegin(r) \/ PassStep(r) \/ NewLeader(r)
                              /\ ~KillStep(r) /\ ~KillClose(r) /\ ~OverBudget(r) /\ ~ExhaustRun(r)
    BY <1>5
  <2>2. Steady /\ UNCHANGED call /\ (kill' = kill \/ NewLeader(r)) BY <1>2, <2>1, PassAsk DEF Steady
  <2>3. NoKill'
    <3>1. CASE kill' = kill BY <1>4, <3>1
    <3>2. CASE NewLeader(r)
      <4>1. kill' = [kill EXCEPT ![r] = IdleKill] BY <3>2 DEF NewLeader
      <4>2. IdleKill.pc = "idle" BY DEF IdleKill
      <4>3. kill \in [Killers -> KillType] BY <1>2 DEF TasksTyped, KillTyped
      <4>4. \A k \in Killers : kill'[k] = IdleKill \/ kill'[k] = kill[k] BY <4>1, <4>3
      <4>5. QED BY <1>1, <4>2, <4>4 DEF NoKill
    <3>3. QED BY <2>2, <3>1, <3>2
  <2>4. (\A c \in Callers : CountedCall(call[c]))' BY <1>1, <1>2, <2>2, CallsStay
  <2>5. PICK p : Goes(r, p) /\ JudgedPass(p)' BY <1>1, <2>1, <2>2, PassJudged DEF GoesJudged
  <2>6. (\A x \in Replicas : JudgedPass(pass[x]))' BY <1>1, <1>2, <2>2, <2>5, PassesMove
  <2>7. QED BY <1>3, <2>2, <2>3, <2>4, <2>6 DEF Steady
<1>6. CASE \E c \in Callers : CallStep(c) \/ CallStops(c)
  <2>1. PICK c \in Callers : CallStep(c) \/ CallStops(c) BY <1>6
  <2>2. UNCHANGED <<kind, pass, kill>>
    BY <2>1 DEF CallStep, ApproveRecord, ApproveDecide, ApproveMet, CallCheck, PluginAnswer,
                CallResolve, CallReopen, CallStops
  <2>3. Steady BY <1>1, <1>2, <2>1, <2>2, CallAsk DEF Steady
  <2>4. (\A x \in Callers : CountedCall(call[x]))' BY <1>1, <2>1, <2>3, StepCounted
  <2>5. (\A r \in Replicas : JudgedPass(pass[r]))' BY <1>1, <1>2, <2>2, <2>3, PassesStay
  <2>6. QED BY <1>3, <1>4, <2>2, <2>3, <2>4, <2>5 DEF Steady
<1>7. CASE \/ \E c \in Callers, g \in Gates : ApproveRead(c, g) \/ VerdictRead(c, g) \/ PluginRead(c, g)
           \/ \E t \in Steps, retry \in BOOLEAN : RerunRead(t, retry)
           \/ RerunStep \/ RerunReopen \/ RerunStops
           \/ \E s \in Work : Drive(s)
           \/ Settle
  <2>1. /\ \A g \in Gates : KeepsAsk(g)
        /\ UNCHANGED <<kind, pass, kill>>
        /\ \/ UNCHANGED call
           \/ \E c \in Callers, g \in Gates : ApproveRead(c, g) \/ VerdictRead(c, g) \/ PluginRead(c, g)
    BY <1>7, OthersAsk
  <2>2. Steady BY <1>2, <2>1 DEF Steady
  <2>3. (\A x \in Callers : CountedCall(call[x]))' BY <1>1, <1>2, <2>1, <2>2, CallsStay, ReadCounted
  <2>4. (\A r \in Replicas : JudgedPass(pass[r]))' BY <1>1, <1>2, <2>1, <2>2, PassesStay
  <2>5. QED BY <1>3, <1>4, <2>1, <2>3, <2>4
<1>8. CASE Tick
  <2>1. UNCHANGED <<kind, kill>> BY <1>8 DEF Tick
  <2>2. Steady BY <1>2, <1>8, <2>1, TickAsk DEF Steady
  <2>3. (\A c \in Callers : CountedCall(call[c]))' /\ (\A r \in Replicas : JudgedPass(pass[r]))'
    BY <1>1, <1>8, <2>2, TickCounted, TickJudged
  <2>4. QED BY <1>3, <1>4, <2>1, <2>2, <2>3 DEF Steady
<1>9. QED BY <1>5, <1>6, <1>7, <1>8 DEF Undisturbed

LEMMA InitAsk == Init => AskInv
<1> SUFFICES ASSUME Init PROVE AskInv OBVIOUS
<1>1. wait = [g \in Gates |-> NoWait] /\ seen = [g \in Gates |-> FirstEpisode] BY DEF Init
<1>2. FirstEpisode.by = {} /\ FirstEpisode.due = None BY DEF FirstEpisode
<1>3. AskedInv BY <1>1, <1>2 DEF AskedInv
<1>4. NoKill BY DEF Init, NoKill, IdleKill
<1>5. \A c \in Callers : CountedCall(call[c])
  <2>1. \A c \in Callers : call[c].pc = "idle" BY IdleQuiet DEF Init
  <2>2. QED BY <2>1 DEF CountedCall
<1>6. \A r \in Replicas : JudgedPass(pass[r])
  <2> TAKE r \in Replicas
  <2>1. pass[r] = IdlePass BY DEF Init
  <2>2. pass[r].pc = "idle" BY <2>1, IdleTyped
  <2>3. \A g \in Gates : pass[r].att[g].n = 0 /\ wait[g].n = 0 BY <1>1, <2>1 DEF IdlePass, NoWait
  <2>4. QED BY <2>2, <2>3 DEF JudgedPass
<1>7. QED BY <1>3, <1>4, <1>5, <1>6 DEF AskInv

\* A gate that passes is passed by a verdict of the leader's or of a call's.
LEMMA WhoPasses ==
  ASSUME TypeInv, Undisturbed, NEW g \in Gates, st[g] = "Pending", st'[g] = "Succeeded"
  PROVE  \/ \E r \in Replicas : PassResolve(r) /\ Resolve(Item(r), pass[r].passed)
                                /\ StillWaits(Item(r), Judged(r).n)
         \/ \E c \in Callers : CallResolve(c) /\ Resolve(call[c].g, call[c].passed)
<1>1. st \in Snapshot /\ g \in Steps /\ g \notin Work
  BY GateWaitsAssumption DEF TypeInv, RowsTyped, Steps
<1>2. ASSUME NEW s, NEW to, StepMoves(s, to), to # "Succeeded" \/ s # g PROVE FALSE
  <2>1. st'[g] = st[g] \/ (s = g /\ st'[g] = to) BY <1>1, <1>2 DEF StepMoves, Snapshot
  <2>2. QED BY <1>2, <2>1
<1>3. CASE \E r \in Replicas : /\ PassBegin(r) \/ PassStep(r) \/ NewLeader(r)
                               /\ ~KillStep(r) /\ ~KillClose(r) /\ ~OverBudget(r) /\ ~ExhaustRun(r)
  <2>1. PICK r \in Replicas : /\ PassBegin(r) \/ PassStep(r) \/ NewLeader(r)
                              /\ ~KillStep(r) /\ ~KillClose(r) /\ ~OverBudget(r) /\ ~ExhaustRun(r)
    BY <1>3
  <2>2. st' # st OBVIOUS
  <2>3. ~AdmitClaim(r)
    <3> SUFFICES ASSUME AdmitClaim(r) PROVE FALSE OBVIOUS
    <3>1. st' = [s \in Steps |-> IF st[s] = "Ready" THEN "Running" ELSE st[s]] BY DEF AdmitClaim
    <3>2. QED BY <1>1, <3>1
  <2>4. ~SpareSkip(r) BY <1>2, <2>2 DEF SpareSkip
  <2>5. ~SpareRevive(r) BY <1>2, <2>2 DEF SpareRevive
  <2>6. ~AdmitPromote(r) BY <1>2, <2>2 DEF AdmitPromote
  <2>7. ~AdmitSkip(r) BY <1>2, <2>2 DEF AdmitSkip
  <2>8. PassResolve(r)
    BY <2>1, <2>2, <2>3, <2>4, <2>5, <2>6, <2>7
    DEF PassStep, PassBegin, NewLeader, VisitSupersede, VisitMint, StoreInputs, InputsFail, Judge,
        SpareRead, StaySuspended, Resume, StepsRead, SuspendDecide, SuspendCommit, FencedOff
  <2>9. QED BY <2>2, <2>8 DEF PassResolve
<1>4. CASE \E c \in Callers : CallStep(c) \/ CallStops(c)
  <2>1. PICK c \in Callers : CallStep(c) \/ CallStops(c) BY <1>4
  <2>2. st' # st OBVIOUS
  <2>3. CallResolve(c)
    BY <2>1, <2>2 DEF CallStep, CallStops, ApproveRecord, ApproveDecide, ApproveMet, CallCheck,
                      PluginAnswer, CallReopen
  <2>4. QED BY <2>2, <2>3 DEF CallResolve
<1>5. CASE \E s \in Work : Drive(s)
  <2>1. PICK s \in Work, to \in {"Succeeded", "Failed"} : StepMoves(s, to) BY <1>5 DEF Drive
  <2>2. QED BY <1>1, <1>2, <2>1
<1>6. CASE RerunStep
  <2>1. st' = st \/ StepMoves(First(rerun.todo), "Pending") BY <1>6 DEF RerunStep, Rearm
  <2>2. QED BY <1>2, <2>1
<1>7. CASE \/ \E c \in Callers, h \in Gates : ApproveRead(c, h) \/ VerdictRead(c, h) \/ PluginRead(c, h)
           \/ \E t \in Steps, retry \in BOOLEAN : RerunRead(t, retry)
           \/ RerunReopen \/ RerunStops \/ Settle \/ Tick
  <2>1. st' = st
    BY <1>7 DEF ApproveRead, VerdictRead, PluginRead, Starts, RerunRead, RerunReopen, RerunStops,
                Settle, Tick
  <2>2. QED BY <2>1
<1>8. QED BY <1>3, <1>4, <1>5, <1>6, <1>7 DEF Undisturbed

\* What a verdict moves, and to what.
LEMMA VerdictMoves ==
  ASSUME st \in Snapshot, NEW g \in Gates, NEW h, NEW b \in BOOLEAN, Resolve(h, b),
         st[g] = "Pending", st'[g] = "Succeeded"
  PROVE  h = g /\ b
<1>1. st' = [st EXCEPT ![h] = IF b THEN "Succeeded" ELSE "Failed"] BY DEF Resolve, StepMoves
<1>2. g \in Steps BY DEF Steps
<1>3. QED BY <1>1, <1>2 DEF Snapshot

LEMMA PassedOnItsOwn ==
  ASSUME TypeInv, AskInv, Undisturbed, NEW g \in Gates,
         kind[g] = "approval", st[g] = "Pending", st'[g] = "Succeeded"
  PROVE  \/ Cardinality(wait[g].by) >= Quorum
         \/ wait[g].stale
         \/ \E c \in Callers : CallAt(c, "resolve") /\ call[c].g = g /\ call[c].ep # seen[g].ep
<1>1. st \in Snapshot /\ RowsTyped BY DEF TypeInv, RowsTyped
<1>2. CASE \E r \in Replicas : PassResolve(r) /\ Resolve(Item(r), pass[r].passed)
                               /\ StillWaits(Item(r), Judged(r).n)
  <2>1. PICK r \in Replicas : PassResolve(r) /\ Resolve(Item(r), pass[r].passed)
                              /\ StillWaits(Item(r), Judged(r).n)
    BY <1>2
  <2>2. pass[r].passed \in BOOLEAN BY DEF TypeInv, TasksTyped, PassTyped, PassType
  <2>3. Item(r) = g /\ pass[r].passed BY <1>1, <2>1, <2>2, VerdictMoves
  <2>4. /\ wait[g].open /\ wait[g].n = pass[r].att[g].n /\ pass[r].pc = "resolve"
        /\ First(pass[r].todo) = g
    BY <2>1, <2>3 DEF StillWaits, Judged, PassResolve, At, Item
  <2>5. EnoughOf(wait[g]) BY <2>3, <2>4 DEF AskInv, JudgedPass
  <2>6. QED BY <2>5 DEF EnoughOf
<1>3. CASE \E c \in Callers : CallResolve(c) /\ Resolve(call[c].g, call[c].passed)
  <2>1. PICK c \in Callers : CallResolve(c) /\ Resolve(call[c].g, call[c].passed) BY <1>3
  <2>2. call[c].passed \in BOOLEAN BY DEF TypeInv, TasksTyped, CallTyped, CallType
  <2>3. call[c].g = g /\ call[c].passed BY <1>1, <2>1, <2>2, VerdictMoves
  <2>4. call[c].pc = "resolve" BY <2>1 DEF CallResolve, CallAt
  <2>5. CASE call[c].ep # seen[g].ep BY <2>3, <2>4, <2>5 DEF CallAt
  <2>6. CASE call[c].ep = seen[g].ep
    <3>1. Met(g) BY <2>3, <2>4, <2>6 DEF AskInv, CountedCall
    <3>2. seen[g].by \subseteq wait[g].by BY DEF AskInv, AskedInv, Asking
    <3>3. wait[g].by \subseteq Callers BY <1>1, AskTyped
    <3>4. QED BY <3>1, <3>2, <3>3, MoreIsEnough DEF Met
  <2>7. QED BY <2>5, <2>6
<1>4. QED BY <1>2, <1>3, WhoPasses

\* In a Run that is not cancelled an approval gate passes on the approvals of
\* its current wait, whatever passes, calls, reruns and leader changes do in
\* between (`gate_approvers`, `gate_verdict`, `resolve_gate_wait`).
THEOREM ApprovalsOfTheWait == ASSUME Uncancelled PROVE Spec => ApprovalsOfThisWait
<1>1. Init => GateInv /\ AskInv BY InitGood, InitAsk
<1>2. ASSUME GateInv, AskInv, [Next]_vars PROVE GateInv' /\ AskInv'
  <2>1. GateInv' BY <1>2, StepGood
  <2>2. CASE Next
    <3>1. TypeInv /\ TypeInv' /\ NoKill BY <1>2, <2>1 DEF GateInv, AskInv
    <3>2. Undisturbed BY <2>2, <3>1, NextUndisturbed
    <3>3. QED BY <1>2, <2>1, <3>1, <3>2, AskStep
  <2>3. CASE UNCHANGED vars
    <3>1. UNCHANGED <<kind, st, wait, seen, call, pass, kill>> BY <2>3 DEF vars
    <3>2. AskInv'
      BY <1>2, <3>1 DEF AskInv, AskedInv, Asking, Met, NoKill, CountedCall, JudgedPass, EnoughOf
    <3>3. QED BY <2>1, <3>2
  <2>4. QED BY <1>2, <2>2, <2>3
<1>3. ASSUME GateInv, AskInv, [Next]_vars
      PROVE  [\A g \in Gates :
               (kind[g] = "approval" /\ st[g] = "Pending" /\ st'[g] = "Succeeded") =>
                 \/ Cardinality(wait[g].by) >= Quorum
                 \/ wait[g].stale
                 \/ \E c \in Callers : CallAt(c, "resolve") /\ call[c].g = g /\ call[c].ep # seen[g].ep]_vars
  <2>1. CASE UNCHANGED vars BY <2>1
  <2>2. CASE Next
    <3>1. TypeInv /\ NoKill BY <1>3 DEF GateInv, AskInv
    <3>2. Undisturbed BY <2>2, <3>1, NextUndisturbed
    <3>3. QED BY <1>3, <3>1, <3>2, PassedOnItsOwn
  <2>3. QED BY <1>3, <2>1, <2>2
<1>4. QED BY <1>1, <1>2, <1>3, PTL DEF Spec, ApprovalsOfThisWait

=============================================================================
