-------------------------- MODULE DepotSchedulesMC --------------------------
(***************************************************************************)
(* Two components that do not meet, each in the behaviours that follow it: *)
(* two drains that publish the same blob through one Depot replica, and a  *)
(* schedule that the second commit drops, under two cron leaders.          *)
(***************************************************************************)
EXTENDS Depot, Schedules, TLC

CONSTANTS f1, f2, d1, x, c1, s1, s2

VARIABLE which

SameBlobs == [f \in Fences |-> Blobs]
OneMinute == [c \in Crons |-> {1}]
ThenDropped == <<{c1}, {}>>
SameFences == Permutations(Fences)

bothVars == <<depotVars, schedVars, which>>

BothInit == which \in {"depot", "schedules"} /\ DepotInit /\ SchedulesInit

BothNext ==
  \/ which = "depot" /\ DepotNext /\ UNCHANGED <<schedVars, which>>
  \/ which = "schedules" /\ SchedulesNext /\ UNCHANGED <<depotVars, which>>

BothSpec == BothInit /\ [][BothNext]_bothVars

\* The type of each component's state, with what must hold of a committed pack
\* row (`expire_one_fence`) and of a slot that has a Run (`claim_fire`).
BothTypeOK == DepotTypeOK /\ SchedulesTypeOK
=============================================================================
