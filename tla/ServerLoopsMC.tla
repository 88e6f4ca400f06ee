--------------------------- MODULE ServerLoopsMC ----------------------------
(***************************************************************************)
(* Three loops of the server that do not meet, each in the behaviours that *)
(* follow it: the scheduler's lease with two replicas, either of which may *)
(* stop or die; the drains of a Run's messages with two replicas; and the  *)
(* reconciliation of a Run's shared service.  The components at rest are   *)
(* as they are before the first step, and the service's Run has ended.     *)
(***************************************************************************)
EXTENDS Leadership, StatusPosts, Services

CONSTANTS r1, r2, d1, d2

VARIABLE which

loopVars == <<vars, postsVars, svcVars, which>>

Follows(loop) == which = loop

LoopsInit ==
  /\ which \in {"lease", "posts", "services"}
  /\ Init /\ PostsInit /\ (~Follows("posts") => kind = "status")
  /\ \/ Follows("services") /\ ServicesInit
     \/ /\ ~Follows("services") /\ live = FALSE /\ user = "Succeeded"
        /\ svc = [t \in Takes |-> NoRow] /\ unit = [t \in Takes |-> "none"]
        /\ intents = {} /\ tick = IdleTick
        /\ api = [cancel |-> 0, rerun |-> FALSE]
        /\ spent = [cancels |-> 0, turns |-> 0]

LoopsNext ==
  \/ Follows("lease") /\ Next /\ UNCHANGED <<postsVars, svcVars, which>>
  \/ Follows("posts") /\ PostsNext /\ UNCHANGED <<vars, svcVars, which>>
  \/ Follows("services") /\ ServicesNext /\ UNCHANGED <<vars, postsVars, which>>

\* The fairness of each component (FairSpec, PostsFairness, ServicesFairness),
\* owed to the one that is followed.
LoopsFairness ==
  /\ \A r \in Replicas : /\ WF_vars(Follows("lease") /\ Step(r))
                         /\ WF_vars(Follows("lease") /\ TxBound(r))
  /\ WF_vars(Follows("lease") /\ Expire)
  /\ \A d \in Drainers : /\ WF_postsVars(Follows("posts") /\ DrainStep(d))
                         /\ WF_postsVars(Follows("posts") /\ Claim(d))
  /\ \A w \in Words : WF_postsVars(Follows("posts") /\ ClaimLapses(w))
  /\ WF_svcVars(Follows("services") /\ (TickBegins \/ Work))
  /\ WF_svcVars(Follows("services") /\ (CancelCommits \/ RerunRearms))
  /\ \A t \in Takes : WF_svcVars(Follows("services") /\ BudgetPasses(t))

LoopsSpec == LoopsInit /\ [][LoopsNext]_loopVars /\ LoopsFairness

\* The type of the drains' and of the services' state, with what must hold of a
\* message that is given up (`dead_letter_outbox`), of a follow-up (a verdict's
\* alone) and of a service that is ready (`set_run_service` with its handle).
LoopsTypeOK == PostsTypeOK /\ ServicesTypeOK
=============================================================================
