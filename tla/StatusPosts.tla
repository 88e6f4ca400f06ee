---------------------------- MODULE StatusPosts ----------------------------
(***************************************************************************)
(* What the world outside hears of a Run: each of its transitions leaves a *)
(* `run_status_changed` message, and each verdict a `run_finished` one, in *)
(* the commit that makes it.  Every replica drains both kinds, the first   *)
(* into the forge's commit status, the second into follow-up Runs.  The    *)
(* two do not meet: a behaviour here follows one kind.  Delivery is at     *)
(* least once, so an old message may be delivered after a newer one.       *)
(***************************************************************************)
EXTENDS Naturals

CONSTANTS
  Drainers,       \* one kind's drain loops, of every replica
  Unclaimed, Lapsed,
  MaxGen,         \* bound: reopen generations
  MaxDeliveries,  \* MAX_DELIVERY_ATTEMPTS
  MaxUpsets       \* bound: failed posts, drains that stop, claims that lapse under a drain at work

ASSUME PostsAssumption ==
  /\ Unclaimed # Lapsed /\ {Unclaimed, Lapsed} \cap Drainers = {}
  /\ MaxGen \in Nat /\ MaxDeliveries \in Nat \ {0} /\ MaxUpsets \in Nat

VARIABLES
  kind,     \* the kind of message followed
  word,     \* the Run's reopen generation and status
  outbox,   \* each word's message: not written, queued, done or dead; its claim and failures
  drain,    \* where each drain is
  forge,    \* the last word delivered: the commit status the forge shows
  took,     \* every word delivered: posted, or its follow-up Run created
  upsets

postsVars == <<kind, word, outbox, drain, forge, took, upsets>>

Words == [gen : 0 .. MaxGen, to : {"Running", "Verdict"}]   \* a verdict: Succeeded or Failed
Verdicts == {w \in Words : w.to = "Verdict"}
NoWord == [gen |-> 0, to |-> "none"]

\* A later word of the Run than another.
Newer(v, w) == v.gen > w.gen \/ (v.gen = w.gen /\ v.to = "Verdict" /\ w.to = "Running")

IdleDrain == [pc |-> "idle", msg |-> NoWord, asof |-> NoWord]

\* The type of the state; a message is given up only after its last try, and
\* nothing but a verdict starts a follow-up.
PostsTypeOK ==
  /\ kind \in {"status", "finished"} /\ word \in Words /\ upsets \in 0 .. MaxUpsets
  /\ \A w \in Words :
       /\ outbox[w].state \in {"none", "queued", "done", "dead"}
       /\ outbox[w].by \in Drainers \cup {Unclaimed, Lapsed}
       /\ outbox[w].state = "dead" => outbox[w].tries >= MaxDeliveries
  /\ \A d \in Drainers : drain[d].pc \in {"idle", "claimed", "status", "post", "mark", "fail", "dead"}
  /\ took \subseteq (IF kind = "status" THEN Words ELSE Verdicts) /\ forge \in took \cup {NoWord}

\* Mutant: a Run that starts is news to its followers too.
WrittenAlways(w) == {w}

\* The messages of this kind that a transition into `w` writes.
Written(w) == IF kind = "status" \/ w \in Verdicts THEN {w} ELSE {}

PostsInit ==
  /\ kind \in {"status", "finished"}
  /\ word = [gen |-> 0, to |-> "Running"]
  /\ outbox = [w \in Words |-> [state |-> IF w \in Written(word) THEN "queued" ELSE "none",
                                by |-> Unclaimed, tries |-> 0]]
  /\ drain = [d \in Drainers |-> IdleDrain]
  /\ forge = NoWord /\ took = {} /\ upsets = 0

-----------------------------------------------------------------------------
(* commit_run_transition_after: the transition and its message, under a    *)
(* key of its generation and status.                                       *)

Becomes(w) ==
  /\ word' = w
  /\ outbox' = [v \in Words |-> IF v \in Written(w) /\ outbox[v].state = "none"
                                THEN [outbox[v] EXCEPT !.state = "queued"] ELSE outbox[v]]
  /\ UNCHANGED <<kind, drain, forge, took, upsets>>

RunSettled == word.to = "Running" /\ Becomes([word EXCEPT !.to = "Verdict"])

\* A rerun opens the next generation.
RunReopened == word.to = "Verdict" /\ word.gen < MaxGen
               /\ Becomes([gen |-> word.gen + 1, to |-> "Running"])

-----------------------------------------------------------------------------
(* claim_outbox, drain_forge_statuses, drain_followups.                    *)

Upset == upsets < MaxUpsets /\ upsets' = upsets + 1
InDrain(d, pc) == drain[d].pc = pc
DrainTo(d, pc) == drain' = [drain EXCEPT ![d].pc = pc]
EndDrain(d) == drain' = [drain EXCEPT ![d] = IdleDrain]

\* Mutant: the rows of a drain that stopped are never handed out again.
VisibleOnce(w) == outbox[w].state = "queued" /\ outbox[w].by = Unclaimed

\* Undispatched, and no claim on it that still holds.
Visible(w) == outbox[w].state = "queued" /\ outbox[w].by \in {Unclaimed, Lapsed}

\* The oldest of them is claimed: a batch is handled in that order, one message
\* at a time.
Claim(d) ==
  \E w \in Words :
    /\ InDrain(d, "idle") /\ Visible(w) /\ \A v \in Words : Visible(v) => ~Newer(w, v)
    /\ outbox' = [outbox EXCEPT ![w].by = d]
    /\ drain' = [drain EXCEPT ![d] = [pc |-> "claimed", msg |-> w, asof |-> NoWord]]
    /\ UNCHANGED <<kind, word, forge, took, upsets>>

\* A claim's visibility timeout passes, its drain still at work or gone.
ClaimLapses(w) ==
  /\ outbox[w].state = "queued" /\ outbox[w].by \in Drainers
  /\ outbox' = [outbox EXCEPT ![w].by = Lapsed]
  /\ IF drain[outbox[w].by].msg = w THEN Upset ELSE UNCHANGED upsets
  /\ UNCHANGED <<kind, word, drain, forge, took>>

\* `generation < current`: the Run was reopened since.
OfOlderGeneration(w) == w.gen < word.gen

\* `status_post_superseded` and `upstream_event`, the first read.
ReadGeneration(d) ==
  LET w == drain[d].msg IN
  /\ InDrain(d, "claimed")
  /\ drain' = [drain EXCEPT ![d].asof = word,
                            ![d].pc = IF OfOlderGeneration(w) THEN "mark"
                                      ELSE IF w.to = "Running" THEN "status" ELSE "post"]
  /\ UNCHANGED <<kind, word, outbox, forge, took, upsets>>

\* Mutant: a settled Run's verdict counts only once its post is dispatched.
SettledAndPosted == word.to = "Verdict" /\ outbox[word].state = "done"

\* The second read for a non-terminal post: the Run has settled.
HasSettled == word.to = "Verdict"

ReadStatus(d) ==
  /\ InDrain(d, "status")
  /\ drain' = [drain EXCEPT ![d].asof = word, ![d].pc = IF HasSettled THEN "mark" ELSE "post"]
  /\ UNCHANGED <<kind, word, outbox, forge, took, upsets>>

\* `set_status`; or the follow-up's Run, whose id is derived from the verdict.
Deliver(w) == forge' = w /\ took' = took \cup {w}

\* The call works, or reports a failure, having worked or not.
Post(d) ==
  /\ InDrain(d, "post")
  /\ \/ Deliver(drain[d].msg) /\ DrainTo(d, "mark") /\ UNCHANGED upsets
     \/ /\ Deliver(drain[d].msg) \/ UNCHANGED <<forge, took>>
        /\ DrainTo(d, "fail") /\ Upset
  /\ UNCHANGED <<kind, word, outbox>>

\* A row dispatched or dead-lettered, whichever came first; its claim no longer
\* matters.
Retired(m, how) == IF m.state = "queued" THEN [m EXCEPT !.state = how, !.by = Unclaimed] ELSE m

\* `mark_dispatched`.
MarkDispatched(d) ==
  /\ InDrain(d, "mark")
  /\ outbox' = [outbox EXCEPT ![drain[d].msg] = Retired(@, "done")] /\ EndDrain(d)
  /\ UNCHANGED <<kind, word, forge, took, upsets>>

Poison(n) == n >= MaxDeliveries

\* `record_outbox_failure`.
RecordFailure(d) ==
  LET w == drain[d].msg IN
  /\ InDrain(d, "fail")
  /\ outbox' = [outbox EXCEPT ![w].tries = @ + 1]
  /\ IF Poison(outbox[w].tries + 1) THEN DrainTo(d, "dead") ELSE EndDrain(d)
  /\ UNCHANGED <<kind, word, forge, took, upsets>>

\* `dead_letter_outbox`.
DeadLetter(d) ==
  /\ InDrain(d, "dead")
  /\ outbox' = [outbox EXCEPT ![drain[d].msg] = Retired(@, "dead")] /\ EndDrain(d)
  /\ UNCHANGED <<kind, word, forge, took, upsets>>

\* A drain ends in the middle: the replica stops, or a store call fails.
DrainAborts(d) ==
  /\ ~InDrain(d, "idle") /\ Upset /\ EndDrain(d)
  /\ UNCHANGED <<kind, word, outbox, forge, took>>

DrainStep(d) == \/ ReadGeneration(d) \/ ReadStatus(d) \/ Post(d)
                \/ MarkDispatched(d) \/ RecordFailure(d) \/ DeadLetter(d)

PostsNext ==
  \/ RunSettled \/ RunReopened
  \/ \E w \in Words : ClaimLapses(w)
  \/ \E d \in Drainers : Claim(d) \/ DrainStep(d) \/ DrainAborts(d)

\* Every replica keeps draining, and a claim lapses in time.
PostsFairness ==
  /\ \A d \in Drainers : WF_postsVars(DrainStep(d)) /\ WF_postsVars(Claim(d))
  /\ \A w \in Words : WF_postsVars(ClaimLapses(w))

PostsSpec == PostsInit /\ [][PostsNext]_postsVars /\ PostsFairness

-----------------------------------------------------------------------------
(* Properties.                                                             *)

\* A post that is about to land over a newer word was let through before the
\* Run had that newer word, or shows the state a rerun had brought the Run back
\* to: a redelivery, however late, is dropped once the newer transition has
\* been committed (`status_post_superseded`, `upstream_event`).
OldWordsAreDropped ==
  \A d \in Drainers : InDrain(d, "post") =>
    \A w \in took : Newer(w, drain[d].msg) =>
                      \/ Newer(w, drain[d].asof)
                      \/ drain[d].asof.to = "Running" /\ drain[d].msg.to = "Running"

\* Every verdict reaches the forge and its follow-ups, is given up after
\* MAX_DELIVERY_ATTEMPTS, or is overtaken by a rerun, whichever drains stop.
VerdictDelivered ==
  \A w \in Verdicts : outbox[w].state = "queued" ~>
                        (w \in took \/ outbox[w].state = "dead" \/ word.gen > w.gen)

=============================================================================
