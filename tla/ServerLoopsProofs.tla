------------------------- MODULE ServerLoopsProofs --------------------------
(***************************************************************************)
(* Proofs about the drains of a Run's messages (StatusPosts) and the       *)
(* reconciliation of its shared service (Services), for any number of      *)
(* replicas, reopen generations, Takes, retries and failures, and of the   *)
(* server that follows them (ServerLoopsMC): type correctness, that what   *)
(* the world hears is never ahead of the Run and a verdict only the        *)
(* current one, and that a Step never starts beside an earlier Take's      *)
(* instance.                                                               *)
(***************************************************************************)
EXTENDS ServerLoopsMC, TLAPS

-----------------------------------------------------------------------------
(* The drains.                                                             *)

\* The words whose message this kind of drain follows.
Heard == IF kind = "status" THEN Words ELSE Verdicts

DrainPCs == {"idle", "claimed", "status", "post", "mark", "fail", "dead"}
Messages == [state : {"none", "queued", "done", "dead"}, by : Drainers \cup {Unclaimed, Lapsed}, tries : Nat]
Drains == [pc : DrainPCs, msg : Words \cup {NoWord}, asof : Words \cup {NoWord}]

\* The type of the drains' state: no message is of a word that is not heard of,
\* and one that is about to be given up has had its last try.
PostsType ==
  /\ kind \in {"status", "finished"} /\ word \in Words /\ upsets \in 0 .. MaxUpsets
  /\ outbox \in [Words -> Messages] /\ drain \in [Drainers -> Drains]
  /\ \A w \in Words : outbox[w].state # "none" => w \in Heard
  /\ \A w \in Words : outbox[w].state = "dead" => outbox[w].tries >= MaxDeliveries
  /\ \A d \in Drainers : drain[d].pc # "idle" => drain[d].msg \in Words /\ outbox[drain[d].msg].state # "none"
  /\ \A d \in Drainers : drain[d].pc = "dead" => outbox[drain[d].msg].tries >= MaxDeliveries
  /\ took \subseteq Heard /\ forge \in took \cup {NoWord}

\* Nothing written, delivered or read is ahead of the Run.
Behind ==
  /\ \A w \in Words : outbox[w].state # "none" => ~Newer(w, word)
  /\ \A w \in took : outbox[w].state # "none"
  /\ \A d \in Drainers : drain[d].asof # NoWord => drain[d].asof \in Words /\ ~Newer(drain[d].asof, word)

\* A verdict that is let through was the Run's word when it was checked, and
\* any other word was let through in a Run that ran, in its generation or a
\* later one.
Checked(p) ==
  /\ p.pc = "status" => p.msg.to = "Running"
  /\ p.pc = "post" => /\ p.asof \in Words
                      /\ p.msg.to = "Verdict" => p.asof = p.msg
                      /\ p.msg.to = "Running" => p.asof.to = "Running" /\ p.asof.gen >= p.msg.gen

LetThrough == \A d \in Drainers : Checked(drain[d])

PostsInv == PostsType /\ Behind /\ LetThrough

\* A drain at rest has the type of a drain.
LEMMA IdleIsDrain == IdleDrain \in Drains
  BY DEF IdleDrain, Drains, DrainPCs

\* The Run's word is never overtaken by itself, and the words are in order.
LEMMA NewerFacts ==
  /\ \A w \in Words : ~Newer(w, w)
  /\ \A u, v, w \in Words : Newer(u, v) /\ ~Newer(w, v) => Newer(u, w)
  BY DEF Newer, Words

\* A drain that goes on to a state of its own leaves the others'.
LEMMA DrainGoes ==
  ASSUME drain \in [Drainers -> Drains], NEW d \in Drainers, NEW p, drain' = [drain EXCEPT ![d] = p]
  PROVE  drain'[d] = p /\ \A e \in Drainers : e # d => drain'[e] = drain[e]
  OBVIOUS

\* The Run's transitions: nothing that was written, delivered or read gets
\* ahead of it.
LEMMA BecomesKeeps ==
  ASSUME PostsInv, NEW w \in Words, Becomes(w), Newer(w, word)
  PROVE  PostsInv'
<1>1. /\ word' = w /\ UNCHANGED <<kind, drain, forge, took, upsets>>
      /\ \A v \in Words : outbox'[v] = IF v \in Written(w) /\ outbox[v].state = "none"
                                       THEN [outbox[v] EXCEPT !.state = "queued"] ELSE outbox[v]
  BY DEF Becomes
<1>2. \A v \in Words : outbox[v] \in Messages BY DEF PostsInv, PostsType
<1>3. Written(w) \subseteq {w} /\ Written(w) \subseteq Heard /\ Heard' = Heard
  BY <1>1 DEF Written, Heard
<1>4. \A v \in Words : /\ outbox'[v] \in Messages /\ outbox'[v].tries = outbox[v].tries
                       /\ outbox'[v].state = outbox[v].state
                          \/ (v = w /\ outbox[v].state = "none" /\ outbox'[v].state = "queued" /\ v \in Heard)
  BY <1>1, <1>2, <1>3 DEF Messages
<1>5. outbox' \in [Words -> Messages] BY <1>4 DEF Becomes
<1>6. PostsType' BY <1>1, <1>3, <1>4, <1>5 DEF PostsInv, PostsType
<1>7. word \in Words /\ word' \in Words BY <1>1 DEF PostsInv, PostsType
<1>8. \A v \in Words : ~Newer(v, word) => ~Newer(v, word') BY <1>1, <1>7 DEF Newer, Words
<1>9. Behind'
  BY <1>1, <1>4, <1>7, <1>8, NewerFacts DEF PostsInv, Behind, PostsType, Heard, Verdicts
<1>10. LetThrough' BY <1>1 DEF PostsInv, LetThrough, Checked
<1>11. QED BY <1>6, <1>9, <1>10 DEF PostsInv

\* A step that leaves the Run and what was delivered alone, keeps every message
\* that was written, and takes one drain on.
LEMMA DrainKeeps ==
  ASSUME PostsInv, NEW d \in Drainers, NEW p \in Drains, drain' = [drain EXCEPT ![d] = p],
         UNCHANGED <<kind, word, forge, took>>, upsets' \in 0 .. MaxUpsets, outbox' \in [Words -> Messages],
         \A w \in Words : /\ (outbox'[w].state = "none") <=> (outbox[w].state = "none")
                          /\ outbox'[w].tries >= outbox[w].tries
                          /\ outbox'[w].state = "dead" => outbox'[w].tries >= MaxDeliveries,
         p.pc # "idle" => p.msg \in Words /\ outbox[p.msg].state # "none",
         p.pc = "dead" => outbox'[p.msg].tries >= MaxDeliveries,
         p.asof # NoWord => p.asof \in Words /\ ~Newer(p.asof, word),
         Checked(p)
  PROVE  PostsInv'
<1>1. drain'[d] = p /\ \A e \in Drainers : e # d => drain'[e] = drain[e]
  BY DrainGoes DEF PostsInv, PostsType
<1>2. \A w \in Words : outbox[w].tries \in Nat /\ outbox'[w].tries \in Nat
  BY DEF PostsInv, PostsType, Messages
<1>3. Heard' = Heard /\ Heard \subseteq Words BY DEF Heard, Verdicts
<1>4. drain' \in [Drainers -> Drains] BY DEF PostsInv, PostsType
<1>5. \A e \in Drainers : drain'[e].pc = "dead" => outbox'[drain'[e].msg].tries >= MaxDeliveries
  BY <1>1, <1>2, PostsAssumption DEF PostsInv, PostsType
<1>6. PostsType' BY <1>1, <1>3, <1>4, <1>5 DEF PostsInv, PostsType
<1>7. Behind' BY <1>1, <1>3 DEF PostsInv, PostsType, Behind
<1>8. LetThrough' BY <1>1 DEF PostsInv, LetThrough, Checked
<1>9. QED BY <1>6, <1>7, <1>8 DEF PostsInv

\* Before the first step.
LEMMA PostsStart == PostsInit => PostsInv
<1> SUFFICES ASSUME PostsInit PROVE PostsInv OBVIOUS
<1>1. word \in Words /\ word = [gen |-> 0, to |-> "Running"] BY PostsAssumption DEF PostsInit, Words
<1>2. \A w \in Words : /\ outbox[w] \in Messages /\ outbox[w].state \in {"none", "queued"}
                       /\ outbox[w].state # "none" => w \in Written(word)
  BY DEF PostsInit, Messages
<1>3. Written(word) \subseteq Heard /\ Written(word) \subseteq {word} BY <1>1 DEF Written, Heard
<1>4. outbox \in [Words -> Messages] BY <1>2 DEF PostsInit
<1>5. drain \in [Drainers -> Drains] /\ \A d \in Drainers : drain[d] = IdleDrain
  BY IdleIsDrain DEF PostsInit
<1>6. PostsType BY <1>1, <1>2, <1>3, <1>4, <1>5, PostsAssumption DEF PostsInit, PostsType, IdleDrain
<1>7. Behind BY <1>1, <1>2, <1>3, <1>5, NewerFacts DEF PostsInit, Behind, IdleDrain
<1>8. LetThrough BY <1>5 DEF LetThrough, Checked, IdleDrain
<1>9. QED BY <1>6, <1>7, <1>8 DEF PostsInv

\* Every step of the Run and of the drains.
LEMMA PostsStep == PostsInv /\ [PostsNext]_postsVars => PostsInv'
<1> SUFFICES ASSUME PostsInv, [PostsNext]_postsVars PROVE PostsInv' OBVIOUS
<1>a. /\ word \in Words /\ upsets \in 0 .. MaxUpsets /\ outbox \in [Words -> Messages]
      /\ drain \in [Drainers -> Drains]
      /\ \A d \in Drainers : drain[d] \in Drains
      /\ \A d \in Drainers : drain[d].pc # "idle" =>
                               drain[d].msg \in Words /\ outbox[drain[d].msg].state # "none"
  BY DEF PostsInv, PostsType
<1>b. \A w \in Words : outbox[w] \in Messages /\ outbox[w].tries \in Nat
                       /\ (outbox[w].state = "dead" => outbox[w].tries >= MaxDeliveries)
  BY DEF PostsInv, PostsType, Messages
<1>c. IdleDrain \in Drains /\ IdleDrain.pc = "idle" /\ IdleDrain.asof = NoWord /\ Checked(IdleDrain)
  BY IdleIsDrain DEF IdleDrain, Checked
<1>e. \A w \in Words : outbox[w].tries >= outbox[w].tries BY <1>b
<1>d. \A d \in Drainers : drain[d].asof # NoWord => drain[d].asof \in Words /\ ~Newer(drain[d].asof, word)
  BY DEF PostsInv, Behind
<1>u. ASSUME Upset PROVE upsets' \in 0 .. MaxUpsets BY <1>u, <1>a, PostsAssumption DEF Upset
<1>1. CASE RunSettled
  <2> DEFINE w == [word EXCEPT !.to = "Verdict"]
  <2>1. w \in Words /\ Newer(w, word) BY <1>1, <1>a DEF RunSettled, Words, Newer
  <2>2. QED BY <1>1, <2>1, BecomesKeeps DEF RunSettled
<1>2. CASE RunReopened
  <2> DEFINE w == [gen |-> word.gen + 1, to |-> "Running"]
  <2>1. w \in Words /\ Newer(w, word) BY <1>2, <1>a, PostsAssumption DEF RunReopened, Words, Newer
  <2>2. QED BY <1>2, <2>1, BecomesKeeps DEF RunReopened
<1>3. ASSUME NEW w \in Words, ClaimLapses(w) PROVE PostsInv'
  <2>1. outbox' = [outbox EXCEPT ![w].by = Lapsed] /\ UNCHANGED <<kind, word, drain, forge, took>>
    BY <1>3 DEF ClaimLapses
  <2>2. /\ outbox' \in [Words -> Messages]
        /\ \A v \in Words : outbox'[v].state = outbox[v].state /\ outbox'[v].tries = outbox[v].tries
    BY <2>1, <1>a, <1>b DEF Messages
  <2>3. upsets' \in 0 .. MaxUpsets BY <1>3, <1>a, <1>u DEF ClaimLapses
  <2>4. PostsType' BY <2>1, <2>2, <2>3, <1>a DEF PostsInv, PostsType, Heard
  <2>5. Heard \subseteq Words BY DEF Heard, Verdicts
  <2>6. Behind' BY <2>1, <2>2, <2>5 DEF PostsInv, PostsType, Behind
  <2>7. LetThrough' BY <2>1 DEF PostsInv, LetThrough, Checked
  <2>8. QED BY <2>4, <2>6, <2>7 DEF PostsInv
<1>4. ASSUME NEW d \in Drainers, Claim(d) PROVE PostsInv'
  <2>1. PICK w \in Words :
          /\ Visible(w) /\ outbox' = [outbox EXCEPT ![w].by = d]
          /\ drain' = [drain EXCEPT ![d] = [pc |-> "claimed", msg |-> w, asof |-> NoWord]]
          /\ UNCHANGED <<kind, word, forge, took, upsets>>
    BY <1>4 DEF Claim
  <2> DEFINE p == [pc |-> "claimed", msg |-> w, asof |-> NoWord]
  <2>2. p \in Drains /\ p.pc = "claimed" /\ p.msg = w /\ p.asof = NoWord BY DEF Drains, DrainPCs
  <2>3. /\ outbox' \in [Words -> Messages] /\ outbox[w].state # "none"
        /\ \A v \in Words : /\ outbox'[v].state = outbox[v].state /\ outbox'[v].tries >= outbox[v].tries
                            /\ outbox'[v].state = "dead" => outbox'[v].tries >= MaxDeliveries
    BY <2>1, <1>a, <1>b DEF Messages, Visible
  <2>4. drain' = [drain EXCEPT ![d] = p] /\ UNCHANGED <<kind, word, forge, took>> BY <2>1
  <2>5. upsets' \in 0 .. MaxUpsets BY <2>1, <1>a
  <2>6. Checked(p) BY DEF Checked
  <2> HIDE DEF p
  <2>7. QED BY <2>2, <2>3, <2>4, <2>5, <2>6, DrainKeeps
<1>5. ASSUME NEW d \in Drainers, ReadGeneration(d) PROVE PostsInv'
  <2> DEFINE w == drain[d].msg
             p == [drain[d] EXCEPT !.asof = word,
                                   !.pc = IF OfOlderGeneration(w) THEN "mark"
                                          ELSE IF w.to = "Running" THEN "status" ELSE "post"]
  <2>1. drain[d].pc = "claimed" /\ UNCHANGED <<kind, word, outbox, forge, took, upsets>>
    BY <1>5 DEF ReadGeneration, InDrain
  <2>2. w \in Words /\ outbox[w].state # "none" BY <2>1, <1>a
  <2>3. /\ p \in Drains /\ p.msg = w /\ p.asof = word
        /\ p.pc = IF OfOlderGeneration(w) THEN "mark" ELSE IF w.to = "Running" THEN "status" ELSE "post"
    BY <1>a DEF Drains, DrainPCs
  <2>4. drain' = [drain EXCEPT ![d] = p] BY <1>5, <1>a DEF ReadGeneration
  <2>5. ~Newer(w, word) BY <2>2 DEF PostsInv, Behind
  <2>6. ~Newer(word, word) BY <1>a, NewerFacts
  <2>7. p.pc = "post" => w = word /\ w.to = "Verdict"
    BY <2>2, <2>3, <2>5, <1>a DEF OfOlderGeneration, Newer, Words
  <2>8. Checked(p) BY <2>3, <2>7, <1>a DEF Checked
  <2> HIDE DEF p, w
  <2>9. QED BY <2>1, <2>2, <2>3, <2>4, <2>6, <2>8, <1>a, <1>b, <1>e, DrainKeeps
<1>6. ASSUME NEW d \in Drainers, ReadStatus(d) PROVE PostsInv'
  <2> DEFINE w == drain[d].msg
             p == [drain[d] EXCEPT !.asof = word, !.pc = IF HasSettled THEN "mark" ELSE "post"]
  <2>1. drain[d].pc = "status" /\ UNCHANGED <<kind, word, outbox, forge, took, upsets>>
    BY <1>6 DEF ReadStatus, InDrain
  <2>2. w \in Words /\ outbox[w].state # "none" BY <2>1, <1>a
  <2>3. p \in Drains /\ p.msg = w /\ p.asof = word /\ p.pc = IF HasSettled THEN "mark" ELSE "post"
    BY <1>a DEF Drains, DrainPCs
  <2>4. drain' = [drain EXCEPT ![d] = p] BY <1>6, <1>a DEF ReadStatus
  <2>5. w.to = "Running" BY <2>1 DEF PostsInv, LetThrough, Checked
  <2>6. ~Newer(w, word) /\ ~Newer(word, word) BY <2>2, <1>a, NewerFacts DEF PostsInv, Behind
  <2>7. p.pc = "post" => word.to = "Running" /\ word.gen >= w.gen
    BY <2>2, <2>3, <2>6, <1>a DEF HasSettled, Newer, Words
  <2>8. Checked(p) BY <2>3, <2>5, <2>7, <1>a DEF Checked
  <2> HIDE DEF p, w
  <2>9. QED BY <2>1, <2>2, <2>3, <2>4, <2>6, <2>8, <1>a, <1>b, <1>e, DrainKeeps
<1>7. ASSUME NEW d \in Drainers, Post(d) PROVE PostsInv'
  <2> DEFINE w == drain[d].msg
  <2>1. drain[d].pc = "post" /\ UNCHANGED <<kind, word, outbox>> BY <1>7 DEF Post, InDrain
  <2>2. w \in Words /\ outbox[w].state # "none" BY <2>1, <1>a
  <2>3. PICK next \in {"mark", "fail"} : drain' = [drain EXCEPT ![d].pc = next]
    BY <1>7 DEF Post, DrainTo
  <2>4. (forge' = w /\ took' = took \cup {w}) \/ UNCHANGED <<forge, took>> BY <1>7 DEF Post, Deliver
  <2>5. upsets' \in 0 .. MaxUpsets BY <1>7, <1>a, <1>u DEF Post
  <2>6. /\ drain' \in [Drainers -> Drains]
        /\ drain'[d].pc = next /\ drain'[d].msg = w /\ drain'[d].asof = drain[d].asof
        /\ \A e \in Drainers : e # d => drain'[e] = drain[e]
    BY <2>3, <1>a DEF Drains, DrainPCs
  <2>7. w \in Heard /\ Heard' = Heard BY <2>1, <2>2 DEF PostsInv, PostsType, Heard
  <2> HIDE DEF w
  <2>8. PostsType' BY <2>1, <2>2, <2>3, <2>4, <2>5, <2>6, <2>7 DEF PostsInv, PostsType
  <2>9. Behind' BY <2>1, <2>2, <2>4, <2>6 DEF PostsInv, Behind
  <2>10. LetThrough' BY <2>3, <2>6 DEF PostsInv, LetThrough, Checked
  <2>11. QED BY <2>8, <2>9, <2>10 DEF PostsInv
<1>8. ASSUME NEW d \in Drainers, NEW how \in {"done", "dead"},
             drain[d].pc # "idle", how = "dead" => drain[d].pc = "dead",
             outbox' = [outbox EXCEPT ![drain[d].msg] = Retired(@, how)], EndDrain(d),
             UNCHANGED <<kind, word, forge, took, upsets>>
      PROVE  PostsInv'
  <2> DEFINE w == drain[d].msg
  <2>1. w \in Words /\ outbox[w].state # "none" BY <1>8, <1>a
  <2>2. how = "dead" => outbox[w].tries >= MaxDeliveries BY <1>8 DEF PostsInv, PostsType
  <2>3. /\ Retired(outbox[w], how) \in Messages /\ Retired(outbox[w], how).tries = outbox[w].tries
        /\ Retired(outbox[w], how).state \in {"done", "dead"} \/ Retired(outbox[w], how) = outbox[w]
        /\ Retired(outbox[w], how).state = "dead" => how = "dead" \/ outbox[w].state = "dead"
        /\ Retired(outbox[w], how).state # "none"
    BY <2>1, <1>b DEF Retired, Messages
  <2>4. outbox' = [outbox EXCEPT ![w] = Retired(outbox[w], how)] BY <1>8
  <2>5. /\ outbox' \in [Words -> Messages] /\ outbox'[w] = Retired(outbox[w], how)
        /\ \A v \in Words \ {w} : outbox'[v] = outbox[v]
    BY <2>1, <2>3, <2>4, <1>a
  <2> HIDE DEF w
  <2>6. \A v \in Words : /\ (outbox'[v].state = "none") <=> (outbox[v].state = "none")
                         /\ outbox'[v].tries >= outbox[v].tries
                         /\ outbox'[v].state = "dead" => outbox'[v].tries >= MaxDeliveries
    BY <2>1, <2>2, <2>3, <2>5, <1>b
  <2>7. drain' = [drain EXCEPT ![d] = IdleDrain] BY <1>8 DEF EndDrain
  <2>8. QED BY <1>8, <2>5, <2>6, <2>7, <1>a, <1>c, DrainKeeps
<1>9. ASSUME NEW d \in Drainers, MarkDispatched(d) PROVE PostsInv'
  BY <1>9, <1>8 DEF MarkDispatched, InDrain
<1>10. ASSUME NEW d \in Drainers, RecordFailure(d) PROVE PostsInv'
  <2> DEFINE w == drain[d].msg
             p == [drain[d] EXCEPT !.pc = "dead"]
  <2>1. drain[d].pc = "fail" /\ UNCHANGED <<kind, word, forge, took, upsets>>
    BY <1>10 DEF RecordFailure, InDrain
  <2>2. w \in Words /\ outbox[w].state # "none" BY <2>1, <1>a
  <2>3. outbox' = [outbox EXCEPT ![w].tries = @ + 1] BY <1>10 DEF RecordFailure
  <2>4. /\ outbox' \in [Words -> Messages] /\ outbox'[w].tries = outbox[w].tries + 1
        /\ outbox'[w].state = outbox[w].state /\ \A v \in Words \ {w} : outbox'[v] = outbox[v]
    BY <2>2, <2>3, <1>a, <1>b DEF Messages
  <2>5. /\ p \in Drains /\ p.pc = "dead" /\ p.msg = w /\ p.asof = drain[d].asof
    BY <1>a DEF Drains, DrainPCs
  <2>6. \/ drain' = [drain EXCEPT ![d] = p] /\ outbox'[w].tries >= MaxDeliveries
        \/ drain' = [drain EXCEPT ![d] = IdleDrain]
    BY <1>10, <2>4, <1>a DEF RecordFailure, DrainTo, EndDrain, Poison
  <2>p. Checked(p) BY <2>5 DEF Checked
  <2> HIDE DEF p, w
  <2>7. \A v \in Words : /\ (outbox'[v].state = "none") <=> (outbox[v].state = "none")
                         /\ outbox'[v].tries >= outbox[v].tries
                         /\ outbox'[v].state = "dead" => outbox'[v].tries >= MaxDeliveries
    BY <2>2, <2>4, <1>b, PostsAssumption
  <2>8. CASE drain' = [drain EXCEPT ![d] = p] /\ outbox'[w].tries >= MaxDeliveries
    BY <2>1, <2>2, <2>4, <2>5, <2>p, <2>7, <2>8, <1>a, <1>d, DrainKeeps
  <2>9. CASE drain' = [drain EXCEPT ![d] = IdleDrain]
    BY <2>1, <2>4, <2>7, <2>9, <1>a, <1>c, DrainKeeps
  <2>10. QED BY <2>6, <2>8, <2>9
<1>11. ASSUME NEW d \in Drainers, DeadLetter(d) PROVE PostsInv'
  BY <1>11, <1>8 DEF DeadLetter, InDrain
<1>12. ASSUME NEW d \in Drainers, DrainAborts(d) PROVE PostsInv'
  <2>1. drain' = [drain EXCEPT ![d] = IdleDrain] /\ UNCHANGED <<kind, word, outbox, forge, took>> /\ Upset
    BY <1>12 DEF DrainAborts, EndDrain
  <2>2. upsets' \in 0 .. MaxUpsets BY <2>1, <1>u
  <2>3. QED BY <2>1, <2>2, <1>a, <1>b, <1>c, <1>e, DrainKeeps
<1>13. CASE UNCHANGED postsVars
  BY <1>13 DEF postsVars, PostsInv, PostsType, Behind, LetThrough, Checked, Heard
<1>14. QED
  BY <1>1, <1>2, <1>3, <1>4, <1>5, <1>6, <1>7, <1>9, <1>10, <1>11, <1>12, <1>13 DEF PostsNext, DrainStep

\* What the invariant says of the drains.
LEMMA PostsSafe == PostsInv => PostsTypeOK /\ OldWordsAreDropped
<1> SUFFICES ASSUME PostsInv PROVE PostsTypeOK /\ OldWordsAreDropped OBVIOUS
<1>1. PostsTypeOK BY DEF PostsInv, PostsType, PostsTypeOK, Messages, Drains, DrainPCs, Heard
<1>2. ASSUME NEW d \in Drainers, drain[d].pc = "post", NEW w \in took, Newer(w, drain[d].msg)
      PROVE  \/ Newer(w, drain[d].asof)
             \/ drain[d].asof.to = "Running" /\ drain[d].msg.to = "Running"
  <2>1. drain[d].msg \in Words BY <1>2 DEF PostsInv, PostsType
  <2>2. drain[d].msg.to \in {"Running", "Verdict"} BY <2>1 DEF Words
  <2>3. QED BY <1>2, <2>2 DEF PostsInv, LetThrough, Checked
<1>3. QED BY <1>1, <1>2 DEF OldWordsAreDropped, InDrain

-----------------------------------------------------------------------------
(* The shared service.                                                     *)

RowStates == {"none", "Starting", "Ready"} \cup Ended
ServiceRows == [st : RowStates, handle : BOOLEAN, late : BOOLEAN]
TickPCs == {"idle", "listed", "old", "launch", "record", "poll", "admit", "drain", "rows",
            "sweep", "retire", "advance"}
Ticks == [pc : TickPCs, take : 0 .. MaxTakes, seen : RowStates \cup {"live", "over"}, todo : SUBSET Takes,
          then : {"idle", "drain", "retire"}, intent : 0 .. MaxTakes]

Born == {t \in Takes : svc[t].st # "none"}

\* The rows and the units.  The Takes are born in order, so those born are an
\* interval; a service that is ready can be torn down, and one that was, was
\* stopped if its handle was known; the Takes before one that is ready have
\* ended.
RowsOK ==
  /\ svc \in [Takes -> ServiceRows] /\ unit \in [Takes -> {"none", "up", "ready", "gone"}]
  /\ \E k \in 0 .. MaxTakes : Born = 1 .. k
  /\ \A t \in Takes : svc[t].st = "Ready" => svc[t].handle
  /\ \A t \in Takes : svc[t].st = "TornDown" /\ svc[t].handle => unit[t] \notin {"up", "ready"}
  /\ \A t \in Takes : svc[t].st = "Ready" => \A s \in Takes : s < t => svc[s].st \in Ended

\* The tick.  While it is at work on a Take nobody else writes that row, and
\* the Takes before it have ended or are on the tick's list.
GoodTick(p) ==
  /\ p \in Ticks /\ p.todo \subseteq Born
  /\ p.pc = "old" => /\ p.take \in Takes /\ svc[p.take].st = p.seen /\ (p.take = 1 \/ p.seen # "none")
                     /\ \A t \in p.todo : t < p.take
                     /\ \A s \in Takes : s < p.take => s \in p.todo \/ svc[s].st \in Ended
  /\ p.pc \in {"launch", "record", "poll"} =>
       /\ p.take \in Takes /\ \A s \in Takes : s < p.take => svc[s].st \in Ended
       /\ IF p.pc = "poll" THEN svc[p.take].st \in {"Starting", "Ready"} /\ svc[p.take].handle
          ELSE svc[p.take].st = "Starting"

\* The Run, its user and the operator.
OthersOK ==
  /\ live \in BOOLEAN /\ user \in {"Pending"} \cup UserOver
  /\ intents \subseteq Takes
  /\ api \in [cancel : 0 .. MaxTakes, rerun : BOOLEAN]
  /\ spent \in [cancels : Nat, turns : Nat]

ServicesInv == RowsOK /\ GoodTick(tick) /\ OthersOK

\* `current_service_take` is the last Take born, or the first.
LEMMA CurrentIsLast ==
  ASSUME RowsOK
  PROVE  /\ CurrentTake \in Takes /\ \A t \in Born : t <= CurrentTake
         /\ IF Born = {} THEN CurrentTake = 1 ELSE Born = 1 .. CurrentTake
<1>1. PICK k \in 0 .. MaxTakes : Born = 1 .. k BY DEF RowsOK
<1>2. MaxTakes \in Nat \ {0} /\ 1 \in Takes BY ServicesAssumption DEF Takes
<1>3. CASE k = 0
  <2>1. Born = {} BY <1>1, <1>3
  <2>2. CurrentTake = 1 BY <2>1 DEF CurrentTake, Born
  <2>3. QED BY <1>2, <2>1, <2>2
<1>4. CASE k # 0
  <2>1. k \in Born /\ k \in Nat /\ Born # {} /\ \A y \in Born : k >= y BY <1>1, <1>2, <1>4
  <2>2. CurrentTake = Max(Born) BY <2>1 DEF CurrentTake, Born
  <2>3. \A z \in Born : (\A y \in Born : z >= y) => z = k BY <1>1, <2>1
  <2>4. Max(Born) = k BY <2>1, <2>3 DEF Max
  <2>5. QED BY <1>1, <1>2, <2>1, <2>2, <2>4 DEF Takes
<1>5. QED BY <1>3, <1>4

\* A tick at rest is good.
LEMMA IdleIsTick == IdleTick \in Ticks /\ GoodTick(IdleTick)
  BY ServicesAssumption DEF GoodTick, IdleTick, Ticks, TickPCs, RowStates

\* So is a tick that is not at work on a Take's row.
LEMMA QuietTick ==
  ASSUME NEW p \in Ticks, p.todo \subseteq Born, p.pc \notin {"old", "launch", "record", "poll"}
  PROVE  GoodTick(p)
  BY DEF GoodTick

\* Before the first step, and of a Run that has ended.
LEMMA ServicesStart ==
  ASSUME live \in BOOLEAN, user \in {"Pending"} \cup UserOver,
         svc = [t \in Takes |-> NoRow], unit = [t \in Takes |-> "none"], intents = {}, tick = IdleTick,
         api = [cancel |-> 0, rerun |-> FALSE], spent = [cancels |-> 0, turns |-> 0]
  PROVE  ServicesInv
<1>1. \A t \in Takes : svc[t] = NoRow /\ NoRow.st = "none" BY DEF NoRow
<1>2. Born = {} /\ {} = 1 .. 0 BY <1>1 DEF Born
<1>3. svc \in [Takes -> ServiceRows] BY DEF NoRow, ServiceRows, RowStates
<1>4. RowsOK BY <1>1, <1>2, <1>3, ServicesAssumption DEF RowsOK
<1>5. OthersOK BY ServicesAssumption DEF OthersOK
<1>6. QED BY <1>4, <1>5, IdleIsTick DEF ServicesInv

\* A step that writes no row and stops or starts no unit.
LEMMA RowsStay ==
  ASSUME RowsOK, UNCHANGED <<svc, unit>>, NEW p, GoodTick(p)
  PROVE  RowsOK' /\ (tick' = p => GoodTick(tick)')
  BY DEF RowsOK, GoodTick, Born

\* A row that was born gets another state.
LEMMA RowSet ==
  ASSUME RowsOK, NEW t \in Born, NEW st \in RowStates \ {"none"}, SetRow(t, st)
  PROVE  /\ svc' \in [Takes -> ServiceRows] /\ Born' = Born
         /\ svc'[t].st = st /\ svc'[t].handle = svc[t].handle
         /\ \A s \in Takes : s # t => svc'[s] = svc[s]
  BY DEF RowsOK, SetRow, Born, ServiceRows

\* `teardown_service` keeps what holds of the rows.
LEMMA TearDownKeeps ==
  ASSUME RowsOK, NEW t \in Born, TearDown(t)
  PROVE  /\ RowsOK' /\ Born' = Born /\ svc'[t].st = "TornDown"
         /\ \A s \in Takes : s # t => svc'[s] = svc[s]
<1>1. /\ svc' \in [Takes -> ServiceRows] /\ Born' = Born /\ svc'[t].st = "TornDown"
      /\ svc'[t].handle = svc[t].handle /\ \A s \in Takes : s # t => svc'[s] = svc[s]
  BY RowSet DEF TearDown, RowStates, Ended
<1>2. t \in Takes BY DEF Born
<1>3. /\ unit' \in [Takes -> {"none", "up", "ready", "gone"}]
      /\ \A s \in Takes : s # t => unit'[s] = unit[s]
      /\ svc[t].handle => unit'[t] = "gone"
  BY <1>2 DEF TearDown, RowsOK
<1>4. RowsOK' BY <1>1, <1>2, <1>3 DEF RowsOK, Ended
<1>5. QED BY <1>1, <1>4

\* Every step of the tick, the operator, the unit and the clock.
LEMMA ServicesStep == ServicesInv /\ [ServicesNext]_svcVars => ServicesInv'
<1> SUFFICES ASSUME ServicesInv, [ServicesNext]_svcVars PROVE ServicesInv' OBVIOUS
<1>a. RowsOK /\ OthersOK /\ GoodTick(tick) /\ tick \in Ticks /\ tick.todo \subseteq Born /\ Born \subseteq Takes
  BY DEF ServicesInv, GoodTick, Born
<1>b. NotEnded \subseteq Born BY DEF NotEnded, Born
<1>c. CurrentTake \in Takes BY <1>a, CurrentIsLast
<1>d. MaxTakes \in Nat \ {0} /\ Takes \subseteq Nat /\ Takes \subseteq 0 .. MaxTakes
  BY ServicesAssumption DEF Takes
\* A tick that goes to rest, or on to a quiet place.
<1>q. ASSUME NEW to \in {"idle", "listed", "admit", "drain", "retire"}, Goto(to)
      PROVE  tick' \in Ticks /\ GoodTick(tick')
  <2> DEFINE p == [IdleTick EXCEPT !.pc = to]
             q == [tick EXCEPT !.pc = to]
  <2>1. p \in Ticks /\ p.todo = {} /\ p.pc = to BY IdleIsTick DEF IdleTick, Ticks, TickPCs
  <2>2. q \in Ticks /\ q.todo = tick.todo /\ q.pc = to BY <1>a DEF Ticks, TickPCs
  <2>3. tick' = p \/ tick' = q BY <1>q DEF Goto
  <2> HIDE DEF p, q
  <2>4. QED BY <2>1, <2>2, <2>3, <1>a, QuietTick
<1>1. CASE TickBegins
  <2>1. GoodTick(tick') BY <1>1, <1>q DEF TickBegins
  <2>2. QED BY <1>1, <2>1, <1>a, RowsStay DEF TickBegins, ServicesInv, OthersOK
<1>2. CASE ServicesRead
  <2> DEFINE take == CurrentTake
             p == [IdleTick EXCEPT !.pc = "sweep", !.todo = NotEnded, !.then = "drain"]
             q == [IdleTick EXCEPT !.pc = "old", !.todo = OldTakes(take), !.take = take, !.seen = svc[take].st]
  <2>1. p \in Ticks /\ p.todo = NotEnded /\ p.pc = "sweep"
    BY <1>a, <1>b, IdleIsTick DEF IdleTick, Ticks, TickPCs
  <2>2. svc[take].st \in RowStates BY <1>a, <1>c DEF RowsOK, ServiceRows
  <2>3. OldTakes(take) \subseteq Born /\ \A t \in OldTakes(take) : t < take
    BY <1>b DEF OldTakes
  <2>4. /\ q \in Ticks /\ q.pc = "old" /\ q.take = take /\ q.seen = svc[take].st /\ q.todo = OldTakes(take)
    BY <1>a, <1>c, <1>d, <2>2, <2>3, IdleIsTick DEF IdleTick, Ticks, TickPCs
  <2>5. take = 1 \/ svc[take].st # "none"
    BY <1>a, <1>c, <1>d, CurrentIsLast DEF Born
  <2>6. ASSUME NEW s \in Takes, s < take PROVE s \in OldTakes(take) \/ svc[s].st \in Ended
    <3>1. s \in Born BY <2>6, <1>a, <1>c, <1>d, CurrentIsLast DEF Takes
    <3>2. QED BY <2>6, <3>1 DEF Born, OldTakes, NotEnded
  <2>7. GoodTick(p) BY <2>1, <1>b, QuietTick
  <2>8. GoodTick(q)
    <3> HIDE DEF q, take
    <3>1. QED BY <2>3, <2>4, <2>5, <2>6, <1>c DEF GoodTick, take
  <2>9. tick' = p \/ tick' = q BY <1>2 DEF ServicesRead
  <2> HIDE DEF p, q
  <2>10. QED BY <1>2, <2>7, <2>8, <2>9, <1>a, RowsStay DEF ServicesRead, ServicesInv, OthersOK
<1>3. CASE TearOld
  <2>1. PICK t \in tick.todo : AtTick("old") /\ TearDown(t) /\ tick' = [tick EXCEPT !.todo = @ \ {t}]
    BY <1>3 DEF TearOld
  <2>2. /\ tick' \in Ticks /\ tick'.pc = "old" /\ tick'.take = tick.take /\ tick'.seen = tick.seen
        /\ tick'.todo = tick.todo \ {t}
    BY <2>1, <1>a DEF Ticks, AtTick
  <2>3. /\ RowsOK' /\ Born' = Born /\ svc'[t].st = "TornDown"
        /\ \A s \in Takes : s # t => svc'[s] = svc[s]
    BY <2>1, <1>a, TearDownKeeps
  <2>4. t < tick.take /\ tick.take \in Takes /\ t \in Takes BY <2>1, <1>a DEF GoodTick, AtTick
  <2>5. GoodTick(tick)' BY <2>1, <2>2, <2>3, <2>4, <1>a, <1>d DEF GoodTick, AtTick, Ended
  <2>6. QED BY <1>3, <2>3, <2>5, <1>a DEF TearOld, ServicesInv, OthersOK
<1>4. CASE Birth
  <2> DEFINE t == tick.take
  <2>1. /\ tick.pc = "old" /\ tick.todo = {} /\ t \in Takes /\ svc[t].st = tick.seen
        /\ (t = 1 \/ tick.seen # "none") /\ \A s \in Takes : s < t => svc[s].st \in Ended
    BY <1>4, <1>a DEF Birth, AtTick, GoodTick
  <2>2. svc' = IF svc[t].st = "none" THEN [svc EXCEPT ![t].st = "Starting"] ELSE svc BY <1>4 DEF Birth
  <2>3. /\ svc' \in [Takes -> ServiceRows] /\ svc'[t].handle = svc[t].handle
        /\ \A s \in Takes : s # t => svc'[s] = svc[s]
        /\ svc'[t].st = IF svc[t].st = "none" THEN "Starting" ELSE svc[t].st
    BY <2>1, <2>2, <1>a DEF RowsOK, ServiceRows, RowStates
  <2>4. \E k \in 0 .. MaxTakes : Born' = 1 .. k
    <3>1. CASE svc[t].st # "none" BY <2>2, <3>1, <1>a DEF RowsOK, Born
    <3>2. CASE svc[t].st = "none"
      <4>1. t = 1 /\ Born = {}
        <5>1. t = 1 BY <2>1, <3>2
        <5>2. PICK k \in 0 .. MaxTakes : Born = 1 .. k BY <1>a DEF RowsOK
        <5>3. 1 \notin Born BY <3>2, <5>1 DEF Born
        <5>4. QED BY <5>1, <5>2, <5>3, <1>d
      <4>2. Born' = {1} BY <2>1, <2>3, <3>2, <4>1 DEF Born
      <4>3. {1} = 1 .. 1 OBVIOUS
      <4>4. QED BY <4>2, <4>3, <1>d
    <3>3. QED BY <3>1, <3>2
  <2>5. RowsOK' BY <1>4, <2>1, <2>3, <2>4, <1>a, <1>d DEF Birth, RowsOK, Ended
  <2>6. Goto(IF tick.seen = "none" \/ (tick.seen = "Starting" /\ ~svc[t].handle) THEN "launch"
             ELSE IF tick.seen \in Ended THEN "admit" ELSE "poll")
    BY <1>4 DEF Birth
  <2>s. tick.seen \in RowStates BY <2>1, <1>a DEF RowsOK, ServiceRows
  <2>7. GoodTick(tick)'
    <3>1. CASE tick.seen \in Ended
      <4>1. Goto("admit") BY <2>6, <3>1 DEF Ended
      <4>2. tick' \in Ticks /\ tick'.pc = "admit" /\ tick'.todo = {}
        BY <4>1, IdleIsTick DEF Goto, IdleTick, Ticks, TickPCs
      <4>3. QED BY <4>2 DEF GoodTick
    <3>2. CASE tick.seen \notin Ended
      <4>1. PICK to \in {"launch", "poll"} :
              /\ tick' = [tick EXCEPT !.pc = to]
              /\ to = IF tick.seen = "none" \/ (tick.seen = "Starting" /\ ~svc[t].handle) THEN "launch" ELSE "poll"
        BY <2>6, <3>2 DEF Goto
      <4>2. tick' \in Ticks /\ tick'.pc = to /\ tick'.take = t /\ tick'.todo = {}
        BY <2>1, <4>1, <1>a DEF Ticks, TickPCs
      <4>3. to = "launch" => svc'[t].st = "Starting" BY <2>1, <2>3, <4>1
      <4>4. to = "poll" => svc'[t].st \in {"Starting", "Ready"} /\ svc'[t].handle
        BY <2>1, <2>3, <2>s, <3>2, <4>1, <1>a DEF RowsOK, RowStates
      <4>5. \A s \in Takes : s < t => svc'[s].st \in Ended BY <2>1, <2>3, <1>d
      <4> HIDE DEF t
      <4>6. QED BY <2>1, <4>2, <4>3, <4>4, <4>5 DEF GoodTick, t
    <3>3. QED BY <3>1, <3>2
  <2>8. QED BY <1>4, <2>5, <2>7, <1>a DEF Birth, ServicesInv, OthersOK
<1>5. CASE Launch
  <2> DEFINE t == tick.take
  <2>1. /\ t \in Takes /\ svc[t].st = "Starting" /\ tick.pc = "launch" /\ t \in Born
        /\ \A s \in Takes : s < t => svc[s].st \in Ended
    BY <1>5, <1>a DEF Launch, AtTick, GoodTick, Born
  <2>2. /\ unit' \in [Takes -> {"none", "up", "ready", "gone"}] /\ \A s \in Takes : s # t => unit'[s] = unit[s]
    BY <1>5, <2>1, <1>a DEF Launch, RowsOK
  <2>3. CASE UNCHANGED svc /\ Goto("record")
    <3>1. tick' = [tick EXCEPT !.pc = "record"] BY <2>3 DEF Goto
    <3>2. tick' \in Ticks /\ tick'.pc = "record" /\ tick'.take = t /\ tick'.todo = tick.todo
      BY <3>1, <1>a DEF Ticks, TickPCs
    <3>3. GoodTick(tick)' BY <2>1, <2>3, <3>2, <1>a DEF GoodTick, Born
    <3>4. RowsOK' BY <2>1, <2>2, <2>3, <1>a DEF RowsOK, Born
    <3>5. QED BY <1>5, <3>3, <3>4, <1>a DEF Launch, ServicesInv, OthersOK
  <2>4. CASE (SetRow(t, "Failed") \/ UNCHANGED svc) /\ Goto("admit")
    <3>1. tick' \in Ticks /\ tick'.pc = "admit" /\ tick'.todo = {}
      BY <2>4, IdleIsTick DEF Goto, IdleTick, Ticks, TickPCs
    <3>2. GoodTick(tick)' BY <3>1 DEF GoodTick
    <3>3. CASE UNCHANGED svc
      <4>1. RowsOK' BY <2>1, <2>2, <3>3, <1>a DEF RowsOK, Born
      <4>2. QED BY <1>5, <3>2, <4>1, <1>a DEF Launch, ServicesInv, OthersOK
    <3>4. CASE SetRow(t, "Failed")
      <4>1. /\ svc' \in [Takes -> ServiceRows] /\ Born' = Born /\ svc'[t].st = "Failed"
            /\ \A s \in Takes : s # t => svc'[s] = svc[s]
        BY <2>1, <3>4, <1>a, RowSet DEF RowStates, Ended
      <4>2. RowsOK' BY <2>1, <2>2, <4>1, <1>a DEF RowsOK, Ended
      <4>3. QED BY <1>5, <3>2, <4>2, <1>a DEF Launch, ServicesInv, OthersOK
    <3>5. QED BY <2>4, <3>3, <3>4
  <2>5. QED BY <1>5, <2>3, <2>4 DEF Launch
<1>6. CASE Record
  <2> DEFINE t == tick.take
  <2>1. /\ t \in Takes /\ svc[t].st = "Starting" /\ tick.pc = "record" /\ t \in Born
        /\ \A s \in Takes : s < t => svc[s].st \in Ended
    BY <1>6, <1>a DEF Record, AtTick, GoodTick, Born
  <2>2. svc' = [svc EXCEPT ![t].st = "Starting", ![t].handle = TRUE] BY <1>6 DEF Record, Recorded
  <2>3. /\ svc' \in [Takes -> ServiceRows] /\ svc'[t].st = "Starting" /\ svc'[t].handle
        /\ \A s \in Takes : s # t => svc'[s] = svc[s]
    BY <2>1, <2>2, <1>a DEF RowsOK, ServiceRows, RowStates
  <2>4. Born' = Born BY <2>1, <2>3 DEF Born
  <2>5. RowsOK' BY <1>6, <2>1, <2>3, <2>4, <1>a DEF Record, RowsOK
  <2>6. CASE Goto("admit")
    <3>1. tick' \in Ticks /\ tick'.pc = "admit" /\ tick'.todo = {}
      BY <2>6, IdleIsTick DEF Goto, IdleTick, Ticks, TickPCs
    <3>2. GoodTick(tick)' BY <3>1 DEF GoodTick
    <3>3. QED BY <1>6, <2>5, <3>2, <1>a DEF Record, ServicesInv, OthersOK
  <2>7. CASE Goto("poll")
    <3>1. tick' = [tick EXCEPT !.pc = "poll"] BY <2>7 DEF Goto
    <3>2. tick' \in Ticks /\ tick'.pc = "poll" /\ tick'.take = t /\ tick'.todo = tick.todo
      BY <3>1, <1>a DEF Ticks, TickPCs
    <3>3. GoodTick(tick)' BY <2>1, <2>3, <2>4, <3>2, <1>a, <1>d DEF GoodTick
    <3>4. QED BY <1>6, <2>5, <3>3, <1>a DEF Record, ServicesInv, OthersOK
  <2>8. QED BY <1>6, <2>6, <2>7 DEF Record
<1>7. CASE Poll
  <2> DEFINE t == tick.take
  <2>1. /\ t \in Takes /\ svc[t].st \in {"Starting", "Ready"} /\ svc[t].handle /\ t \in Born
        /\ \A s \in Takes : s < t => svc[s].st \in Ended
    BY <1>7, <1>a DEF Poll, AtTick, GoodTick, Born
  <2>2. tick' \in Ticks /\ tick'.pc = "admit" /\ tick'.todo = {}
    BY <1>7, IdleIsTick DEF Poll, Goto, IdleTick, Ticks, TickPCs
  <2>3. GoodTick(tick)' BY <2>2 DEF GoodTick
  <2>4. unit' = unit BY <1>7 DEF Poll
  <2>5. ASSUME NEW st \in {"Ready", "Failed"}, SetRow(t, st) PROVE RowsOK'
    <3>1. /\ svc' \in [Takes -> ServiceRows] /\ Born' = Born /\ svc'[t].st = st
          /\ svc'[t].handle = svc[t].handle
          /\ \A s \in Takes : s # t => svc'[s] = svc[s]
      BY <2>1, <2>5, <1>a, RowSet DEF RowStates, Ended
    <3>2. QED BY <2>1, <2>4, <3>1, <1>a, <1>d DEF RowsOK, Ended
  <2>6. CASE UNCHANGED svc
    <3>1. RowsOK' BY <2>4, <2>6, <1>a DEF RowsOK, Born
    <3>2. QED BY <1>7, <2>3, <3>1, <1>a DEF Poll, ServicesInv, OthersOK
  <2>7. QED BY <1>7, <2>3, <2>5, <2>6, <1>a DEF Poll, ServicesInv, OthersOK
<1>8. CASE Admit
  <2>1. GoodTick(tick') BY <1>8, <1>q DEF Admit
  <2>2. user' \in {"Pending"} \cup UserOver BY <1>8, <1>a DEF Admit, OthersOK, UserOver
  <2>3. QED BY <1>8, <2>1, <2>2, <1>a, RowsStay DEF Admit, ServicesInv, OthersOK
<1>9. CASE DrainStatus
  <2>1. GoodTick(tick')
    <3>1. CASE tick' = [IdleTick EXCEPT !.pc = "advance"]
      <4>1. tick' \in Ticks /\ tick'.pc = "advance" /\ tick'.todo = {}
        BY <3>1, IdleIsTick DEF IdleTick, Ticks, TickPCs
      <4>2. QED BY <4>1, QuietTick
    <3>2. ASSUME NEW n \in intents,
                 tick' = [IdleTick EXCEPT !.pc = "rows", !.intent = n, !.seen = IF live THEN "live" ELSE "over"]
          PROVE  GoodTick(tick')
      <4>1. n \in 0 .. MaxTakes BY <1>a, <1>d DEF OthersOK
      <4>2. tick' \in Ticks /\ tick'.pc = "rows" /\ tick'.todo = {}
        BY <3>2, <4>1, IdleIsTick DEF IdleTick, Ticks, TickPCs
      <4>3. QED BY <4>2, QuietTick
    <3>3. QED BY <1>9, <3>1, <3>2 DEF DrainStatus
  <2>2. QED BY <1>9, <2>1, <1>a, RowsStay DEF DrainStatus, ServicesInv, OthersOK
<1>10. CASE DrainRows
  <2>1. CancelledTakes \subseteq Born BY <1>b DEF CancelledTakes
  <2>2. tick' \in Ticks /\ tick'.pc = "sweep" /\ tick'.todo = CancelledTakes
    BY <1>10, <2>1, <1>a DEF DrainRows, Ticks, TickPCs
  <2>3. GoodTick(tick') BY <2>1, <2>2, QuietTick
  <2>4. QED BY <1>10, <2>3, <1>a, RowsStay DEF DrainRows, ServicesInv, OthersOK
<1>11. CASE Sweep
  <2>1. CASE tick.todo = {}
    <3>1. Goto(tick.then) /\ tick.then \in {"idle", "drain", "retire"} /\ UNCHANGED <<svc, unit>>
      BY <1>11, <2>1, <1>a DEF Sweep, Ticks
    <3>2. GoodTick(tick') BY <3>1, <1>q
    <3>3. QED BY <1>11, <3>1, <3>2, <1>a, RowsStay DEF Sweep, ServicesInv, OthersOK
  <2>2. CASE tick.todo # {}
    <3>1. PICK t \in tick.todo : TearDown(t) /\ tick' = [tick EXCEPT !.todo = @ \ {t}]
      BY <1>11, <2>2 DEF Sweep
    <3>2. RowsOK' /\ Born' = Born BY <3>1, <1>a, TearDownKeeps
    <3>3. tick' \in Ticks /\ tick'.pc = "sweep" /\ tick'.todo \subseteq Born
      BY <1>11, <3>1, <1>a DEF Sweep, AtTick, Ticks
    <3>4. GoodTick(tick)' BY <3>2, <3>3 DEF GoodTick
    <3>5. QED BY <1>11, <3>2, <3>4, <1>a DEF Sweep, ServicesInv, OthersOK
  <2>3. QED BY <2>1, <2>2
<1>12. CASE RetireIntent
  <2>1. tick' \in Ticks /\ tick'.pc = "advance" /\ tick'.todo = {}
    BY <1>12, IdleIsTick DEF RetireIntent, IdleTick, Ticks, TickPCs
  <2>2. GoodTick(tick') BY <2>1, QuietTick
  <2>3. QED BY <1>12, <2>2, <1>a, RowsStay DEF RetireIntent, ServicesInv, OthersOK
<1>13. CASE Advance
  <2> DEFINE p == [IdleTick EXCEPT !.pc = "sweep", !.todo = NotEnded, !.then = "idle"]
  <2>1. p \in Ticks /\ p.todo = NotEnded /\ p.pc = "sweep"
    BY <1>a, <1>b, IdleIsTick DEF IdleTick, Ticks, TickPCs
  <2>2. tick' = p \/ tick' = IdleTick BY <1>13 DEF Advance
  <2> HIDE DEF p
  <2>3. GoodTick(tick') BY <2>1, <2>2, <1>b, QuietTick, IdleIsTick
  <2>4. QED BY <1>13, <2>3, <1>a, RowsStay DEF Advance, ServicesInv, OthersOK
<1>14. CASE TickStops
  BY <1>14, <1>a, RowsStay, IdleIsTick DEF TickStops, ServicesInv, OthersOK
<1>15. CASE CancelReads
  BY <1>15, <1>a, <1>c, <1>d, RowsStay DEF CancelReads, ServicesInv, OthersOK, UserOver
<1>16. CASE CancelCommits
  <2>1. api.cancel \in Takes BY <1>16, <1>a, <1>d DEF CancelCommits, OthersOK, Takes
  <2>2. intents' \subseteq Takes BY <1>16, <2>1, <1>a DEF CancelCommits, OthersOK
  <2>3. api' \in [cancel : 0 .. MaxTakes, rerun : BOOLEAN]
    BY <1>16, <1>a, <1>d DEF CancelCommits, OthersOK
  <2>4. OthersOK' BY <1>16, <2>2, <2>3, <1>a DEF CancelCommits, OthersOK
  <2>5. QED BY <1>16, <2>4, <1>a, RowsStay DEF CancelCommits, ServicesInv
<1>17. CASE RerunBirths
  <2> DEFINE t == CurrentTake
  <2>1. /\ t \in Takes /\ t < MaxTakes /\ Born = 1 .. t /\ t + 1 \in Takes /\ t + 1 \notin Born
    BY <1>17, <1>a, <1>c, <1>d, CurrentIsLast DEF RerunBirths, Born, Takes
  <2>2. svc' = [svc EXCEPT ![t + 1].st = "Starting"] BY <1>17 DEF RerunBirths
  <2>3. /\ svc' \in [Takes -> ServiceRows] /\ svc'[t + 1].st = "Starting" /\ svc[t + 1].st = "none"
        /\ \A s \in Takes : s # t + 1 => svc'[s] = svc[s]
    BY <2>1, <2>2, <1>a DEF RowsOK, ServiceRows, RowStates, Born
  <2>4. Born' = Born \cup {t + 1} BY <2>1, <2>3 DEF Born
  <2>5. Born' = 1 .. t + 1 /\ t + 1 \in 0 .. MaxTakes BY <2>1, <2>4, <1>d
  <2> HIDE DEF t
  <2>6. \A s \in Takes : svc[s].st = "Ready" => s \in Born /\ s <= t BY <2>1, <1>d DEF Born
  <2>7. RowsOK' BY <1>17, <2>1, <2>3, <2>5, <2>6, <1>a, <1>d DEF RerunBirths, RowsOK, Ended
  <2>8. tick' = tick BY <1>17 DEF RerunBirths
  <2>9. GoodTick(tick)'
    <3>1. tick.pc = "old" => tick.take # t + 1
      BY <2>1, <2>3, <1>a, <1>d DEF GoodTick, Takes
    <3>2. tick.pc \in {"launch", "record", "poll"} => tick.take # t + 1
      BY <2>3, <1>a DEF GoodTick
    <3>3. ASSUME NEW s \in Takes, svc[s].st \in Ended PROVE svc'[s].st \in Ended
      BY <2>3, <3>3 DEF Ended
    <3>4. tick.todo \subseteq Born' BY <2>4, <1>a
    <3>5. QED BY <2>3, <2>8, <3>1, <3>2, <3>3, <3>4, <1>a DEF GoodTick
  <2>10. QED BY <1>17, <2>7, <2>9, <1>a DEF RerunBirths, ServicesInv, OthersOK
<1>18. CASE RerunRearms
  BY <1>18, <1>a, RowsStay DEF RerunRearms, ServicesInv, OthersOK
<1>19. CASE Retry
  BY <1>19, <1>a, RowsStay DEF Retry, ServicesInv, OthersOK
<1>20. ASSUME NEW t \in Takes, UnitTurns(t) PROVE ServicesInv'
  <2>1. RowsOK' BY <1>20, <1>a DEF UnitTurns, RowsOK, Born
  <2>2. GoodTick(tick)' BY <1>20, <1>a DEF UnitTurns, GoodTick, Born
  <2>3. QED BY <1>20, <2>1, <2>2, <1>a DEF UnitTurns, ServicesInv, OthersOK
<1>21. ASSUME NEW t \in Takes, BudgetPasses(t) PROVE ServicesInv'
  <2>1. /\ svc' \in [Takes -> ServiceRows]
        /\ \A s \in Takes : svc'[s].st = svc[s].st /\ svc'[s].handle = svc[s].handle
    BY <1>21, <1>a DEF BudgetPasses, RowsOK, ServiceRows
  <2>2. Born' = Born BY <2>1 DEF Born
  <2>3. RowsOK' BY <1>21, <2>1, <2>2, <1>a DEF BudgetPasses, RowsOK
  <2>4. GoodTick(tick)' BY <1>21, <2>1, <2>2, <1>a DEF BudgetPasses, GoodTick
  <2>5. QED BY <1>21, <2>3, <2>4, <1>a DEF BudgetPasses, ServicesInv, OthersOK
<1>22. CASE UNCHANGED svcVars
  BY <1>22, <1>a, RowsStay DEF svcVars, ServicesInv, OthersOK
<1>23. QED
  BY <1>1, <1>2, <1>3, <1>4, <1>5, <1>6, <1>7, <1>8, <1>9, <1>10, <1>11, <1>12, <1>13, <1>14,
     <1>15, <1>16, <1>17, <1>18, <1>19, <1>20, <1>21, <1>22 DEF ServicesNext, Work

\* What the invariant says of the rows.
LEMMA ServicesTyped == ServicesInv => ServicesTypeOK
<1> SUFFICES ASSUME ServicesInv PROVE ServicesTypeOK OBVIOUS
<1>1. PICK k \in 0 .. MaxTakes : Born = 1 .. k BY DEF ServicesInv, RowsOK
<1>2. ASSUME NEW t \in Takes, svc[t].st # "none" PROVE t = 1 \/ svc[t - 1].st # "none"
  BY <1>1, <1>2, ServicesAssumption DEF Born, Takes
<1>3. tick.pc \in TickPCs BY DEF ServicesInv, GoodTick, Ticks
<1>4. QED BY <1>2, <1>3 DEF ServicesInv, RowsOK, OthersOK, ServicesTypeOK, ServiceRows, RowStates, TickPCs

\* The user of a service starts in one step only, past the Takes before it.
LEMMA StartsFresh ==
  ASSUME ServicesInv, [ServicesNext]_svcVars, user = "Pending", user' \in {"Succeeded", "Failed"},
         NEW t \in Takes, t < CurrentTake, Alive(t)
  PROVE  svc[t].st = "Failed" \/ ~svc[t].handle
<1>1. Admit
  BY DEF ServicesNext, Work, svcVars, TickBegins, ServicesRead, TearOld, Birth, Launch, Record, Poll, DrainStatus,
         DrainRows, Sweep, RetireIntent, Advance, TickStops, CancelReads, CancelCommits, RerunBirths,
         RerunRearms, Retry, UnitTurns, BudgetPasses
<1>2. svc[CurrentTake].st = "Ready" BY <1>1 DEF Admit
<1>3. RowsOK /\ CurrentTake \in Takes BY CurrentIsLast DEF ServicesInv
<1>4. svc[t].st \in Ended BY <1>2, <1>3 DEF RowsOK
<1>5. QED BY <1>3, <1>4 DEF RowsOK, Ended, Alive

-----------------------------------------------------------------------------
(* The components' own specifications, and the server's loops.             *)

\* The drains and the Run keep their invariant.
THEOREM PostsCorrect == PostsSpec => []PostsInv
  BY PostsStart, PostsStep, PTL DEF PostsSpec

\* So do the tick, the operator and the unit.
THEOREM ServicesCorrect == ServicesSpec => []ServicesInv
<1>1. ServicesInit => ServicesInv BY ServicesStart DEF ServicesInit
<1>2. QED BY <1>1, ServicesStep, PTL DEF ServicesSpec

\* What the forge and the followers have heard is never ahead of the Run, and a
\* verdict that is about to be posted was the Run's own word when it was
\* checked (`status_post_superseded`, `upstream_event`).
THEOREM HeardIsTrue ==
  PostsSpec => [](/\ \A w \in took : ~Newer(w, word)
                  /\ \A d \in Drainers : drain[d].pc = "post" /\ drain[d].msg.to = "Verdict" =>
                                          drain[d].asof = drain[d].msg)
<1>1. PostsInv => /\ \A w \in took : ~Newer(w, word)
                  /\ \A d \in Drainers : drain[d].pc = "post" /\ drain[d].msg.to = "Verdict" =>
                                          drain[d].asof = drain[d].msg
  BY DEF PostsInv, PostsType, Behind, LetThrough, Checked, Heard, Verdicts
<1>2. QED BY <1>1, PostsCorrect, PTL

\* The loops of the server, each where it is followed.
LoopsInv == PostsInv /\ ServicesInv

\* The invariants of the drains and of the service in the server.
THEOREM LoopsCorrect == LoopsSpec => []LoopsInv
<1>1. LoopsInit => LoopsInv
  <2> SUFFICES ASSUME LoopsInit PROVE LoopsInv OBVIOUS
  <2>1. PostsInv BY PostsStart DEF LoopsInit
  <2>2. ServicesInv BY ServicesStart DEF LoopsInit, ServicesInit, UserOver
  <2>3. QED BY <2>1, <2>2 DEF LoopsInv
<1>2. LoopsInv /\ [LoopsNext]_loopVars => LoopsInv'
  <2> SUFFICES ASSUME LoopsInv, [LoopsNext]_loopVars PROVE LoopsInv' OBVIOUS
  <2>1. [PostsNext]_postsVars BY DEF LoopsNext, loopVars
  <2>2. [ServicesNext]_svcVars BY DEF LoopsNext, loopVars
  <2>3. QED BY <2>1, <2>2, PostsStep, ServicesStep DEF LoopsInv
<1>3. QED BY <1>1, <1>2, PTL DEF LoopsSpec

\* Type correctness: a message is given up only after its last try, nothing but
\* a verdict starts a follow-up, the Takes are born in order and a service that
\* is ready can be torn down.
THEOREM LoopsTyped == LoopsSpec => []LoopsTypeOK
<1>1. LoopsInv => LoopsTypeOK BY PostsSafe, ServicesTyped DEF LoopsInv, LoopsTypeOK
<1>2. QED BY <1>1, LoopsCorrect, PTL

\* A redelivery is dropped once the newer transition has been committed.
THEOREM OldWordsDropped == LoopsSpec => []OldWordsAreDropped
<1>1. LoopsInv => OldWordsAreDropped BY PostsSafe DEF LoopsInv
<1>2. QED BY <1>1, LoopsCorrect, PTL

\* A Step never starts beside an earlier Take's instance that could be stopped.
THEOREM StepsStartFresh == LoopsSpec => FreshInstance
<1> DEFINE Fresh == (user = "Pending" /\ user' \in {"Succeeded", "Failed"}) =>
                      \A t \in Takes : (t < CurrentTake /\ Alive(t)) => svc[t].st = "Failed" \/ ~svc[t].handle
<1>1. LoopsInv /\ [LoopsNext]_loopVars => [Fresh]_svcVars
  <2> SUFFICES ASSUME LoopsInv, [LoopsNext]_loopVars PROVE Fresh OBVIOUS
  <2>1. [ServicesNext]_svcVars BY DEF LoopsNext, loopVars
  <2>2. QED BY <2>1, StartsFresh DEF LoopsInv
<1>2. QED BY <1>1, LoopsCorrect, PTL DEF LoopsSpec, FreshInstance
=============================================================================
