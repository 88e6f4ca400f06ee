---------------------------- MODULE DepotProofs -----------------------------
(***************************************************************************)
(* Proofs about the Depot (Depot), for any fences, blobs, replicas, packs, *)
(* failures and reruns, and about the run that follows it or the schedules *)
(* (DepotSchedulesMC): type correctness, that what a success record        *)
(* published can be read, and that pointers go before bytes.               *)
(***************************************************************************)
EXTENDS DepotSchedulesMC, SchedulesProofs

-----------------------------------------------------------------------------
(* The types.                                                              *)

SessionType == [on : BOOLEAN, open : SUBSET Blobs, staging : Packs \cup {NoPack}, sealed : SUBSET Packs,
                packed : SUBSET Blobs]
DriveType == [pc : {"idle", "put", "post", "wait", "over"}, todo : SUBSET Blobs]
PostType == [pc : {"idle", "seal", "gate", "flip", "recheck", "commit"}, at : Depots \cup {NoDepot},
             sealed : SUBSET Packs, mine : SUBSET Packs, shared : SUBSET Fences]
ExpiryType == [pc : {"idle", "lock", "reread", "borrowers", "delete"}, fence : Fences \cup {NoFence}]
PassType == [pc : {"idle", "rows", "list", "quiet", "delete"}, found : SUBSET Packs, seen : SUBSET Packs]

OwnPacks(f) == {p \in Packs : FenceOf(p) = f}

\* A session that is off is none, and holds packs of its fence.
GoodSession(f, s) ==
  /\ s \in SessionType /\ (~s.on => s = NoSession)
  /\ s.sealed \subseteq OwnPacks(f) /\ (s.staging # NoPack => s.staging \in OwnPacks(f))

\* What a POST has locked and will commit, by where it is.
GoodPost(f, t) ==
  /\ t \in PostType /\ (t.pc = "idle" => t = IdlePost) /\ (t.pc # "idle" => t.at \in Depots)
  /\ t.sealed \cup t.mine \subseteq OwnPacks(f)
  /\ t.mine # {} => t.pc \in {"recheck", "commit"}
  /\ t.shared # {} => t.pc = "commit"

TablesTyped ==
  /\ past \subseteq Fences /\ quiet \subseteq Fences /\ record \subseteq Fences
  /\ bytes \subseteq Packs /\ holds \in [Packs -> SUBSET Blobs]
  /\ row \in [Packs -> {"none", "staged", "committed"}]
  /\ borrows \subseteq Fences \X Fences /\ next \in [Fences -> 1 .. MaxPacks + 1]

SessionsTyped ==
  /\ sess \in [Depots -> [Fences -> SessionType]]
  /\ \A d \in Depots, f \in Fences : GoodSession(f, sess[d][f])

PostsTyped ==
  /\ post \in [Fences -> PostType] /\ \A f \in Fences : GoodPost(f, post[f])
  /\ drive \in [Fences -> DriveType]

\* One pass of a deleter runs at a time.
PassesTyped ==
  /\ expiry \in ExpiryType /\ (expiry.pc = "idle" => expiry = IdleExpiry) /\ (expiry.pc # "idle" => expiry.fence \in Fences)
  /\ pass \in [Depots -> PassType]
  /\ \A d, e \in Depots : ~Idle(d) => expiry = IdleExpiry /\ (e # d => Idle(e))
  /\ reader \in [pack : Packs \cup {NoPack}, since : SUBSET Depots] /\ (reader.pack = NoPack => reader = NoRead)

DepotTyped == TablesTyped /\ SessionsTyped /\ PostsTyped /\ PassesTyped

-----------------------------------------------------------------------------
(* Who may still name a pack.                                              *)

\* A row names it, a session made it, or a POST is about to commit it.
InUse(p) ==
  \/ row[p] # "none"
  \/ \E d \in Depots : LET s == sess[d][FenceOf(p)] IN p \in s.sealed \/ p = s.staging
  \/ p \in post[FenceOf(p)].sealed \cup post[FenceOf(p)].mine

Made(p) == p[2] < next[FenceOf(p)]

\* A pack in use has its bytes, and its key is not used again.
UseInv == \A p \in Packs : (InUse(p) => p \in bytes) /\ (p \in bytes => Made(p))

\* Nothing of a quiet fence is being made.
QuietInv ==
  \A f \in quiet : /\ post[f].sealed = {}
                   /\ \A d \in Depots : sess[d][f].sealed = {} /\ sess[d][f].staging = NoPack

\* A pack that is being staged is known to its session alone.
StagingInv ==
  \A d \in Depots, f \in Fences : LET p == sess[d][f].staging IN
    p # NoPack => /\ row[p] = "none" /\ p \notin post[f].sealed \cup post[f].mine
                  /\ \A e \in Depots : p \notin sess[e][f].sealed /\ (e # d => sess[e][f].staging # p)

\* The rows that a POST flipped stay until it ends.
MineInv == \A f \in Fences : \A p \in post[f].mine : row[p] # "none" \/ p \in post[f].sealed

\* What a scan has found, or an earlier one saw, has no use left.
Orphans(d) == pass[d].seen \cup (IF pass[d].pc \in {"quiet", "delete"} THEN pass[d].found ELSE {})
OrphanInv == \A d \in Depots : \A p \in Orphans(d) : ~InUse(p) /\ Made(p)

\* A replica whose pass began before the read does not list the pack that is
\* read, and one whose pass began since has seen it at most once.
ReaderInv ==
  reader # NoRead =>
    /\ reader.pack \in bytes
    /\ \A d \in Depots :
         /\ reader.pack \in pass[d].seen => d \in reader.since /\ Idle(d)
         /\ d \notin reader.since => /\ reader.pack \notin Orphans(d)
                                     /\ pass[d].pc = "rows" => row[reader.pack] # "none"
                                     /\ pass[d].pc = "list" => row[reader.pack] # "none" \/ reader.pack \in pass[d].found

-----------------------------------------------------------------------------
(* What stands under a record.                                             *)

\* The locks of the deleter exclude those of the POSTs.
LockInv == \A f \in Fences : Deleting(f) => ~Flipped(f) /\ ~SharedBy(f)

\* Committed rows have their record.
CommittedInv == \A p \in Packs : row[p] = "committed" => FenceOf(p) \in record

\* The victim that is past its last check.
Condemned(f) == expiry.pc = "delete" /\ expiry.fence = f

\* A blob of a record is in a pack of its own, or in one borrowed from a fence
\* that no expiry will delete.
Backs(p, f, b) ==
  /\ b \in holds[p]
  /\ \/ FenceOf(p) = f /\ row[p] # "none"
     \/ row[p] = "committed" /\ <<f, FenceOf(p)>> \in borrows /\ ~Condemned(FenceOf(p))
BackInv == \A f \in record : \A b \in Closure[f] : \E p \in Packs : Backs(p, f, b)

\* A POST that is about to commit holds what will stand under its record.
WillBack(p, f, b) ==
  /\ b \in holds[p]
  /\ \/ FenceOf(p) = f /\ (p \in post[f].mine \/ row[p] # "none")
     \/ row[p] = "committed" /\ FenceOf(p) \in post[f].shared
CommitInv == \A f \in Fences : post[f].pc = "commit" => \A b \in Closure[f] : \E p \in Packs : WillBack(p, f, b)

DepotInv ==
  /\ DepotTyped /\ UseInv /\ QuietInv /\ StagingInv /\ MineInv /\ OrphanInv /\ ReaderInv
  /\ LockInv /\ CommittedInv /\ BackInv /\ CommitInv

-----------------------------------------------------------------------------
(* Type correctness.                                                       *)

\* Packs are named by their fence and their number.
LEMMA PacksAre ==
  /\ \A p \in Packs : FenceOf(p) \in Fences /\ p[1] = FenceOf(p) /\ p[2] \in 1 .. MaxPacks
  /\ \A f \in Fences : \A n \in 1 .. MaxPacks : <<f, n>> \in Packs /\ FenceOf(<<f, n>>) = f
  /\ NoPack \notin Packs /\ MaxPacks \in Nat
  BY DepotAssumption DEF Packs, FenceOf

\* No session and no POST are good ones.
LEMMA NothingGood ==
  ASSUME NEW f \in Fences PROVE GoodSession(f, NoSession) /\ GoodPost(f, IdlePost)
  BY DEF GoodSession, NoSession, SessionType, GoodPost, IdlePost, PostType

SessionIs(d, f, s) == sess' = [sess EXCEPT ![d][f] = s]

\* One session changes.
LEMMA SessionMoves ==
  ASSUME SessionsTyped, NEW d \in Depots, NEW f \in Fences, NEW s, SessionIs(d, f, s), GoodSession(f, s)
  PROVE  SessionsTyped'
<1>1. s \in SessionType BY DEF GoodSession
<1>2. sess' \in [Depots -> [Fences -> SessionType]] BY <1>1 DEF SessionsTyped, SessionIs
<1>3. \A e \in Depots, g \in Fences : sess'[e][g] = IF e = d /\ g = f THEN s ELSE sess[e][g]
  BY DEF SessionsTyped, SessionIs
<1>4. QED BY <1>2, <1>3 DEF SessionsTyped

\* What happens to one replica's session of one fence.
SessionGoes(d, f) ==
  \/ sess'[d][f] = sess[d][f]
  \/ sess'[d][f] = NoSession
  \/ sess'[d][f].sealed = sess[d][f].sealed /\ sess'[d][f].staging = sess[d][f].staging
  \/ /\ SealFinish(d, f)
     /\ sess'[d][f].sealed = sess[d][f].sealed /\ sess'[d][f].staging = <<f, next[f]>>
  \/ /\ SealStage(d, f) /\ sess'[d][f].staging = NoPack
     /\ sess'[d][f].sealed = sess[d][f].sealed \cup {sess[d][f].staging}

\* The sessions keep their types, and change in those ways.
LEMMA SessionStep ==
  ASSUME DepotTyped, DepotNext
  PROVE  SessionsTyped' /\ \A d \in Depots, f \in Fences : SessionGoes(d, f)
<1> DEFINE Fine == SessionsTyped' /\ \A d \in Depots, f \in Fences : SessionGoes(d, f)
<1>a. SessionsTyped BY DEF DepotTyped
<1>b. \A d \in Depots, f \in Fences : sess[d][f] \in SessionType /\ GoodSession(f, sess[d][f])
  BY <1>a DEF SessionsTyped
<1>1. ASSUME NEW d \in Depots, NEW f \in Fences, NEW s, SessionIs(d, f, s), GoodSession(f, s),
             \/ s = NoSession
             \/ s.sealed = sess[d][f].sealed /\ s.staging = sess[d][f].staging
             \/ SealFinish(d, f) /\ s.sealed = sess[d][f].sealed /\ s.staging = <<f, next[f]>>
             \/ SealStage(d, f) /\ s.staging = NoPack /\ s.sealed = sess[d][f].sealed \cup {sess[d][f].staging}
      PROVE  Fine
  <2>1. SessionsTyped' BY <1>1, <1>a, SessionMoves
  <2>2. \A e \in Depots, g \in Fences : sess'[e][g] = IF e = d /\ g = f THEN s ELSE sess[e][g]
    BY <1>1, <1>a DEF SessionsTyped, SessionIs
  <2>3. ASSUME NEW e \in Depots, NEW g \in Fences PROVE SessionGoes(e, g)
    <3>1. CASE e = d /\ g = f
      <4>1. sess'[d][f] = s BY <2>2
      <4>2. QED BY <1>1, <3>1, <4>1 DEF SessionGoes
    <3>2. CASE ~(e = d /\ g = f) BY <2>2, <3>2 DEF SessionGoes
    <3>3. QED BY <3>1, <3>2
  <2>4. QED BY <2>1, <2>3
<1>2. ASSUME NEW d \in Depots, NEW f \in Fences, PutBlob(f, d) PROVE Fine
  <2>1. PICK b \in drive[f].todo : sess' = [sess EXCEPT ![d][f] = Append(@, b)] BY <1>2 DEF PutBlob
  <2> DEFINE s == Append(sess[d][f], b)
  <2>2. SessionIs(d, f, s) BY <2>1 DEF SessionIs
  <2>3. b \in Blobs BY <2>1 DEF DepotTyped, PostsTyped, DriveType
  <2>4. s \in SessionType /\ s.on /\ s.sealed = sess[d][f].sealed /\ s.staging = sess[d][f].staging
    BY <1>b, <2>3 DEF Append, SessionType
  <2> HIDE DEF s
  <2>5. GoodSession(f, s) BY <1>b, <2>4 DEF GoodSession
  <2>6. QED BY <1>1, <2>2, <2>4, <2>5
<1>3. ASSUME NEW d \in Depots, NEW f \in Fences, SealFinish(d, f) PROVE Fine
  <2> DEFINE p == <<f, next[f]>>
             s == [sess[d][f] EXCEPT !.open = {}, !.staging = p]
  <2>1. SessionIs(d, f, s) BY <1>3 DEF SealFinish, SessionIs
  <2>2. next[f] \in 1 .. MaxPacks BY <1>3, PacksAre DEF SealFinish, DepotTyped, TablesTyped
  <2>3. p \in Packs /\ p \in OwnPacks(f) BY <2>2, PacksAre DEF OwnPacks
  <2>4. sess[d][f].on BY <1>3, <1>b DEF SealFinish, GoodSession, NoSession
  <2> HIDE DEF p
  <2>5. s \in SessionType /\ s.on /\ s.sealed = sess[d][f].sealed /\ s.staging = p
    BY <1>b, <2>3, <2>4 DEF SessionType
  <2> HIDE DEF s
  <2>6. GoodSession(f, s) BY <1>b, <2>3, <2>5 DEF GoodSession
  <2>7. s.staging = <<f, next[f]>> BY <2>5 DEF p
  <2>8. QED BY <1>1, <1>3, <2>1, <2>5, <2>6, <2>7
<1>4. ASSUME NEW d \in Depots, NEW f \in Fences, SealFails(d, f) PROVE Fine
  <2> DEFINE s == [sess[d][f] EXCEPT !.open = {}, !.packed = @ \ sess[d][f].open]
  <2>1. SessionIs(d, f, s) BY <1>4 DEF SealFails, SessionIs
  <2>2. sess[d][f].on BY <1>4, <1>b DEF SealFails, GoodSession, NoSession
  <2>3. s \in SessionType /\ s.on /\ s.sealed = sess[d][f].sealed /\ s.staging = sess[d][f].staging
    BY <1>b, <2>2 DEF SessionType
  <2> HIDE DEF s
  <2>4. GoodSession(f, s) BY <1>b, <2>3 DEF GoodSession
  <2>5. QED BY <1>1, <2>1, <2>3, <2>4
<1>5. ASSUME NEW d \in Depots, NEW f \in Fences, SealStage(d, f) PROVE Fine
  <2> DEFINE p == sess[d][f].staging
             s(packed) == [sess[d][f] EXCEPT !.staging = NoPack, !.sealed = @ \cup {p}, !.packed = packed]
  <2>0. p \in OwnPacks(f) /\ p \in Packs BY <1>5, <1>b DEF SealStage, GoodSession, OwnPacks
  <2>1. sess[d][f].on BY <1>5, <1>b DEF SealStage, GoodSession, NoSession
  <2>2. \/ SessionIs(d, f, s(sess[d][f].packed))
        \/ SessionIs(d, f, s(StillPacked(sess[d][f])))
    <3>1. [sess[d][f] EXCEPT !.staging = NoPack, !.sealed = @ \cup {p}] = s(sess[d][f].packed)
      BY <1>b DEF SessionType
    <3>2. \/ SessionIs(d, f, [sess[d][f] EXCEPT !.staging = NoPack, !.sealed = @ \cup {p}])
          \/ SessionIs(d, f, s(StillPacked(sess[d][f])))
      <4>1. CASE sess' = [sess EXCEPT ![d][f].staging = NoPack, ![d][f].sealed = @ \cup {p}]
        BY <4>1 DEF SessionIs
      <4>2. CASE sess' = [sess EXCEPT ![d][f].staging = NoPack, ![d][f].sealed = @ \cup {p},
                                      ![d][f].packed = StillPacked(sess[d][f])]
        BY <4>2 DEF SessionIs
      <4>3. QED BY <1>5, <4>1, <4>2 DEF SealStage
    <3>3. QED BY <3>1, <3>2
  <2>3. sess[d][f].packed \subseteq Blobs /\ StillPacked(sess[d][f]) \subseteq Blobs
    BY <1>b DEF SessionType, StillPacked
  <2>4. ASSUME NEW packed \in SUBSET Blobs, SessionIs(d, f, s(packed)) PROVE Fine
    <3> DEFINE t == s(packed)
    <3>1. t \in SessionType /\ t.on /\ t.staging = NoPack /\ t.sealed = sess[d][f].sealed \cup {p}
      BY <1>b, <2>0, <2>1 DEF SessionType
    <3>2. SessionIs(d, f, t) BY <2>4
    <3> HIDE DEF t
    <3>3. GoodSession(f, t) BY <1>b, <2>0, <3>1 DEF GoodSession
    <3>4. QED BY <1>1, <1>5, <3>1, <3>2, <3>3
  <2>5. QED BY <2>2, <2>3, <2>4
<1>6. ASSUME NEW d \in Depots, NEW f \in Fences, SessionIs(d, f, NoSession) PROVE Fine
  BY <1>1, <1>6, NothingGood
<1>7. ASSUME NEW d \in Depots, DepotRestarts(d) PROVE Fine
  <2>1. \A e \in Depots, g \in Fences : sess'[e][g] = IF e = d THEN NoSession ELSE sess[e][g]
    BY <1>7, <1>a DEF DepotRestarts, SessionsTyped
  <2>2. sess' \in [Depots -> [Fences -> SessionType]]
    <3>1. [f \in Fences |-> NoSession] \in [Fences -> SessionType] BY NothingGood DEF GoodSession
    <3>2. QED BY <1>7, <1>a, <3>1 DEF DepotRestarts, SessionsTyped
  <2>3. QED BY <1>a, <2>1, <2>2, NothingGood DEF SessionsTyped, SessionGoes
<1>8. ASSUME UNCHANGED sess PROVE Fine
  BY <1>8, <1>a DEF SessionsTyped, SessionGoes
<1>9. ASSUME NEW d \in Depots, NEW f \in Fences, AbortSession(d, f) PROVE Fine
  BY <1>6, <1>9 DEF AbortSession, SessionIs
<1>10. ASSUME NEW f \in Fences, RecordCommits(f) PROVE Fine
  <2>1. post[f].at \in Depots BY <1>10 DEF RecordCommits, PostAt, DepotTyped, PostsTyped, GoodPost
  <2>2. QED BY <1>6, <1>10, <2>1 DEF RecordCommits, SessionIs
<1> HIDE DEF Fine
<1>11. Fine
  BY <1>2, <1>3, <1>4, <1>5, <1>7, <1>8, <1>9, <1>10
  DEF DepotNext, Have, PutTrees, LostAnswer, DriveEnds, PostStep, PostSealed, Gate, Flip, Recheck, Nominate,
      FenceAges, RunAges, RunReopens, PostBegins, PassBegins, PassStep, ReclaimRows, ListOrphans, QuietOrphans,
      DeleteOrphans, ExpiryStep, LockVictim, Reread, CheckBorrowers, ExpireFence, ReadPointer, ReadBytes
<1>12. QED BY <1>11 DEF Fine

PostIs(f, t) == post' = [post EXCEPT ![f] = t]

\* What happens to the POST of one fence.
PostGoes(f) ==
  \/ post'[f] = post[f]
  \/ post'[f].pc \in {"idle", "seal"} /\ post'[f].sealed = {} /\ post'[f].mine = {} /\ post'[f].shared = {}
  \/ /\ PostSealed(f) /\ post'[f].pc = "gate" /\ post'[f].sealed = sess[post[f].at][f].sealed
     /\ post[f].at \in Depots /\ post'[f].mine = {} /\ post'[f].shared = {}
  \/ Gate(f) /\ post'[f].pc = "flip" /\ post'[f].sealed = post[f].sealed /\ post'[f].mine = {} /\ post'[f].shared = {}
  \/ /\ Flip(f) /\ post'[f].pc = "recheck" /\ post'[f].sealed = post[f].sealed /\ post'[f].shared = {}
     /\ post'[f].mine = post[f].sealed \cup {p \in Packs : FenceOf(p) = f /\ row[p] # "none"}
  \/ /\ Recheck(f) /\ post'[f].pc = "commit" /\ post'[f].sealed = post[f].sealed /\ post'[f].mine = post[f].mine
     /\ post'[f].shared = ShareLocks(f) /\ Closure[f] \subseteq UNION {holds[p] : p \in StandsOn(f)}

\* The POSTs and the drains keep their types, and go on in one of those ways.
LEMMA PostsStep ==
  ASSUME DepotTyped, DepotNext
  PROVE  PostsTyped' /\ \A f \in Fences : PostGoes(f)
<1> DEFINE Fine == PostsTyped' /\ \A f \in Fences : PostGoes(f)
<1>a. /\ post \in [Fences -> PostType] /\ drive \in [Fences -> DriveType]
      /\ \A f \in Fences : post[f] \in PostType /\ GoodPost(f, post[f]) /\ drive[f] \in DriveType
  BY DEF DepotTyped, PostsTyped
<1>0. ASSUME NEW f \in Fences, NEW t, PostIs(f, t), GoodPost(f, t), drive' \in [Fences -> DriveType],
             PostIs(f, t) => PostGoes(f)
      PROVE  Fine
  <2>1. t \in PostType BY <1>0 DEF GoodPost
  <2>2. post' \in [Fences -> PostType] BY <1>0, <1>a, <2>1 DEF PostIs
  <2>3. \A g \in Fences : post'[g] = IF g = f THEN t ELSE post[g] BY <1>0, <1>a DEF PostIs
  <2>4. \A g \in Fences : g # f => PostGoes(g) BY <2>3 DEF PostGoes
  <2>5. QED BY <1>0, <1>a, <2>2, <2>3, <2>4 DEF PostsTyped
<1>1. ASSUME UNCHANGED post, drive' \in [Fences -> DriveType] PROVE Fine
  BY <1>1, <1>a DEF PostsTyped, PostGoes
<1>b. ASSUME NEW f \in Fences, NEW to \in {"idle", "put", "post", "wait", "over"}
      PROVE  [drive EXCEPT ![f].pc = to] \in [Fences -> DriveType]
  BY <1>a DEF DriveType
<1>2. ASSUME NEW f \in Fences, Have(f) PROVE Fine
  <2>1. [pc |-> "put", todo |-> Closure[f] \ DurableFor(f)] \in DriveType BY DepotAssumption DEF DriveType
  <2>2. QED BY <1>1, <1>2, <1>a, <2>1 DEF Have
<1>3. ASSUME NEW f \in Fences, PutTrees(f) PROVE Fine BY <1>1, <1>3, <1>b DEF PutTrees
<1>4. ASSUME NEW f \in Fences, LostAnswer(f) PROVE Fine BY <1>1, <1>4, <1>b DEF LostAnswer
<1>5. ASSUME NEW f \in Fences, DriveEnds(f) PROVE Fine
  <2>1. [pc |-> "over", todo |-> {}] \in DriveType BY DEF DriveType
  <2>2. QED BY <1>1, <1>5, <1>a, <2>1 DEF DriveEnds
<1>6. ASSUME NEW d \in Depots, NEW f \in Fences, PutBlob(f, d) PROVE Fine
  <2>1. PICK b : drive' = [drive EXCEPT ![f].todo = @ \ {b}] BY <1>6 DEF PutBlob
  <2>2. drive' \in [Fences -> DriveType] BY <1>a, <2>1 DEF DriveType
  <2>3. QED BY <1>1, <1>6, <2>2 DEF PutBlob
<1>c. ASSUME NEW f \in Fences, Refused(f) PROVE Fine
  <2>1. PostIs(f, IdlePost) BY <1>c DEF Refused, PostIs
  <2>0. PICK to \in {"idle", "post"} : drive' = IF drive[f].pc = "wait" THEN [drive EXCEPT ![f].pc = to] ELSE drive
    BY <1>c DEF Refused
  <2>2. drive' \in [Fences -> DriveType] BY <1>a, <1>b, <2>0
  <2>3. post'[f] = IdlePost BY <2>1, <1>a DEF PostIs
  <2>4. PostGoes(f) BY <2>3 DEF PostGoes, IdlePost
  <2>5. QED BY <1>0, <2>1, <2>2, <2>4, NothingGood
<1>7. ASSUME NEW d \in Depots, NEW f \in Fences, PostBegins(f, d) PROVE Fine
  <2>1. CASE f \in record BY <1>1, <1>7, <1>b, <2>1 DEF PostBegins
  <2>2. CASE f \notin record
    <3> DEFINE t == [IdlePost EXCEPT !.pc = "seal", !.at = d]
    <3>1. PostIs(f, t) /\ drive' \in [Fences -> DriveType] BY <1>7, <1>b, <2>2 DEF PostBegins, PostIs
    <3>2. t \in PostType /\ t.pc = "seal" /\ t.at = d /\ t.sealed = {} /\ t.mine = {} /\ t.shared = {}
      BY DEF IdlePost, PostType
    <3>3. post'[f] = t BY <3>1, <1>a DEF PostIs
    <3> HIDE DEF t
    <3>4. GoodPost(f, t) BY <3>2 DEF GoodPost
    <3>5. PostGoes(f) BY <3>2, <3>3 DEF PostGoes
    <3>6. QED BY <1>0, <3>1, <3>4, <3>5
  <2>3. QED BY <2>1, <2>2
<1>8. ASSUME NEW d \in Depots, NEW f \in Fences, SealFails(d, f) PROVE Fine
  BY <1>1, <1>8, <1>a, <1>c DEF SealFails
<1>9. ASSUME NEW f \in Fences, PostSealed(f) PROVE Fine
  <2> DEFINE own == sess[post[f].at][f].sealed
             t == [post[f] EXCEPT !.pc = "gate", !.sealed = own]
  <2>1. PostIs(f, t) /\ drive' \in [Fences -> DriveType] BY <1>9, <1>a DEF PostSealed, PostIs
  <2>2. /\ post[f].pc = "seal" /\ post[f].at \in Depots /\ post[f].mine = {} /\ post[f].shared = {}
        /\ post[f].sealed \subseteq OwnPacks(f)
    BY <1>9, <1>a DEF PostSealed, PostAt, GoodPost
  <2>3. own \subseteq OwnPacks(f) /\ own \subseteq Packs
    BY <2>2 DEF DepotTyped, SessionsTyped, GoodSession, OwnPacks
  <2> HIDE DEF own
  <2>4. /\ t \in PostType /\ t.pc = "gate" /\ t.at = post[f].at /\ t.sealed = own /\ t.mine = {} /\ t.shared = {}
    <3>1. post[f] \in PostType BY <1>a
    <3>2. QED BY <2>2, <2>3, <3>1 DEF PostType
  <2>5. post'[f] = t BY <2>1, <1>a DEF PostIs
  <2> HIDE DEF t
  <2>6. GoodPost(f, t) BY <2>2, <2>3, <2>4 DEF GoodPost
  <2>7. PostGoes(f) BY <1>9, <2>2, <2>4, <2>5 DEF PostGoes, own
  <2>8. QED BY <1>0, <2>1, <2>6, <2>7
<1>10. ASSUME NEW f \in Fences, Gate(f) PROVE Fine
  <2>1. CASE Refused(f) BY <1>c, <2>1
  <2>2. CASE post' = [post EXCEPT ![f].pc = "flip"] /\ UNCHANGED drive
    <3> DEFINE t == [post[f] EXCEPT !.pc = "flip"]
    <3>1. PostIs(f, t) /\ drive' \in [Fences -> DriveType] BY <2>2, <1>a DEF PostIs
    <3>2. post[f].pc = "gate" /\ post[f].at \in Depots /\ post[f].mine = {} /\ post[f].shared = {}
      BY <1>10, <1>a DEF Gate, PostAt, GoodPost
    <3>3. /\ t \in PostType /\ t.pc = "flip" /\ t.at = post[f].at /\ t.sealed = post[f].sealed
          /\ t.mine = {} /\ t.shared = {}
      BY <1>a, <3>2 DEF PostType
    <3>4. post'[f] = t BY <3>1, <1>a DEF PostIs
    <3> HIDE DEF t
    <3>5. GoodPost(f, t) BY <1>a, <3>2, <3>3 DEF GoodPost
    <3>6. PostGoes(f) BY <1>10, <3>3, <3>4 DEF PostGoes
    <3>7. QED BY <1>0, <3>1, <3>5, <3>6
  <2>3. QED BY <1>10, <2>1, <2>2 DEF Gate
<1>11. ASSUME NEW f \in Fences, Flip(f) PROVE Fine
  <2> DEFINE named == {p \in Packs : FenceOf(p) = f /\ row[p] # "none"}
             mine == post[f].mine \cup post[f].sealed \cup named
             t == [post[f] EXCEPT !.pc = "recheck", !.mine = mine]
  <2>1. PostIs(f, t) /\ drive' \in [Fences -> DriveType] BY <1>11, <1>a DEF Flip, PostIs
  <2>2. /\ post[f].pc = "flip" /\ post[f].at \in Depots /\ post[f].mine = {} /\ post[f].shared = {}
        /\ post[f].sealed \subseteq OwnPacks(f)
    BY <1>11, <1>a DEF Flip, PostAt, GoodPost
  <2>3. mine = post[f].sealed \cup named /\ mine \subseteq OwnPacks(f) /\ mine \subseteq Packs
    BY <2>2 DEF OwnPacks
  <2> HIDE DEF mine
  <2>4. /\ t \in PostType /\ t.pc = "recheck" /\ t.at = post[f].at /\ t.sealed = post[f].sealed
        /\ t.mine = mine /\ t.shared = {}
    <3>1. post[f] \in PostType BY <1>a
    <3>2. QED BY <2>2, <2>3, <3>1 DEF PostType
  <2>5. post'[f] = t BY <2>1, <1>a DEF PostIs
  <2> HIDE DEF t
  <2>6. GoodPost(f, t) BY <2>2, <2>3, <2>4 DEF GoodPost
  <2>7. PostGoes(f) BY <1>11, <2>3, <2>4, <2>5 DEF PostGoes
  <2>8. QED BY <1>0, <2>1, <2>6, <2>7
<1>12. ASSUME NEW f \in Fences, Recheck(f) PROVE Fine
  <2>1. CASE Refused(f) BY <1>c, <2>1
  <2>2. CASE /\ Closure[f] \subseteq UNION {holds[p] : p \in StandsOn(f)}
             /\ post' = [post EXCEPT ![f].pc = "commit", ![f].shared = ShareLocks(f)] /\ UNCHANGED drive
    <3> DEFINE p == post[f]
               locks == ShareLocks(f)
               t == [p EXCEPT !.pc = "commit", !.shared = locks]
    <3>1. PostIs(f, t) /\ drive' \in [Fences -> DriveType] BY <2>2, <1>a DEF PostIs
    <3>2. post[f].pc = "recheck" /\ post[f].at \in Depots BY <1>12, <1>a DEF Recheck, PostAt, GoodPost
    <3>3. locks \subseteq Fences BY PacksAre DEF ShareLocks, StandsOn
    <3>a. p \in PostType BY <1>a
    <3> HIDE DEF p, locks
    <3>b. /\ t \in PostType /\ t.pc = "commit" /\ t.at = p.at /\ t.sealed = p.sealed
          /\ t.mine = p.mine /\ t.shared = locks
      BY <3>3, <3>a DEF PostType
    <3>4. /\ t \in PostType /\ t.pc = "commit" /\ t.at = post[f].at /\ t.sealed = post[f].sealed
          /\ t.mine = post[f].mine /\ t.shared = ShareLocks(f)
      BY <3>b DEF p, locks
    <3>5. post'[f] = t BY <3>1, <1>a DEF PostIs
    <3> HIDE DEF t
    <3>6. GoodPost(f, t) BY <1>a, <3>2, <3>4 DEF GoodPost
    <3>7. PostGoes(f) BY <1>12, <2>2, <3>4, <3>5 DEF PostGoes
    <3>8. QED BY <1>0, <3>1, <3>6, <3>7
  <2>3. QED BY <1>12, <2>1, <2>2 DEF Recheck
<1>13. ASSUME NEW f \in Fences, RecordCommits(f) PROVE Fine
  <2>1. PostIs(f, IdlePost) BY <1>13 DEF RecordCommits, PostIs
  <2>2. drive' \in [Fences -> DriveType] BY <1>13, <1>a, <1>b DEF RecordCommits
  <2>3. post'[f] = IdlePost BY <2>1, <1>a DEF PostIs
  <2>4. PostGoes(f) BY <2>3 DEF PostGoes, IdlePost
  <2>5. QED BY <1>0, <2>1, <2>2, <2>4, NothingGood
<1>14. ASSUME NEW d \in Depots, DepotRestarts(d) PROVE Fine
  <2>1. \A f \in Fences : post'[f] = post[f] \/ post'[f] = IdlePost BY <1>14 DEF DepotRestarts
  <2>2. IdlePost \in PostType BY DEF IdlePost, PostType
  <2>3. post' \in [Fences -> PostType] BY <1>14, <1>a, <2>2 DEF DepotRestarts
  <2>4. drive' \in [Fences -> DriveType]
    <3>1. ASSUME NEW f \in Fences PROVE [drive[f] EXCEPT !.pc = "idle"] \in DriveType BY <1>a DEF DriveType
    <3>2. QED BY <1>14, <1>a, <3>1 DEF DepotRestarts
  <2>5. \A f \in Fences : GoodPost(f, post'[f]) BY <1>a, <2>1, NothingGood
  <2>6. \A f \in Fences : PostGoes(f) BY <2>1 DEF PostGoes, IdlePost
  <2>7. QED BY <2>3, <2>4, <2>5, <2>6 DEF PostsTyped
<1>15. ASSUME UNCHANGED <<post, drive>> PROVE Fine BY <1>1, <1>15, <1>a
<1> HIDE DEF Fine
<1>16. Fine
  <2>1. ASSUME NEW f \in Fences, \/ Have(f) \/ PutTrees(f) \/ LostAnswer(f) \/ DriveEnds(f) \/ PostStep(f)
                                 \/ Nominate(f) \/ FenceAges(f) \/ RunAges(f) \/ RunReopens(f)
        PROVE  Fine
    BY <2>1, <1>2, <1>3, <1>4, <1>5, <1>9, <1>10, <1>11, <1>12, <1>13, <1>15
    DEF PostStep, Nominate, FenceAges, RunAges, RunReopens
  <2>2. ASSUME NEW d \in Depots, NEW f \in Fences,
               \/ PutBlob(f, d) \/ PostBegins(f, d) \/ SealFinish(d, f) \/ SealFails(d, f)
               \/ SealStage(d, f) \/ AbortSession(d, f)
        PROVE  Fine
    BY <2>2, <1>6, <1>7, <1>8, <1>15 DEF SealFinish, SealStage, AbortSession
  <2>3. ASSUME NEW d \in Depots, PassBegins(d) \/ PassStep(d) \/ DepotRestarts(d) PROVE Fine
    BY <2>3, <1>14, <1>15 DEF PassBegins, PassStep, ReclaimRows, ListOrphans, QuietOrphans, DeleteOrphans
  <2>4. ASSUME ExpiryStep \/ ReadBytes \/ \E p \in Packs : ReadPointer(p) PROVE Fine
    BY <2>4, <1>15 DEF ExpiryStep, LockVictim, Reread, CheckBorrowers, ExpireFence, ReadPointer, ReadBytes
  <2>5. QED BY <2>1, <2>2, <2>3, <2>4 DEF DepotNext
<1>17. QED BY <1>16 DEF Fine

\* What happens to the row and the object of one pack.
RowGoes(p) ==
  \/ row'[p] = row[p]
  \/ \E d \in Depots : SealStage(d, FenceOf(p)) /\ p = sess[d][FenceOf(p)].staging /\ row'[p] = "staged"
  \/ RecordCommits(FenceOf(p)) /\ p \in post[FenceOf(p)].mine /\ row'[p] = "committed"
  \/ ExpireFence /\ FenceOf(p) = expiry.fence /\ row'[p] = "none"
  \/ \E d \in Depots : ReclaimRows(d) /\ p \in Doomed /\ row'[p] = "none"

NewPack(p) == \E d \in Depots : SealFinish(d, FenceOf(p)) /\ p = <<FenceOf(p), next[FenceOf(p)]>>

BytesGo(p) ==
  /\ p \in bytes' \ bytes => NewPack(p)
  /\ p \in bytes \ bytes' => \E d \in Depots : DeleteOrphans(d) /\ p \in SeenTwice(d)
  /\ holds'[p] # holds[p] => NewPack(p)
  /\ NewPack(p) => p \in bytes' /\ next'[FenceOf(p)] = next[FenceOf(p)] + 1
  /\ next'[FenceOf(p)] >= next[FenceOf(p)]

\* The tables keep their types, and a pack's row and object change in those
\* ways.
LEMMA TablesStep ==
  ASSUME DepotTyped, DepotNext
  PROVE  /\ TablesTyped'
         /\ \A p \in Packs : RowGoes(p) /\ BytesGo(p)
         /\ \A f \in quiet' : (f \in quiet /\ \A d \in Depots : ~SealFinish(d, f)) \/ FenceAges(f)
<1> DEFINE Fine == /\ TablesTyped'
                   /\ \A p \in Packs : RowGoes(p) /\ BytesGo(p)
                   /\ \A f \in quiet' : (f \in quiet /\ \A d \in Depots : ~SealFinish(d, f)) \/ FenceAges(f)
<1>a. /\ past \subseteq Fences /\ quiet \subseteq Fences /\ record \subseteq Fences
      /\ bytes \subseteq Packs /\ holds \in [Packs -> SUBSET Blobs]
      /\ row \in [Packs -> {"none", "staged", "committed"}]
      /\ borrows \subseteq Fences \X Fences /\ next \in [Fences -> 1 .. MaxPacks + 1]
      /\ \A f \in Fences : next[f] \in 1 .. MaxPacks + 1
  BY DEF DepotTyped, TablesTyped
<1>b. ASSUME NEW p \in Packs, UNCHANGED <<bytes, holds, next>>, \A d \in Depots : ~SealFinish(d, FenceOf(p))
      PROVE  BytesGo(p)
  <2>1. next[FenceOf(p)] \in Nat BY <1>a, PacksAre
  <2>2. QED BY <1>b, <2>1 DEF BytesGo, NewPack
<1>c. ASSUME NEW d \in Depots, NEW f \in Fences, SealFinish(d, f) PROVE next'[f] # next[f]
  <2>1. next'[f] = next[f] + 1 BY <1>c, <1>a DEF SealFinish
  <2>2. QED BY <1>a, <2>1, PacksAre
<1>d. ASSUME UNCHANGED next PROVE \A d \in Depots, f \in Fences : ~SealFinish(d, f)
  BY <1>c, <1>d
<1>0. ASSUME UNCHANGED <<bytes, holds, next>> PROVE \A p \in Packs : BytesGo(p)
  BY <1>0, <1>b, <1>d, PacksAre
<1>1. ASSUME UNCHANGED <<past, record, bytes, holds, row, borrows, next>>, quiet' \subseteq quiet PROVE Fine
  BY <1>1, <1>0, <1>a, <1>d DEF TablesTyped, RowGoes
<1>2. ASSUME NEW d \in Depots, NEW f \in Fences, SealFinish(d, f) PROVE Fine
  <2> DEFINE q == <<f, next[f]>>
  <2>1. next[f] \in 1 .. MaxPacks BY <1>2, <1>a, PacksAre DEF SealFinish
  <2>2. q \in Packs /\ FenceOf(q) = f BY <2>1, PacksAre
  <2>3. sess[d][f].open \subseteq Blobs BY DEF DepotTyped, SessionsTyped, SessionType
  <2>4. /\ bytes' = bytes \cup {q} /\ holds' = [holds EXCEPT ![q] = sess[d][f].open]
        /\ next' = [next EXCEPT ![f] = @ + 1] /\ quiet' = quiet \ {f}
        /\ UNCHANGED <<past, row, record, borrows>>
    BY <1>2 DEF SealFinish
  <2>5. TablesTyped' BY <1>a, <2>1, <2>2, <2>3, <2>4, PacksAre DEF TablesTyped
  <2>6. NewPack(q) BY <1>2, <2>2 DEF NewPack
  <2>7. \A p \in Packs : NewPack(p) => p = q
    <3>1. ASSUME NEW p \in Packs, NEW e \in Depots, SealFinish(e, FenceOf(p)), p = <<FenceOf(p), next[FenceOf(p)]>>
          PROVE  p = q
      <4>1. next'[FenceOf(p)] # next[FenceOf(p)] BY <1>c, <3>1, PacksAre
      <4>2. FenceOf(p) = f BY <1>a, <2>4, <4>1, PacksAre
      <4>3. QED BY <3>1, <4>2
    <3>2. QED BY <3>1 DEF NewPack
  <2> HIDE DEF q
  <2>8. \A g \in Fences : next'[g] >= next[g] /\ next'[f] = next[f] + 1 BY <1>a, <2>4, PacksAre
  <2>9. \A p \in Packs : p # q => holds'[p] = holds[p] BY <1>a, <2>4
  <2>10. \A p \in Packs : BytesGo(p) BY <2>2, <2>4, <2>6, <2>7, <2>8, <2>9, PacksAre DEF BytesGo
  <2>11. \A p \in Packs : RowGoes(p) BY <2>4 DEF RowGoes
  <2>12. \A g \in quiet' : g \in quiet /\ \A e \in Depots : ~SealFinish(e, g)
    <3>1. ASSUME NEW g \in quiet', NEW e \in Depots, SealFinish(e, g) PROVE FALSE
      <4>1. g \in Fences /\ g # f BY <1>a, <2>4
      <4>2. next'[g] = next[g] BY <1>a, <2>4, <4>1
      <4>3. QED BY <1>c, <3>1, <4>1, <4>2
    <3>2. QED BY <2>4, <3>1
  <2>13. QED BY <2>5, <2>10, <2>11, <2>12
<1>3. ASSUME NEW d \in Depots, NEW f \in Fences, SealStage(d, f) PROVE Fine
  <2>1. sess[d][f].staging \in Packs /\ FenceOf(sess[d][f].staging) = f
    BY <1>3 DEF SealStage, DepotTyped, SessionsTyped, GoodSession, OwnPacks
  <2>0. row' = row \/ row' = [row EXCEPT ![sess[d][f].staging] = "staged"] BY <1>3 DEF SealStage
  <2>2. \A p \in Packs : RowGoes(p) BY <1>3, <1>a, <2>0, <2>1 DEF RowGoes
  <2>3. TablesTyped' BY <1>3, <1>a, <2>1 DEF SealStage, TablesTyped
  <2>4. UNCHANGED <<bytes, holds, next, quiet>> BY <1>3 DEF SealStage
  <2>5. QED BY <1>0, <1>d, <2>2, <2>3, <2>4, <1>a
<1>4. ASSUME NEW f \in Fences, RecordCommits(f) PROVE Fine
  <2>1. UNCHANGED <<past, bytes, holds, next, quiet>> BY <1>4 DEF RecordCommits
  <2>2. Lenders(f) \subseteq Fences BY PacksAre DEF Lenders, StandsOn
  <2>3. TablesTyped' BY <1>4, <1>a, <2>1, <2>2 DEF RecordCommits, TablesTyped
  <2>4. \A p \in post[f].mine : FenceOf(p) = f BY DEF DepotTyped, PostsTyped, GoodPost, OwnPacks
  <2>5. \A p \in Packs : row'[p] = IF p \in post[f].mine THEN "committed" ELSE row[p] BY <1>4 DEF RecordCommits
  <2>6. \A p \in Packs : RowGoes(p) BY <1>4, <2>4, <2>5 DEF RowGoes
  <2>7. QED BY <1>0, <1>d, <1>a, <2>1, <2>3, <2>6
<1>5. ASSUME ExpireFence PROVE Fine
  <2>1. UNCHANGED <<past, bytes, holds, next, quiet>> BY <1>5 DEF ExpireFence
  <2>2. TablesTyped' BY <1>5, <1>a, <2>1 DEF ExpireFence, TablesTyped
  <2>3. \A p \in Packs : row'[p] = IF FenceOf(p) = expiry.fence THEN "none" ELSE row[p] BY <1>5 DEF ExpireFence
  <2>4. \A p \in Packs : RowGoes(p) BY <1>5, <2>3 DEF RowGoes
  <2>5. QED BY <1>0, <1>d, <1>a, <2>1, <2>2, <2>4
<1>6. ASSUME NEW d \in Depots, ReclaimRows(d) PROVE Fine
  <2>1. UNCHANGED <<past, bytes, holds, next, quiet, record, borrows>> BY <1>6 DEF ReclaimRows
  <2>2. row' = [p \in Packs |-> IF p \in Doomed THEN "none" ELSE row[p]] BY <1>6 DEF ReclaimRows
  <2>3. TablesTyped' BY <1>a, <2>1, <2>2 DEF TablesTyped
  <2>4. \A p \in Packs : RowGoes(p) BY <1>6, <2>2 DEF RowGoes
  <2>5. QED BY <1>0, <1>d, <1>a, <2>1, <2>3, <2>4
<1>7. ASSUME NEW d \in Depots, DeleteOrphans(d) PROVE Fine
  <2>1. UNCHANGED <<past, holds, next, quiet, record, borrows, row>> /\ bytes' = bytes \ SeenTwice(d)
    BY <1>7 DEF DeleteOrphans
  <2>2. TablesTyped' BY <1>a, <2>1 DEF TablesTyped
  <2>3. \A p \in Packs : RowGoes(p) BY <2>1 DEF RowGoes
  <2>4. \A p \in Packs : ~NewPack(p) /\ next[FenceOf(p)] \in Nat BY <1>a, <1>d, <2>1, PacksAre DEF NewPack
  <2>5. \A p \in Packs : BytesGo(p) BY <1>7, <2>1, <2>4 DEF BytesGo
  <2>6. QED BY <1>a, <1>d, <2>1, <2>2, <2>3, <2>5
<1>8. ASSUME NEW f \in Fences, FenceAges(f) PROVE Fine
  <2>1. UNCHANGED <<past, record, bytes, holds, row, borrows, next>> /\ quiet' = quiet \cup {f} BY <1>8 DEF FenceAges
  <2>2. TablesTyped' BY <1>a, <2>1 DEF TablesTyped
  <2>3. \A p \in Packs : RowGoes(p) BY <2>1 DEF RowGoes
  <2>4. QED BY <1>0, <1>8, <1>a, <1>d, <2>1, <2>2, <2>3
<1>9. ASSUME NEW f \in Fences, RunAges(f) \/ RunReopens(f) PROVE Fine
  <2>1. UNCHANGED <<record, bytes, holds, row, borrows, next, quiet>> /\ past' \subseteq Fences
    BY <1>9, <1>a DEF RunAges, RunReopens
  <2>2. TablesTyped' BY <1>a, <2>1 DEF TablesTyped
  <2>3. \A p \in Packs : RowGoes(p) BY <2>1 DEF RowGoes
  <2>4. QED BY <1>0, <1>a, <1>d, <2>1, <2>2, <2>3
<1> HIDE DEF Fine
<1>10. Fine
  <2>1. ASSUME NEW f \in Fences, \/ Have(f) \/ PutTrees(f) \/ LostAnswer(f) \/ DriveEnds(f) \/ PostStep(f)
                                 \/ Nominate(f) \/ FenceAges(f) \/ RunAges(f) \/ RunReopens(f)
        PROVE  Fine
    BY <2>1, <1>1, <1>4, <1>8, <1>9
    DEF Have, PutTrees, LostAnswer, DriveEnds, PostStep, PostSealed, Gate, Flip, Recheck, Nominate
  <2>2. ASSUME NEW d \in Depots, NEW f \in Fences,
               \/ PutBlob(f, d) \/ PostBegins(f, d) \/ SealFinish(d, f) \/ SealFails(d, f)
               \/ SealStage(d, f) \/ AbortSession(d, f)
        PROVE  Fine
    BY <2>2, <1>1, <1>2, <1>3 DEF PutBlob, PostBegins, SealFails, AbortSession
  <2>3. ASSUME NEW d \in Depots, PassBegins(d) \/ PassStep(d) \/ DepotRestarts(d) PROVE Fine
    BY <2>3, <1>1, <1>6, <1>7 DEF PassBegins, PassStep, ListOrphans, QuietOrphans, DepotRestarts
  <2>4. ASSUME ExpiryStep \/ ReadBytes \/ \E p \in Packs : ReadPointer(p) PROVE Fine
    BY <2>4, <1>1, <1>5 DEF ExpiryStep, LockVictim, Reread, CheckBorrowers, ReadPointer, ReadBytes
  <2>5. QED BY <2>1, <2>2, <2>3, <2>4 DEF DepotNext
<1>11. QED BY <1>10 DEF Fine

NoPass == [pc |-> "idle", found |-> {}, seen |-> {}]

\* What happens to the reclaim pass of one replica.
PassGoes(d) ==
  \/ pass'[d] = pass[d]
  \/ DepotRestarts(d) /\ pass'[d] = NoPass
  \/ PassBegins(d) /\ pass'[d].pc = "rows" /\ pass'[d].seen = pass[d].seen
  \/ ReclaimRows(d) /\ pass'[d].pc = "list" /\ pass'[d].found = Doomed /\ pass'[d].seen = pass[d].seen
  \/ /\ ListOrphans(d) /\ pass'[d].pc = "quiet" /\ pass'[d].seen = pass[d].seen
     /\ pass'[d].found = {p \in bytes \ pass[d].found : FenceOf(p) \in quiet /\ row[p] = "none"}
  \/ /\ QuietOrphans(d) /\ pass'[d].pc = "delete" /\ pass'[d].seen = pass[d].seen
     /\ pass'[d].found = {p \in pass[d].found : FenceOf(p) \in quiet \ record}
  \/ DeleteOrphans(d) /\ pass'[d].pc = "idle" /\ pass'[d].seen = pass[d].found \ SeenTwice(d)

\* One pass changes, or none.
LEMMA PassMoves ==
  ASSUME pass \in [Depots -> PassType], NEW d \in Depots, NEW t \in PassType, pass' = [pass EXCEPT ![d] = t]
  PROVE  /\ pass' \in [Depots -> PassType] /\ pass'[d] = t
         /\ \A e \in Depots : e # d => pass'[e] = pass[e] /\ PassGoes(e)
<1>1. pass' \in [Depots -> PassType] /\ pass'[d] = t /\ \A e \in Depots : e # d => pass'[e] = pass[e] OBVIOUS
<1>2. QED BY <1>1 DEF PassGoes

\* The passes go on one at a time.
LEMMA PassStepTyped ==
  ASSUME DepotTyped, NEW d \in Depots, PassBegins(d) \/ PassStep(d) \/ DepotRestarts(d)
  PROVE  /\ pass' \in [Depots -> PassType] /\ \A e \in Depots : PassGoes(e)
         /\ \A e, c \in Depots : ~Idle(e)' => expiry' = IdleExpiry /\ (c # e => Idle(c)')
<1> DEFINE Fine == /\ pass' \in [Depots -> PassType] /\ \A e \in Depots : PassGoes(e)
                   /\ \A e, c \in Depots : ~Idle(e)' => expiry' = IdleExpiry /\ (c # e => Idle(c)')
<1>a. /\ pass \in [Depots -> PassType] /\ pass[d] \in PassType /\ bytes \subseteq Packs
      /\ \A e, c \in Depots : ~Idle(e) => expiry = IdleExpiry /\ (c # e => Idle(c))
  BY DEF DepotTyped, PassesTyped, TablesTyped
<1>0. ASSUME NEW t \in PassType, pass' = [pass EXCEPT ![d] = t], pass'[d] = t => PassGoes(d), UNCHANGED expiry,
             t.pc = "idle" \/ PassLockFree \/ ~Idle(d)
      PROVE  Fine
  <2>1. /\ pass' \in [Depots -> PassType] /\ pass'[d] = t
        /\ \A e \in Depots : e # d => pass'[e] = pass[e] /\ PassGoes(e)
    BY <1>0, <1>a, PassMoves
  <2>2. QED BY <1>0, <1>a, <2>1 DEF Idle, PassLockFree
<1>1. CASE PassBegins(d)
  <2> DEFINE t == [pass[d] EXCEPT !.pc = "rows"]
  <2>1. t \in PassType /\ t.pc = "rows" /\ t.seen = pass[d].seen BY <1>a DEF PassType
  <2>2. pass' = [pass EXCEPT ![d] = t] BY <1>1 DEF PassBegins, PassTo
  <2> HIDE DEF t
  <2>3. UNCHANGED expiry /\ PassLockFree BY <1>1 DEF PassBegins
  <2>4. QED BY <1>0, <1>1, <2>1, <2>2, <2>3 DEF PassGoes
<1>2. CASE ReclaimRows(d)
  <2> DEFINE t == [pass[d] EXCEPT !.pc = "list", !.found = Doomed]
  <2>0. Doomed \subseteq Packs BY DEF Doomed
  <2>1. t \in PassType /\ t.pc = "list" /\ t.found = Doomed /\ t.seen = pass[d].seen BY <1>a, <2>0 DEF PassType
  <2>2. pass' = [pass EXCEPT ![d] = t] BY <1>2 DEF ReclaimRows, PassTo
  <2> HIDE DEF t
  <2>3. UNCHANGED expiry /\ ~Idle(d) BY <1>2 DEF ReclaimRows, Idle
  <2>4. QED BY <1>0, <1>2, <2>1, <2>2, <2>3 DEF PassGoes
<1>3. CASE ListOrphans(d)
  <2> DEFINE old == {p \in bytes \ pass[d].found : FenceOf(p) \in quiet /\ row[p] = "none"}
             t == [pass[d] EXCEPT !.pc = "quiet", !.found = old]
  <2>0. old \subseteq Packs BY <1>a
  <2>2. pass' = [pass EXCEPT ![d] = t] BY <1>3 DEF ListOrphans, PassTo
  <2> HIDE DEF old
  <2>1. t \in PassType /\ t.pc = "quiet" /\ t.found = old /\ t.seen = pass[d].seen BY <1>a, <2>0 DEF PassType
  <2> HIDE DEF t
  <2>3. UNCHANGED expiry /\ ~Idle(d) BY <1>3 DEF ListOrphans, Idle
  <2>4. pass'[d] = t => PassGoes(d) BY <1>3, <2>1 DEF PassGoes, old
  <2>5. QED BY <1>0, <2>1, <2>2, <2>3, <2>4
<1>4. CASE QuietOrphans(d)
  <2> DEFINE old == {p \in pass[d].found : FenceOf(p) \in quiet \ record}
             t == [pass[d] EXCEPT !.pc = "delete", !.found = old]
  <2>0. old \subseteq Packs BY <1>a DEF PassType
  <2>2. pass' = [pass EXCEPT ![d] = t] BY <1>4 DEF QuietOrphans, PassTo
  <2> HIDE DEF old
  <2>1. t \in PassType /\ t.pc = "delete" /\ t.found = old /\ t.seen = pass[d].seen BY <1>a, <2>0 DEF PassType
  <2> HIDE DEF t
  <2>3. UNCHANGED expiry /\ ~Idle(d) BY <1>4 DEF QuietOrphans, Idle
  <2>4. pass'[d] = t => PassGoes(d) BY <1>4, <2>1 DEF PassGoes, old
  <2>5. QED BY <1>0, <2>1, <2>2, <2>3, <2>4
<1>5. CASE DeleteOrphans(d)
  <2> DEFINE t == [pc |-> "idle", found |-> {}, seen |-> pass[d].found \ SeenTwice(d)]
  <2>1. t \in PassType /\ t.pc = "idle" /\ t.seen = pass[d].found \ SeenTwice(d) BY <1>a DEF PassType
  <2>2. pass' = [pass EXCEPT ![d] = t] BY <1>5 DEF DeleteOrphans, PassTo
  <2> HIDE DEF t
  <2>3. UNCHANGED expiry BY <1>5 DEF DeleteOrphans
  <2>4. QED BY <1>0, <1>5, <2>1, <2>2, <2>3 DEF PassGoes
<1>6. CASE DepotRestarts(d)
  <2>1. NoPass \in PassType /\ NoPass.pc = "idle" BY DEF NoPass, PassType
  <2>2. pass' = [pass EXCEPT ![d] = NoPass] /\ UNCHANGED expiry BY <1>6 DEF DepotRestarts, NoPass
  <2>3. QED BY <1>0, <1>6, <2>1, <2>2 DEF PassGoes
<1>7. QED BY <1>1, <1>2, <1>3, <1>4, <1>5, <1>6 DEF PassStep

\* What happens to the expiry: it comes to delete past its three checks.
ExpiryGoes ==
  \/ expiry' = expiry
  \/ expiry' = IdleExpiry
  \/ expiry'.pc = "lock"
  \/ LockVictim /\ expiry'.pc = "reread" /\ expiry'.fence = expiry.fence
  \/ Reread /\ expiry'.pc = "borrowers" /\ expiry'.fence = expiry.fence /\ expiry.pc = "reread"
  \/ CheckBorrowers /\ expiry'.pc = "delete" /\ expiry'.fence = expiry.fence /\ ~Borrowed(expiry.fence) /\ expiry.pc = "borrowers"

\* The passes, the expiry and the reader keep their types.
LEMMA PassesStep ==
  ASSUME DepotTyped, DepotNext
  PROVE  PassesTyped' /\ ExpiryGoes /\ \A d \in Depots : PassGoes(d)
<1> DEFINE Alone == \A e, c \in Depots : ~Idle(e)' => expiry' = IdleExpiry /\ (c # e => Idle(c)')
           ExpiryFine == /\ expiry' \in ExpiryType /\ (expiry'.pc = "idle" => expiry' = IdleExpiry)
                         /\ (expiry'.pc # "idle" => expiry'.fence \in Fences) /\ ExpiryGoes
           PassFine == pass' \in [Depots -> PassType] /\ (\A d \in Depots : PassGoes(d)) /\ Alone
           ReaderFine == /\ reader' \in [pack : Packs \cup {NoPack}, since : SUBSET Depots]
                         /\ reader'.pack = NoPack => reader' = NoRead
<1>a. /\ expiry \in ExpiryType /\ (expiry.pc = "idle" => expiry = IdleExpiry)
      /\ (expiry.pc # "idle" => expiry.fence \in Fences) /\ pass \in [Depots -> PassType]
      /\ \A e, c \in Depots : ~Idle(e) => expiry = IdleExpiry /\ (c # e => Idle(c))
      /\ reader \in [pack : Packs \cup {NoPack}, since : SUBSET Depots] /\ (reader.pack = NoPack => reader = NoRead)
  BY DEF DepotTyped, PassesTyped
<1>0. IdleExpiry \in ExpiryType /\ IdleExpiry.pc = "idle" BY DEF IdleExpiry, ExpiryType
<1>1. ReaderFine
  <2>1. ASSUME NEW p \in Packs, ReadPointer(p) PROVE ReaderFine BY <2>1, PacksAre DEF ReadPointer
  <2>2. ASSUME ReadBytes PROVE ReaderFine BY <2>2 DEF ReadBytes, NoRead
  <2>3. ASSUME NEW d \in Depots, PassBegins(d) PROVE ReaderFine
    <3>1. [reader EXCEPT !.since = @ \cup {d}] \in [pack : Packs \cup {NoPack}, since : SUBSET Depots] BY <1>a
    <3>2. [reader EXCEPT !.since = @ \cup {d}].pack = reader.pack BY <1>a
    <3>3. QED BY <1>a, <2>3, <3>1, <3>2 DEF PassBegins
  <2>4. ASSUME NEW d \in Depots, DepotRestarts(d) PROVE ReaderFine
    <3>1. [reader EXCEPT !.since = @ \ {d}] \in [pack : Packs \cup {NoPack}, since : SUBSET Depots] BY <1>a
    <3>2. [reader EXCEPT !.since = @ \ {d}].pack = reader.pack BY <1>a
    <3>3. [NoRead EXCEPT !.since = @ \ {d}] = NoRead BY DEF NoRead
    <3>4. QED BY <1>a, <2>4, <3>1, <3>2, <3>3 DEF DepotRestarts
  <2>5. ASSUME UNCHANGED reader PROVE ReaderFine BY <1>a, <2>5
  <2> HIDE DEF ReaderFine
  <2>6. QED
    <3>1. ASSUME NEW f \in Fences, \/ Have(f) \/ PutTrees(f) \/ LostAnswer(f) \/ DriveEnds(f) \/ PostStep(f)
                                   \/ Nominate(f) \/ FenceAges(f) \/ RunAges(f) \/ RunReopens(f)
          PROVE  ReaderFine
      BY <3>1, <2>5
      DEF Have, PutTrees, LostAnswer, DriveEnds, PostStep, PostSealed, Gate, Flip, Recheck, RecordCommits,
          Nominate, FenceAges, RunAges, RunReopens
    <3>2. ASSUME NEW d \in Depots, NEW f \in Fences,
                 \/ PutBlob(f, d) \/ PostBegins(f, d) \/ SealFinish(d, f) \/ SealFails(d, f)
                 \/ SealStage(d, f) \/ AbortSession(d, f)
          PROVE  ReaderFine
      BY <3>2, <2>5
      DEF PutBlob, PostBegins, SealFinish, SealFails, SealStage, AbortSession
    <3>3. ASSUME NEW d \in Depots, PassBegins(d) \/ PassStep(d) \/ DepotRestarts(d) PROVE ReaderFine
      BY <3>3, <2>3, <2>4, <2>5
      DEF PassStep, ReclaimRows, ListOrphans, QuietOrphans, DeleteOrphans
    <3>4. ASSUME ExpiryStep \/ ReadBytes \/ \E p \in Packs : ReadPointer(p) PROVE ReaderFine
      BY <3>4, <2>1, <2>2, <2>5
      DEF ExpiryStep, LockVictim, Reread, CheckBorrowers, ExpireFence
    <3>5. QED BY <3>1, <3>2, <3>3, <3>4 DEF DepotNext
<1>2. ASSUME UNCHANGED pass, UNCHANGED expiry PROVE PassFine /\ ExpiryFine
  BY <1>a, <1>2 DEF PassGoes, ExpiryGoes, Idle
<1>3. ASSUME NEW d \in Depots, PassBegins(d) \/ PassStep(d) \/ DepotRestarts(d) PROVE PassFine /\ ExpiryFine
  <2>1. UNCHANGED expiry
    BY <1>3 DEF PassBegins, PassStep, ReclaimRows, ListOrphans, QuietOrphans, DeleteOrphans, DepotRestarts
  <2>2. PassFine BY <1>3, PassStepTyped
  <2>3. QED BY <1>a, <2>1, <2>2 DEF ExpiryGoes
<1>4. ASSUME NEW f \in Fences, Nominate(f) PROVE PassFine /\ ExpiryFine
  <2>1. UNCHANGED pass /\ (\A d \in Depots : Idle(d)) /\ expiry' = [pc |-> "lock", fence |-> f]
    BY <1>4 DEF Nominate, PassLockFree
  <2>2. PassFine BY <1>a, <2>1 DEF PassGoes, Idle
  <2>3. ExpiryFine BY <2>1 DEF ExpiryGoes, ExpiryType
  <2>4. QED BY <2>2, <2>3
<1>5. ASSUME ExpiryStep PROVE PassFine /\ ExpiryFine
  <2>1. UNCHANGED pass /\ expiry.pc # "idle"
    BY <1>5 DEF ExpiryStep, LockVictim, Reread, CheckBorrowers, ExpireFence
  <2>2. \A d \in Depots : Idle(d) BY <1>a, <1>0, <2>1
  <2>3. PassFine BY <1>a, <2>1, <2>2 DEF PassGoes, Idle
  <2>4. ASSUME NEW to \in {"reread", "borrowers", "delete"}, ExpiryTo(to)
        PROVE  expiry' \in ExpiryType /\ expiry'.pc = to /\ expiry'.fence = expiry.fence
    BY <1>a, <2>4 DEF ExpiryTo, ExpiryType
  <2>5. CASE LockVictim
    <3>1. ExpiryTo("reread") BY <2>5 DEF LockVictim
    <3>2. QED BY <1>a, <2>1, <2>3, <2>4, <2>5, <3>1 DEF ExpiryGoes
  <2>6. CASE Reread
    <3>1. CASE ExpiryTo("borrowers") BY <1>a, <2>1, <2>3, <2>4, <2>6, <3>1 DEF ExpiryGoes, Reread
    <3>2. CASE expiry' = IdleExpiry BY <1>0, <2>3, <3>2 DEF ExpiryGoes
    <3>3. QED BY <2>6, <3>1, <3>2 DEF Reread
  <2>7. CASE CheckBorrowers
    <3>1. CASE ExpiryTo("delete") /\ ~Borrowed(expiry.fence)
      BY <1>a, <2>1, <2>3, <2>4, <2>7, <3>1 DEF ExpiryGoes, CheckBorrowers
    <3>2. CASE expiry' = IdleExpiry BY <1>0, <2>3, <3>2 DEF ExpiryGoes
    <3>3. QED BY <2>7, <3>1, <3>2 DEF CheckBorrowers
  <2>8. CASE ExpireFence
    <3>1. expiry' = IdleExpiry BY <2>8 DEF ExpireFence
    <3>2. QED BY <1>0, <2>3, <3>1 DEF ExpiryGoes
  <2>9. QED BY <1>5, <2>5, <2>6, <2>7, <2>8 DEF ExpiryStep
<1> HIDE DEF ReaderFine, PassFine, ExpiryFine
<1>6. PassFine /\ ExpiryFine
  <2>1. ASSUME NEW f \in Fences, \/ Have(f) \/ PutTrees(f) \/ LostAnswer(f) \/ DriveEnds(f) \/ PostStep(f)
                                 \/ Nominate(f) \/ FenceAges(f) \/ RunAges(f) \/ RunReopens(f)
        PROVE  PassFine /\ ExpiryFine
    BY <2>1, <1>2, <1>4
    DEF Have, PutTrees, LostAnswer, DriveEnds, PostStep, PostSealed, Gate, Flip, Recheck, RecordCommits,
        FenceAges, RunAges, RunReopens
  <2>2. ASSUME NEW d \in Depots, NEW f \in Fences,
               \/ PutBlob(f, d) \/ PostBegins(f, d) \/ SealFinish(d, f) \/ SealFails(d, f)
               \/ SealStage(d, f) \/ AbortSession(d, f)
        PROVE  PassFine /\ ExpiryFine
    BY <2>2, <1>2
    DEF PutBlob, PostBegins, SealFinish, SealFails, SealStage, AbortSession
  <2>3. ASSUME NEW d \in Depots, PassBegins(d) \/ PassStep(d) \/ DepotRestarts(d) PROVE PassFine /\ ExpiryFine
    BY <2>3, <1>3
  <2>4. ASSUME ExpiryStep \/ ReadBytes \/ \E p \in Packs : ReadPointer(p) PROVE PassFine /\ ExpiryFine
    BY <2>4, <1>2, <1>5
    DEF ReadPointer, ReadBytes
  <2>5. QED BY <2>1, <2>2, <2>3, <2>4 DEF DepotNext
<1>7. QED BY <1>1, <1>6 DEF ReaderFine, PassFine, ExpiryFine, PassesTyped

\* Type correctness.
LEMMA DepotTypedStep == ASSUME DepotTyped, DepotNext PROVE DepotTyped'
  BY SessionStep, PostsStep, TablesStep, PassesStep DEF DepotTyped

-----------------------------------------------------------------------------
(* Packs in use.                                                           *)

\* The facts about one step that the invariants below rest on.
DepotGoes ==
  /\ \A d \in Depots, f \in Fences : SessionGoes(d, f)
  /\ \A f \in Fences : PostGoes(f)
  /\ \A p \in Packs : RowGoes(p) /\ BytesGo(p)
  /\ \A f \in quiet' : (f \in quiet /\ \A d \in Depots : ~SealFinish(d, f)) \/ FenceAges(f)
  /\ ExpiryGoes /\ \A d \in Depots : PassGoes(d)

\* They hold of every step.
LEMMA StepGoes == ASSUME DepotTyped, DepotNext PROVE DepotGoes
  BY SessionStep, PostsStep, TablesStep, PassesStep DEF DepotGoes

\* A pack comes into use when it is made, and never again.
LEMMA UsesKept ==
  ASSUME DepotTyped, DepotGoes, NEW p \in Packs, InUse(p)'
  PROVE  InUse(p) \/ NewPack(p)
<1> DEFINE f == FenceOf(p)
<1>a. f \in Fences /\ p # NoPack BY PacksAre
<1>1. CASE row'[p] # "none" BY <1>1, <1>a DEF DepotGoes, RowGoes, InUse
<1>2. ASSUME NEW d \in Depots, p \in sess'[d][f].sealed \/ p = sess'[d][f].staging PROVE InUse(p) \/ NewPack(p)
  <2>1. SessionGoes(d, f) BY <1>a DEF DepotGoes
  <2>2. p \in sess[d][f].sealed \/ p = sess[d][f].staging => InUse(p) BY DEF InUse
  <2>3. SealFinish(d, f) /\ p = <<f, next[f]>> => NewPack(p) BY DEF NewPack
  <2>4. NoSession.sealed = {} /\ NoSession.staging = NoPack BY DEF NoSession
  <2> HIDE DEF f
  <2>5. QED BY <1>2, <1>a, <2>1, <2>2, <2>3, <2>4 DEF SessionGoes
<1>3. CASE p \in post'[f].sealed \cup post'[f].mine
  <2>1. PostGoes(f) BY <1>a DEF DepotGoes
  <2>2. QED BY <1>3, <1>a, <2>1 DEF PostGoes, InUse
<1>4. QED BY <1>1, <1>2, <1>3 DEF InUse

\* A new pack has no use before, and its key is new.
LEMMA NewPackIsNew ==
  ASSUME DepotTyped, UseInv, NEW p \in Packs, NewPack(p)
  PROVE  ~InUse(p) /\ p \notin bytes /\ ~Made(p)
<1>1. p[2] = next[FenceOf(p)] BY DEF NewPack
<1>2. next[FenceOf(p)] \in Int BY PacksAre DEF DepotTyped, TablesTyped
<1>3. ~Made(p) BY <1>1, <1>2 DEF Made
<1>4. QED BY <1>3 DEF UseInv

\* A key once used stays so.
LEMMA MadeStays ==
  ASSUME DepotTyped, DepotTyped', DepotGoes, NEW p \in Packs, Made(p) \/ NewPack(p) PROVE Made(p)'
<1>1. next[FenceOf(p)] \in Int /\ next'[FenceOf(p)] \in Int /\ p[2] \in Int /\ BytesGo(p)
  BY PacksAre DEF DepotTyped, TablesTyped, DepotGoes
<1>2. NewPack(p) => p[2] = next[FenceOf(p)] BY DEF NewPack
<1>3. QED BY <1>1, <1>2 DEF Made, BytesGo

\* A pack that is deleted was an orphan.
LEMMA UseStep ==
  ASSUME DepotTyped, DepotTyped', UseInv, OrphanInv, DepotGoes PROVE UseInv'
<1>1. ASSUME NEW p \in Packs, InUse(p)' PROVE p \in bytes'
  <2>1. InUse(p) \/ NewPack(p) BY <1>1, UsesKept
  <2>2. CASE NewPack(p) BY <2>2 DEF DepotGoes, BytesGo
  <2>3. CASE InUse(p)
    <3>1. p \in bytes BY <2>3 DEF UseInv
    <3>2. \A d \in Depots : pass[d].pc = "delete" => p \notin SeenTwice(d)
      BY <2>3 DEF OrphanInv, Orphans, SeenTwice
    <3>3. QED BY <3>1, <3>2 DEF DepotGoes, BytesGo, DeleteOrphans
  <2>4. QED BY <2>1, <2>2, <2>3
<1>2. ASSUME NEW p \in Packs, p \in bytes' PROVE Made(p)'
  BY <1>2, MadeStays DEF DepotGoes, BytesGo, UseInv
<1>3. QED BY <1>1, <1>2 DEF UseInv

\* A fence is quiet when its sessions and its POST hold nothing, and packs again
\* only with a sign of life.
LEMMA QuietStep == ASSUME DepotTyped, DepotTyped', QuietInv, DepotGoes PROVE QuietInv'
<1> SUFFICES ASSUME NEW f \in quiet'
             PROVE  /\ post'[f].sealed = {}
                    /\ \A d \in Depots : sess'[d][f].sealed = {} /\ sess'[d][f].staging = NoPack
  BY DEF QuietInv
<1>1. CASE FenceAges(f)
  <2>1. UNCHANGED <<sess, post>> /\ post[f].sealed = {} /\ (\A d \in Depots : ~sess[d][f].on) BY <1>1 DEF FenceAges, Sessions
  <2>2. f \in Fences BY DEF DepotTyped, TablesTyped
  <2>3. \A d \in Depots : sess[d][f] = NoSession BY <2>1, <2>2 DEF DepotTyped, SessionsTyped, GoodSession
  <2>4. QED BY <2>1, <2>3 DEF NoSession
<1>2. CASE f \in quiet /\ \A d \in Depots : ~SealFinish(d, f)
  <2>1. f \in Fences BY <1>2 DEF DepotTyped, TablesTyped
  <2>2. /\ post[f].sealed = {} /\ \A d \in Depots : sess[d][f].sealed = {} /\ sess[d][f].staging = NoPack
    BY <1>2 DEF QuietInv
  <2>3. \A d \in Depots : sess'[d][f].sealed = {} /\ sess'[d][f].staging = NoPack
    <3> SUFFICES ASSUME NEW d \in Depots PROVE sess'[d][f].sealed = {} /\ sess'[d][f].staging = NoPack OBVIOUS
    <3>1. SessionGoes(d, f) BY <2>1 DEF DepotGoes
    <3>2. ~SealStage(d, f) BY <2>2 DEF SealStage
    <3>3. QED BY <1>2, <2>2, <3>1, <3>2 DEF SessionGoes, NoSession
  <2>4. PostGoes(f) BY <2>1 DEF DepotGoes
  <2>5. post'[f].sealed = {} BY <2>2, <2>4 DEF PostGoes
  <2>6. QED BY <2>3, <2>5
<1>3. QED BY <1>1, <1>2 DEF DepotGoes

\* A flipped row goes with neither deleter.
LEMMA MineStep == ASSUME DepotTyped, MineInv, LockInv, DepotGoes PROVE MineInv'
<1> SUFFICES ASSUME NEW f \in Fences, NEW p \in post'[f].mine PROVE row'[p] # "none" \/ p \in post'[f].sealed
  BY DEF MineInv
<1>1. PostGoes(f) BY DEF DepotGoes
<1>2. CASE Flip(f) /\ p \in post[f].sealed \cup {q \in Packs : FenceOf(q) = f /\ row[q] # "none"} /\ post'[f].sealed = post[f].sealed
  BY <1>2 DEF Flip
<1>3. CASE p \in post[f].mine /\ post'[f].sealed = post[f].sealed
  <2>1. row[p] # "none" \/ p \in post[f].sealed BY <1>3 DEF MineInv
  <2>2. p \in Packs /\ FenceOf(p) = f /\ Flipped(f)
    BY <1>3 DEF DepotTyped, PostsTyped, GoodPost, OwnPacks, Flipped
  <2>3. ~Deleting(f) BY <2>2 DEF LockInv
  <2>4. ~(ExpireFence /\ FenceOf(p) = expiry.fence) BY <2>2, <2>3 DEF ExpireFence, Deleting
  <2>5. \A d \in Depots : ~(ReclaimRows(d) /\ p \in Doomed) BY <2>2 DEF ReclaimRows
  <2>6. RowGoes(p) BY <2>2 DEF DepotGoes
  <2>7. QED BY <1>3, <2>1, <2>4, <2>5, <2>6 DEF RowGoes
<1>4. QED BY <1>1, <1>2, <1>3 DEF PostGoes

\* A pack that is being staged is not known before it is indexed.
LEMMA StagingStep ==
  ASSUME DepotTyped, UseInv, StagingInv, DepotGoes PROVE StagingInv'
<1> SUFFICES ASSUME NEW d \in Depots, NEW f \in Fences, sess'[d][f].staging # NoPack
             PROVE  LET p == sess'[d][f].staging IN
                      /\ row'[p] = "none" /\ p \notin post'[f].sealed \cup post'[f].mine
                      /\ \A e \in Depots : p \notin sess'[e][f].sealed /\ (e # d => sess'[e][f].staging # p)
  BY DEF StagingInv
<1> DEFINE p == sess'[d][f].staging
<1>a. \A e \in Depots : SessionGoes(e, f) BY DEF DepotGoes
<1>1. CASE SealFinish(d, f) /\ p = <<f, next[f]>>
  <2>1. next[f] \in 1 .. MaxPacks BY <1>1, PacksAre DEF SealFinish, DepotTyped, TablesTyped
  <2>2. p \in Packs /\ FenceOf(p) = f BY <1>1, <2>1, PacksAre
  <2>3. NewPack(p) BY <1>1, <2>2 DEF NewPack
  <2>4. ~InUse(p) BY <2>2, <2>3, NewPackIsNew
  <2>5. UNCHANGED <<row, post>> BY <1>1 DEF SealFinish
  <2>6. \A e \in Depots : e # d => sess'[e][f] = sess[e][f]
    BY <1>1 DEF SealFinish, DepotTyped, SessionsTyped
  <2>7. sess'[d][f].sealed = sess[d][f].sealed
    BY <1>1 DEF SealFinish, DepotTyped, SessionsTyped, SessionType
  <2>8. /\ row[p] = "none" /\ p \notin post[f].sealed \cup post[f].mine
        /\ \A e \in Depots : p \notin sess[e][f].sealed /\ sess[e][f].staging # p
    BY <2>2, <2>4 DEF InUse, DepotTyped, TablesTyped
  <2>9. QED BY <2>5, <2>6, <2>7, <2>8
<1>2. CASE p = sess[d][f].staging /\ ~SealStage(d, f)
  <2>1. /\ row[p] = "none" /\ p \notin post[f].sealed \cup post[f].mine
        /\ \A e \in Depots : p \notin sess[e][f].sealed /\ (e # d => sess[e][f].staging # p)
    BY <1>2 DEF StagingInv
  <2>2. p \in Packs /\ FenceOf(p) = f /\ InUse(p)
    <3>1. p \in Packs /\ FenceOf(p) = f BY <1>2 DEF DepotTyped, SessionsTyped, GoodSession, OwnPacks
    <3>2. QED BY <1>2, <3>1 DEF InUse
  <2> HIDE DEF p
  <2>3. row'[p] = "none"
    <3>1. RowGoes(p) BY <2>2 DEF DepotGoes
    <3>2. \A e \in Depots : p = sess[e][f].staging => ~SealStage(e, f) BY <1>2, <2>1
    <3>3. QED BY <2>1, <2>2, <3>1, <3>2 DEF RowGoes
  <2>4. p \notin post'[f].sealed \cup post'[f].mine
    <3>1. PostGoes(f) BY DEF DepotGoes
    <3>2. QED BY <2>1, <2>2, <3>1 DEF PostGoes
  <2>5. ASSUME NEW e \in Depots PROVE p \notin sess'[e][f].sealed /\ (e # d => sess'[e][f].staging # p)
    <3>1. SessionGoes(e, f) BY <1>a
    <3>2. ~NewPack(p) BY <2>2, NewPackIsNew
    <3>3. SealFinish(e, f) => p # <<f, next[f]>> BY <2>2, <3>2 DEF NewPack
    <3>4. p # NoPack BY <2>2, PacksAre
    <3>5. SealStage(e, f) => e # d BY <1>2
    <3>6. NoSession.sealed = {} /\ NoSession.staging = NoPack BY DEF NoSession
    <3>7. QED BY <2>1, <3>1, <3>3, <3>4, <3>5, <3>6 DEF SessionGoes
  <2>6. QED BY <2>3, <2>4, <2>5 DEF p
<1>3. CASE SealStage(d, f)
  <2>1. sess[d][f] \in SessionType BY DEF DepotTyped, SessionsTyped
  <2>2. sess'[d][f].staging = NoPack
    <3>1. CASE sess' = [sess EXCEPT ![d][f].staging = NoPack, ![d][f].sealed = @ \cup {sess[d][f].staging}]
      BY <3>1, <2>1 DEF DepotTyped, SessionsTyped, SessionType
    <3>2. CASE sess' = [sess EXCEPT ![d][f].staging = NoPack, ![d][f].sealed = @ \cup {sess[d][f].staging},
                                    ![d][f].packed = StillPacked(sess[d][f])]
      BY <3>2, <2>1 DEF DepotTyped, SessionsTyped, SessionType
    <3>3. QED BY <1>3, <3>1, <3>2 DEF SealStage
  <2>3. QED BY <2>2
<1>4. SessionGoes(d, f) BY <1>a
<1>5. NoSession.staging = NoPack BY DEF NoSession
<1>6. QED BY <1>1, <1>2, <1>3, <1>4, <1>5 DEF SessionGoes

\* An orphan stays one: what a scan lists is named by no row, and of a quiet
\* fence.
LEMMA OrphanStep ==
  ASSUME DepotTyped, DepotTyped', UseInv, QuietInv, MineInv, OrphanInv, DepotGoes PROVE OrphanInv'
<1> SUFFICES ASSUME NEW d \in Depots, NEW p \in Orphans(d)' PROVE ~InUse(p)' /\ Made(p)'
  BY DEF OrphanInv
<1>a. p \in Packs
  BY DEF DepotTyped, PassesTyped, PassType, Orphans
<1>1. ~InUse(p) /\ Made(p)
  <2>1. CASE p \in Orphans(d) BY <2>1 DEF OrphanInv
  <2>2. CASE ListOrphans(d) /\ p \in bytes /\ FenceOf(p) \in quiet /\ row[p] = "none"
    <3> DEFINE f == FenceOf(p)
    <3>1. Made(p) BY <1>a, <2>2 DEF UseInv
    <3>2. /\ post[f].sealed = {} /\ \A e \in Depots : sess[e][f].sealed = {} /\ sess[e][f].staging = NoPack
      BY <2>2 DEF QuietInv
    <3>3. p \notin post[f].mine BY <1>a, <2>2, <3>2, PacksAre DEF MineInv
    <3>4. p # NoPack BY <1>a, PacksAre
    <3>5. QED BY <2>2, <3>1, <3>2, <3>3, <3>4 DEF InUse
  <2>3. PassGoes(d) BY DEF DepotGoes
  <2>4. CASE pass'[d] = pass[d] BY <2>1, <2>4 DEF Orphans
  <2>5. CASE pass'[d] = NoPass BY <2>5 DEF Orphans, NoPass
  <2>6. CASE pass'[d].pc = "rows" \/ pass'[d].pc = "list" BY <2>1, <2>3, <2>4, <2>6 DEF PassGoes, NoPass, Orphans
  <2>7. CASE /\ ListOrphans(d) /\ pass'[d].seen = pass[d].seen /\ pass'[d].pc = "quiet"
             /\ pass'[d].found = {q \in bytes \ pass[d].found : FenceOf(q) \in quiet /\ row[q] = "none"}
    BY <2>1, <2>2, <2>7 DEF Orphans
  <2>8. CASE QuietOrphans(d) /\ pass'[d].seen = pass[d].seen /\ pass'[d].pc = "delete" /\ pass'[d].found \subseteq pass[d].found
    BY <2>1, <2>8 DEF Orphans, QuietOrphans
  <2>9. CASE DeleteOrphans(d) /\ pass'[d].pc = "idle" /\ pass'[d].seen \subseteq pass[d].found
    BY <2>1, <2>9 DEF Orphans, DeleteOrphans
  <2>10. QED BY <2>3, <2>4, <2>5, <2>6, <2>7, <2>8, <2>9 DEF PassGoes
<1>2. ~NewPack(p) BY <1>1, <1>a, NewPackIsNew
<1>3. QED BY <1>1, <1>2, <1>a, UsesKept, MadeStays

\* The deleter and the POSTs exclude each other.
LEMMA LockStep == ASSUME DepotTyped, LockInv, DepotGoes PROVE LockInv'
<1> SUFFICES ASSUME NEW f \in Fences, Deleting(f)' PROVE ~Flipped(f)' /\ ~SharedBy(f)'
  BY DEF LockInv
<1>1. \/ LockVictim /\ expiry.fence = f /\ expiry.pc = "lock" /\ ~Flipped(f) /\ ~SharedBy(f)
      \/ Deleting(f) /\ ~Flipped(f) /\ ~SharedBy(f)
  BY DEF DepotGoes, ExpiryGoes, IdleExpiry, Deleting, LockInv, LockVictim
<1>2. CASE LockVictim /\ ~Flipped(f) /\ ~SharedBy(f)
  BY <1>2 DEF LockVictim, Flipped, SharedBy
<1>3. CASE Deleting(f) /\ ~Flipped(f) /\ ~SharedBy(f)
  <2>1. PostGoes(f) BY DEF DepotGoes
  <2>2. ~Flip(f) BY <1>3 DEF Flip
  <2>3. ~Recheck(f) BY <1>3 DEF Recheck, PostAt, Flipped
  <2>4. ~Flipped(f)' BY <1>3, <2>1, <2>2, <2>3 DEF PostGoes, Flipped
  <2>5. ASSUME NEW g \in Fences, f \in post'[g].shared PROVE FALSE
    <3>1. f \notin post[g].shared BY <1>3 DEF SharedBy
    <3>2. PostGoes(g) BY DEF DepotGoes
    <3>3. Recheck(g) /\ f \in ShareLocks(g) BY <2>5, <3>1, <3>2 DEF PostGoes
    <3>4. QED BY <1>3, <3>3 DEF Recheck
  <2>6. QED BY <2>4, <2>5 DEF SharedBy
<1>4. QED BY <1>1, <1>2, <1>3

\* A record comes with its rows and goes with them.
LEMMA RecordGoes ==
  ASSUME DepotNext, NEW f \in Fences
  PROVE  /\ f \in record' => f \in record \/ RecordCommits(f)
         /\ f \in record => f \in record' \/ (ExpireFence /\ expiry.fence = f)
<1> DEFINE Fine == /\ f \in record' => f \in record \/ RecordCommits(f)
                   /\ f \in record => f \in record' \/ (ExpireFence /\ expiry.fence = f)
<1>1. ASSUME UNCHANGED record PROVE Fine BY <1>1
<1>2. ASSUME NEW g \in Fences, RecordCommits(g) PROVE Fine BY <1>2 DEF RecordCommits
<1>3. ASSUME ExpireFence PROVE Fine BY <1>3 DEF ExpireFence
<1> HIDE DEF Fine
<1>4. Fine
  <2>1. ASSUME NEW g \in Fences, \/ Have(g) \/ PutTrees(g) \/ LostAnswer(g) \/ DriveEnds(g) \/ PostStep(g)
                                 \/ Nominate(g) \/ FenceAges(g) \/ RunAges(g) \/ RunReopens(g)
        PROVE  Fine
    BY <2>1, <1>1, <1>2
    DEF Have, PutTrees, LostAnswer, DriveEnds, PostStep, PostSealed, Gate, Flip, Recheck, Nominate, FenceAges,
        RunAges, RunReopens
  <2>2. ASSUME NEW d \in Depots, NEW g \in Fences,
               \/ PutBlob(g, d) \/ PostBegins(g, d) \/ SealFinish(d, g) \/ SealFails(d, g)
               \/ SealStage(d, g) \/ AbortSession(d, g)
        PROVE  Fine
    BY <2>2, <1>1
    DEF PutBlob, PostBegins, SealFinish, SealFails, SealStage, AbortSession
  <2>3. ASSUME NEW d \in Depots, PassBegins(d) \/ PassStep(d) \/ DepotRestarts(d) PROVE Fine
    BY <2>3, <1>1
    DEF PassBegins, PassStep, ReclaimRows, ListOrphans, QuietOrphans, DeleteOrphans, DepotRestarts
  <2>4. ASSUME ExpiryStep \/ ReadBytes \/ \E p \in Packs : ReadPointer(p) PROVE Fine
    BY <2>4, <1>1, <1>3
    DEF ExpiryStep, LockVictim, Reread, CheckBorrowers, ReadPointer, ReadBytes
  <2>5. QED BY <2>1, <2>2, <2>3, <2>4 DEF DepotNext
<1>5. QED BY <1>4 DEF Fine

\* Committed rows have their record.
LEMMA CommittedStep == ASSUME DepotTyped, CommittedInv, DepotNext, DepotGoes PROVE CommittedInv'
<1> SUFFICES ASSUME NEW p \in Packs, row'[p] = "committed" PROVE FenceOf(p) \in record'
  BY DEF CommittedInv
<1>1. FenceOf(p) \in Fences /\ RowGoes(p) BY PacksAre DEF DepotGoes
<1>2. CASE RecordCommits(FenceOf(p)) BY <1>2 DEF RecordCommits
<1>3. CASE row'[p] = row[p]
  <2>1. FenceOf(p) \in record BY <1>3 DEF CommittedInv
  <2>2. ASSUME ExpireFence, expiry.fence = FenceOf(p) PROVE FALSE BY <2>2 DEF ExpireFence
  <2>3. QED BY <1>1, <2>1, <2>2, RecordGoes
<1>4. QED BY <1>1, <1>2, <1>3 DEF RowGoes

\* An edge goes with its borrower.
LEMMA BorrowsGo ==
  ASSUME DepotNext, NEW f \in Fences, NEW g \in Fences, <<f, g>> \in borrows
  PROVE  <<f, g>> \in borrows' \/ (ExpireFence /\ expiry.fence = f)
<1> DEFINE Fine == <<f, g>> \in borrows' \/ (ExpireFence /\ expiry.fence = f)
<1>1. ASSUME borrows \subseteq borrows' PROVE Fine BY <1>1
<1>2. ASSUME ExpireFence PROVE Fine BY <1>2 DEF ExpireFence
<1> HIDE DEF Fine
<1>3. Fine
  <2>1. ASSUME NEW h \in Fences, \/ Have(h) \/ PutTrees(h) \/ LostAnswer(h) \/ DriveEnds(h) \/ PostStep(h)
                                 \/ Nominate(h) \/ FenceAges(h) \/ RunAges(h) \/ RunReopens(h)
        PROVE  Fine
    BY <2>1, <1>1
    DEF Have, PutTrees, LostAnswer, DriveEnds, PostStep, PostSealed, Gate, Flip, Recheck, RecordCommits,
        Nominate, FenceAges, RunAges, RunReopens
  <2>2. ASSUME NEW d \in Depots, NEW h \in Fences,
               \/ PutBlob(h, d) \/ PostBegins(h, d) \/ SealFinish(d, h) \/ SealFails(d, h)
               \/ SealStage(d, h) \/ AbortSession(d, h)
        PROVE  Fine
    BY <2>2, <1>1
    DEF PutBlob, PostBegins, SealFinish, SealFails, SealStage, AbortSession
  <2>3. ASSUME NEW d \in Depots, PassBegins(d) \/ PassStep(d) \/ DepotRestarts(d) PROVE Fine
    BY <2>3, <1>1
    DEF PassBegins, PassStep, ReclaimRows, ListOrphans, QuietOrphans, DeleteOrphans, DepotRestarts
  <2>4. ASSUME ExpiryStep \/ ReadBytes \/ \E p \in Packs : ReadPointer(p) PROVE Fine
    BY <2>4, <1>1, <1>2
    DEF ExpiryStep, LockVictim, Reread, CheckBorrowers, ReadPointer, ReadBytes
  <2>5. QED BY <2>1, <2>2, <2>3, <2>4 DEF DepotNext
<1>4. QED BY <1>3 DEF Fine

\* A committed row stays until its fence expires.
LEMMA CommittedStays ==
  ASSUME DepotTyped, StagingInv, DepotGoes, NEW p \in Packs, row[p] = "committed",
         ~(ExpireFence /\ expiry.fence = FenceOf(p))
  PROVE  row'[p] = "committed"
<1>1. FenceOf(p) \in Fences /\ RowGoes(p) /\ p # NoPack BY PacksAre DEF DepotGoes
<1>2. \A d \in Depots : p # sess[d][FenceOf(p)].staging BY <1>1 DEF StagingInv
<1>3. p \notin Doomed BY DEF Doomed
<1>4. QED BY <1>1, <1>2, <1>3 DEF RowGoes

\* The members of a pack in use are what they were.
LEMMA HoldsStay ==
  ASSUME DepotTyped, UseInv, DepotGoes, NEW p \in Packs, InUse(p) PROVE holds'[p] = holds[p]
  BY NewPackIsNew DEF DepotGoes, BytesGo

\* What stands under a record stays there.
LEMMA BackStep ==
  ASSUME DepotTyped, UseInv, StagingInv, LockInv, BackInv, CommitInv, DepotNext, DepotGoes PROVE BackInv'
<1> SUFFICES ASSUME NEW f \in record', NEW b \in Closure[f] PROVE \E p \in Packs : Backs(p, f, b)'
  BY DEF BackInv
<1>a. f \in Fences BY TablesStep DEF TablesTyped
<1>1. CASE RecordCommits(f)
  <2>1. PICK p \in Packs : WillBack(p, f, b) BY <1>1, <1>a DEF CommitInv, RecordCommits, PostAt
  <2>2. row'[p] = IF p \in post[f].mine THEN "committed" ELSE row[p] BY <1>1 DEF RecordCommits
  <2>3. UNCHANGED <<holds, expiry>> BY <1>1 DEF RecordCommits
  <2>4. CASE FenceOf(p) = f
    BY <2>1, <2>2, <2>3, <2>4 DEF WillBack, Backs
  <2>5. CASE FenceOf(p) # f
    <3>1. row[p] = "committed" /\ FenceOf(p) \in post[f].shared /\ b \in holds[p] BY <2>1, <2>5 DEF WillBack
    <3>2. p \in StandsOn(f) BY <3>1 DEF StandsOn
    <3>3. FenceOf(p) \in Lenders(f) BY <2>5, <3>1, <3>2 DEF Lenders
    <3>4. <<f, FenceOf(p)>> \in borrows' BY <1>1, <3>3 DEF RecordCommits
    <3>5. ~Condemned(FenceOf(p))
      BY <1>a, <3>1, PacksAre DEF LockInv, SharedBy, Deleting, Condemned
    <3>6. QED BY <2>2, <2>3, <3>1, <3>4, <3>5 DEF Backs, Condemned
  <2>6. QED BY <2>4, <2>5
<1>2. CASE f \in record
  <2>1. PICK p \in Packs : Backs(p, f, b) BY <1>2 DEF BackInv
  <2>2. b \in holds[p] /\ row[p] # "none" BY <2>1 DEF Backs
  <2>3. InUse(p) BY <2>2 DEF InUse
  <2>4. b \in holds'[p] BY <2>2, <2>3, HoldsStay
  <2>5. ~(ExpireFence /\ expiry.fence = f) BY DEF ExpireFence
  <2>6. CASE FenceOf(p) = f
    <3>1. RowGoes(p) BY DEF DepotGoes
    <3>2. p \notin Doomed BY <1>2, <2>6 DEF Doomed
    <3>3. row'[p] # "none" BY <2>2, <2>5, <2>6, <3>1, <3>2 DEF RowGoes
    <3>4. QED BY <2>4, <2>6, <3>3 DEF Backs
  <2>7. CASE row[p] = "committed" /\ <<f, FenceOf(p)>> \in borrows /\ ~Condemned(FenceOf(p))
    <3>1. ~(ExpireFence /\ expiry.fence = FenceOf(p)) BY <2>7 DEF ExpireFence, Condemned
    <3>2. row'[p] = "committed" BY <2>7, <3>1, CommittedStays
    <3>3. <<f, FenceOf(p)>> \in borrows' BY <1>a, <2>5, <2>7, BorrowsGo, PacksAre
    <3>4. Borrowed(FenceOf(p)) BY <1>2, <2>7 DEF Borrowed
    <3>5. ~Condemned(FenceOf(p))' BY <2>7, <3>4 DEF DepotGoes, ExpiryGoes, Condemned, IdleExpiry
    <3>6. QED BY <2>4, <3>2, <3>3, <3>5 DEF Backs
  <2>8. QED BY <2>1, <2>6, <2>7 DEF Backs
<1>3. QED BY <1>1, <1>2, <1>a, RecordGoes

\* What a POST has locked stays until it commits.
LEMMA CommitStep ==
  ASSUME DepotTyped, UseInv, StagingInv, LockInv, CommitInv, DepotGoes PROVE CommitInv'
<1> SUFFICES ASSUME NEW f \in Fences, post'[f].pc = "commit", NEW b \in Closure[f]
             PROVE  \E p \in Packs : WillBack(p, f, b)'
  BY DEF CommitInv
<1>1. CASE /\ Recheck(f) /\ post'[f].mine = post[f].mine /\ post'[f].shared = ShareLocks(f)
           /\ Closure[f] \subseteq UNION {holds[p] : p \in StandsOn(f)}
  <2>1. PICK p \in StandsOn(f) : b \in holds[p] BY <1>1
  <2>2. p \in Packs /\ UNCHANGED <<holds, row>> /\ FenceOf(p) \in ShareLocks(f)
    BY <1>1, <2>1 DEF StandsOn, Recheck, ShareLocks
  <2>3. p \in post[f].mine => FenceOf(p) = f BY DEF DepotTyped, PostsTyped, GoodPost, OwnPacks
  <2>4. WillBack(p, f, b)' BY <1>1, <2>1, <2>2, <2>3 DEF StandsOn, WillBack
  <2>5. QED BY <2>2, <2>4
<1>2. CASE post'[f] = post[f]
  <2>1. PICK p \in Packs : WillBack(p, f, b) BY <1>2 DEF CommitInv
  <2>2. InUse(p)
    <3>1. p \in post[f].mine => FenceOf(p) = f BY DEF DepotTyped, PostsTyped, GoodPost, OwnPacks
    <3>2. QED BY <2>1, <3>1 DEF WillBack, InUse
  <2>3. b \in holds'[p] BY <2>1, <2>2, HoldsStay DEF WillBack
  <2>4. Flipped(f) /\ FenceOf(p) \in Fences BY <1>2, PacksAre DEF Flipped
  <2>5. CASE FenceOf(p) = f /\ (p \in post[f].mine \/ row[p] # "none")
    <3>1. ~(ExpireFence /\ expiry.fence = f) BY <2>4 DEF LockInv, Deleting, ExpireFence
    <3>2. \A d \in Depots : ~(ReclaimRows(d) /\ p \in Doomed) BY <2>4, <2>5 DEF ReclaimRows
    <3>3. RowGoes(p) BY DEF DepotGoes
    <3>4. row[p] # "none" => row'[p] # "none" BY <2>5, <3>1, <3>2, <3>3 DEF RowGoes
    <3>5. QED BY <1>2, <2>3, <2>5, <3>4 DEF WillBack
  <2>6. CASE row[p] = "committed" /\ FenceOf(p) \in post[f].shared
    <3>1. ~Deleting(FenceOf(p)) BY <2>4, <2>6 DEF LockInv, SharedBy
    <3>2. ~(ExpireFence /\ expiry.fence = FenceOf(p)) BY <3>1 DEF Deleting, ExpireFence
    <3>3. row'[p] = "committed" BY <2>6, <3>2, CommittedStays
    <3>4. QED BY <1>2, <2>3, <2>6, <3>3 DEF WillBack
  <2>7. QED BY <2>1, <2>5, <2>6 DEF WillBack
<1>3. PostGoes(f) BY DEF DepotGoes
<1>4. QED BY <1>1, <1>2, <1>3 DEF PostGoes

\* A read begins, goes on while passes begin and replicas restart, and ends.
ReaderGoes ==
  \/ reader = NoRead /\ \E p \in Packs : ReadPointer(p)
  \/ /\ reader # NoRead /\ reader'.pack = reader.pack
     /\ \A d \in Depots : d \in reader.since /\ d \notin reader'.since => DepotRestarts(d)

\* A read goes on in that way.
LEMMA ReaderMoves == ASSUME DepotTyped, DepotNext, reader' # NoRead PROVE ReaderGoes
<1>a. reader \in [pack : Packs \cup {NoPack}, since : SUBSET Depots] BY DEF DepotTyped, PassesTyped
<1>1. ASSUME UNCHANGED reader PROVE ReaderGoes BY <1>1 DEF ReaderGoes
<1>2. ASSUME NEW p \in Packs, ReadPointer(p) PROVE ReaderGoes BY <1>2 DEF ReadPointer, ReaderGoes
<1>3. ASSUME NEW d \in Depots, PassBegins(d) PROVE ReaderGoes
  <2>1. reader # NoRead /\ reader' = [reader EXCEPT !.since = @ \cup {d}] BY <1>3 DEF PassBegins
  <2>2. reader'.pack = reader.pack /\ reader'.since = reader.since \cup {d} BY <1>a, <2>1
  <2>3. QED BY <2>1, <2>2 DEF ReaderGoes
<1>4. ASSUME NEW d \in Depots, DepotRestarts(d) PROVE ReaderGoes
  <2>1. reader' = [reader EXCEPT !.since = @ \ {d}] BY <1>4 DEF DepotRestarts
  <2>2. [NoRead EXCEPT !.since = @ \ {d}] = NoRead BY DEF NoRead
  <2>3. reader # NoRead /\ reader'.pack = reader.pack /\ reader'.since = reader.since \ {d} BY <1>a, <2>1, <2>2
  <2>4. QED BY <1>4, <2>3 DEF ReaderGoes
<1>5. ASSUME ReadBytes PROVE ReaderGoes BY <1>5 DEF ReadBytes
<1>6. QED
  <2>1. ASSUME NEW f \in Fences, \/ Have(f) \/ PutTrees(f) \/ LostAnswer(f) \/ DriveEnds(f) \/ PostStep(f)
                                 \/ Nominate(f) \/ FenceAges(f) \/ RunAges(f) \/ RunReopens(f)
        PROVE  ReaderGoes
    BY <2>1, <1>1
    DEF Have, PutTrees, LostAnswer, DriveEnds, PostStep, PostSealed, Gate, Flip, Recheck, RecordCommits,
        Nominate, FenceAges, RunAges, RunReopens
  <2>2. ASSUME NEW d \in Depots, NEW f \in Fences,
               \/ PutBlob(f, d) \/ PostBegins(f, d) \/ SealFinish(d, f) \/ SealFails(d, f)
               \/ SealStage(d, f) \/ AbortSession(d, f)
        PROVE  ReaderGoes
    BY <2>2, <1>1
    DEF PutBlob, PostBegins, SealFinish, SealFails, SealStage, AbortSession
  <2>3. ASSUME NEW d \in Depots, PassBegins(d) \/ PassStep(d) \/ DepotRestarts(d) PROVE ReaderGoes
    BY <2>3, <1>1, <1>3, <1>4
    DEF PassStep, ReclaimRows, ListOrphans, QuietOrphans, DeleteOrphans
  <2>4. ASSUME ExpiryStep \/ ReadBytes \/ \E p \in Packs : ReadPointer(p) PROVE ReaderGoes
    BY <2>4, <1>1, <1>2, <1>5
    DEF ExpiryStep, LockVictim, Reread, CheckBorrowers, ExpireFence
  <2>5. QED BY <2>1, <2>2, <2>3, <2>4 DEF DepotNext

\* A pack that is read is not deleted: it goes only when one replica has seen it
\* in two of its scans.
LEMMA ReaderStep ==
  ASSUME DepotTyped, DepotTyped', UseInv, OrphanInv, ReaderInv, DepotNext, DepotGoes PROVE ReaderInv'
<1> SUFFICES ASSUME reader' # NoRead
             PROVE  /\ reader'.pack \in bytes'
                    /\ \A d \in Depots :
                         /\ reader'.pack \in pass'[d].seen => d \in reader'.since /\ Idle(d)'
                         /\ d \notin reader'.since =>
                              /\ reader'.pack \notin Orphans(d)'
                              /\ pass'[d].pc = "rows" => row'[reader'.pack] # "none"
                              /\ pass'[d].pc = "list" => row'[reader'.pack] # "none" \/ reader'.pack \in pass'[d].found
  BY DEF ReaderInv
<1>1. ASSUME NEW p \in Packs, ReadPointer(p)
      PROVE  /\ reader'.pack \in bytes'
             /\ \A d \in Depots : /\ reader'.pack \notin pass'[d].seen /\ reader'.pack \notin Orphans(d)'
                                  /\ row'[reader'.pack] # "none"
  <2>1. reader'.pack = p /\ row[p] # "none" /\ UNCHANGED <<bytes, pass, row>> BY <1>1 DEF ReadPointer
  <2>2. InUse(p) BY <2>1 DEF InUse
  <2>3. p \in bytes BY <2>2 DEF UseInv
  <2>4. \A d \in Depots : p \notin Orphans(d) BY <2>2 DEF OrphanInv
  <2>5. QED BY <2>1, <2>3, <2>4 DEF Orphans
<1>2. CASE /\ reader # NoRead /\ reader'.pack = reader.pack
           /\ \A d \in Depots : d \in reader.since /\ d \notin reader'.since => DepotRestarts(d)
  <2> DEFINE q == reader.pack
  <2>a. q \in Packs BY <1>2 DEF DepotTyped, PassesTyped
  <2>b. /\ q \in bytes
        /\ \A d \in Depots :
             /\ q \in pass[d].seen => d \in reader.since /\ Idle(d)
             /\ d \notin reader.since => /\ q \notin Orphans(d)
                                         /\ pass[d].pc = "rows" => row[q] # "none"
                                         /\ pass[d].pc = "list" => row[q] # "none" \/ q \in pass[d].found
    BY <1>2 DEF ReaderInv
  <2>c. RowGoes(q) /\ BytesGo(q) BY <2>a DEF DepotGoes
  <2>d. \A d \in Depots : DepotRestarts(d) => pass'[d] = NoPass
    BY DEF DepotRestarts, NoPass, DepotTyped, PassesTyped
  <2>e. \A d \in Depots : PassBegins(d) => d \in reader'.since
    BY <1>2 DEF PassBegins, DepotTyped, PassesTyped
  <2> HIDE DEF q
  <2>1. q \in bytes'
    <3>1. \A d \in Depots : DeleteOrphans(d) => q \notin SeenTwice(d)
      BY <2>b DEF DeleteOrphans, SeenTwice, Idle
    <3>2. QED BY <2>b, <2>c, <3>1 DEF BytesGo
  <2>2. ASSUME NEW d \in Depots, DepotRestarts(d)
        PROVE  q \notin pass'[d].seen /\ q \notin Orphans(d)' /\ pass'[d].pc = "idle"
    BY <2>2, <2>d DEF NoPass, Orphans
  <2>3. ASSUME NEW d \in Depots, ~DepotRestarts(d), q \in pass'[d].seen PROVE d \in reader'.since /\ Idle(d)'
    <3>1. PassGoes(d) BY DEF DepotGoes
    <3>2. CASE pass'[d] = pass[d] BY <1>2, <2>3, <2>b, <3>2 DEF Idle
    <3>3. CASE q \in pass[d].seen /\ (PassBegins(d) \/ ReclaimRows(d) \/ ListOrphans(d) \/ QuietOrphans(d))
      BY <2>b, <3>3 DEF PassBegins, ReclaimRows, ListOrphans, QuietOrphans, Idle
    <3>4. CASE DeleteOrphans(d) /\ pass'[d].pc = "idle" /\ pass'[d].seen = pass[d].found \ SeenTwice(d)
      <4>1. q \in Orphans(d) BY <2>3, <3>4 DEF Orphans, DeleteOrphans
      <4>2. QED BY <1>2, <2>3, <2>b, <3>4, <4>1 DEF Idle
    <3>5. QED BY <2>3, <3>1, <3>2, <3>3, <3>4 DEF PassGoes
  <2>4. ASSUME NEW d \in Depots, ~DepotRestarts(d), d \notin reader'.since
        PROVE  /\ q \notin Orphans(d)'
               /\ pass'[d].pc = "rows" => row'[q] # "none"
               /\ pass'[d].pc = "list" => row'[q] # "none" \/ q \in pass'[d].found
    <3>a. d \notin reader.since BY <1>2, <2>4
    <3>b. ~PassBegins(d) BY <2>4, <2>e
    <3>1. PassGoes(d) BY DEF DepotGoes
    <3>2. CASE pass'[d] = pass[d]
      <4>1. q \notin Orphans(d)' BY <2>b, <3>a, <3>2 DEF Orphans
      <4>2. ASSUME pass[d].pc \in {"rows", "list"}, row[q] # "none" PROVE row'[q] # "none"
        <5>1. ~Idle(d) BY <4>2 DEF Idle
        <5>2. ~ExpireFence BY <5>1 DEF ExpireFence, DepotTyped, PassesTyped, IdleExpiry
        <5>3. ASSUME NEW e \in Depots, ReclaimRows(e) PROVE FALSE
          <6>1. ~Idle(e) BY <5>3 DEF ReclaimRows, Idle
          <6>2. e = d BY <5>1, <6>1 DEF DepotTyped, PassesTyped
          <6>3. pass[d].pc = "rows" /\ pass'[d].pc = "list"
            BY <5>3, <6>2 DEF ReclaimRows, PassTo, DepotTyped, PassesTyped, PassType
          <6>4. QED BY <3>2, <6>3
        <5>4. QED BY <2>c, <4>2, <5>2, <5>3 DEF RowGoes
      <4>3. QED BY <2>b, <3>a, <3>2, <4>1, <4>2
    <3>3. CASE ReclaimRows(d) /\ pass'[d].pc = "list" /\ pass'[d].found = Doomed /\ pass'[d].seen = pass[d].seen
      <4>1. pass[d].pc = "rows" /\ row[q] # "none" BY <2>b, <3>a, <3>3 DEF ReclaimRows
      <4>2. row'[q] # "none" \/ q \in Doomed BY <2>a, <3>3, <4>1 DEF ReclaimRows
      <4>3. q \notin Orphans(d)' BY <2>b, <3>a, <3>3 DEF Orphans
      <4>4. QED BY <3>3, <4>2, <4>3
    <3>4. CASE /\ ListOrphans(d) /\ pass'[d].pc = "quiet" /\ pass'[d].seen = pass[d].seen
               /\ pass'[d].found = {p \in bytes \ pass[d].found : FenceOf(p) \in quiet /\ row[p] = "none"}
      <4>1. row[q] # "none" \/ q \in pass[d].found BY <2>b, <3>a, <3>4 DEF ListOrphans
      <4>2. q \notin Orphans(d)' BY <2>b, <3>a, <3>4, <4>1 DEF Orphans
      <4>3. QED BY <3>4, <4>2
    <3>5. CASE /\ QuietOrphans(d) /\ pass'[d].pc = "delete" /\ pass'[d].seen = pass[d].seen
               /\ pass'[d].found = {p \in pass[d].found : FenceOf(p) \in quiet \ record}
      <4>1. q \notin Orphans(d)' BY <2>b, <3>a, <3>5 DEF Orphans, QuietOrphans
      <4>2. QED BY <3>5, <4>1
    <3>6. CASE DeleteOrphans(d) /\ pass'[d].pc = "idle" /\ pass'[d].seen = pass[d].found \ SeenTwice(d)
      <4>1. q \notin Orphans(d)' BY <2>b, <3>a, <3>6 DEF Orphans, DeleteOrphans
      <4>2. QED BY <3>6, <4>1
    <3>7. QED BY <2>4, <3>1, <3>b, <3>2, <3>3, <3>4, <3>5, <3>6 DEF PassGoes
  <2>5. reader'.pack = q BY <1>2 DEF q
  <2>6. QED BY <2>1, <2>2, <2>3, <2>4, <2>5
<1>3. ReaderGoes BY ReaderMoves
<1>4. CASE \E p \in Packs : ReadPointer(p) BY <1>1, <1>4
<1>5. QED BY <1>2, <1>3, <1>4 DEF ReaderGoes

-----------------------------------------------------------------------------
(* The theorems.                                                           *)

\* The invariant holds at first, and every step keeps it.
LEMMA DepotStart == DepotInit => DepotInv
<1> SUFFICES ASSUME DepotInit PROVE DepotInv OBVIOUS
<1>a. /\ bytes = {} /\ record = {} /\ quiet = {} /\ (\A p \in Packs : row[p] = "none") /\ reader = NoRead
      /\ \A f \in Fences : post[f] = IdlePost
      /\ \A d \in Depots, f \in Fences : sess[d][f] = NoSession
      /\ (\A d \in Depots : pass[d] = NoPass) /\ expiry = IdleExpiry
  BY DEF DepotInit, NoPass
<1>b. NoSession.sealed = {} /\ NoSession.staging = NoPack /\ IdlePost.sealed = {} /\ IdlePost.mine = {} /\ IdlePost.pc = "idle"
  BY DEF NoSession, IdlePost
<1>1. TablesTyped BY PacksAre DEF DepotInit, TablesTyped
<1>2. SessionsTyped
  <2>1. \A f \in Fences : NoSession \in SessionType BY NothingGood DEF GoodSession
  <2>2. QED BY <1>a, <2>1, NothingGood DEF DepotInit, SessionsTyped
<1>3. PostsTyped
  <2>1. \A f \in Fences : IdlePost \in PostType BY NothingGood DEF GoodPost
  <2>2. [pc |-> "idle", todo |-> {}] \in DriveType BY DEF DriveType
  <2>3. QED BY <1>a, <2>1, <2>2, NothingGood DEF DepotInit, PostsTyped
<1>4. PassesTyped
  <2>1. IdleExpiry \in ExpiryType /\ IdleExpiry.pc = "idle" BY DEF IdleExpiry, ExpiryType
  <2>2. NoPass \in PassType /\ NoPass.pc = "idle" BY DEF NoPass, PassType
  <2>3. NoRead \in [pack : Packs \cup {NoPack}, since : SUBSET Depots] BY DEF NoRead
  <2>4. pass = [d \in Depots |-> NoPass] BY DEF DepotInit, NoPass
  <2>5. QED BY <1>a, <2>1, <2>2, <2>3, <2>4 DEF PassesTyped, Idle
<1>5. \A p \in Packs : ~InUse(p) BY <1>a, <1>b, PacksAre DEF InUse
<1>6. UseInv /\ QuietInv /\ StagingInv /\ MineInv
  BY <1>a, <1>b, <1>5 DEF UseInv, QuietInv, StagingInv, MineInv
<1>7. OrphanInv /\ ReaderInv
  <2>1. \A d \in Depots : Orphans(d) = {} BY <1>a DEF Orphans, NoPass
  <2>2. QED BY <1>a, <2>1 DEF OrphanInv, ReaderInv
<1>8. LockInv /\ CommittedInv /\ BackInv /\ CommitInv
  BY <1>a, <1>b DEF LockInv, CommittedInv, BackInv, CommitInv, Deleting, IdleExpiry
<1>9. QED BY <1>1, <1>2, <1>3, <1>4, <1>6, <1>7, <1>8 DEF DepotInv, DepotTyped

\* Every step keeps the invariant.
LEMMA DepotStep == DepotInv /\ [DepotNext]_depotVars => DepotInv'
<1> SUFFICES ASSUME DepotInv, [DepotNext]_depotVars PROVE DepotInv' OBVIOUS
<1>1. CASE DepotNext
  <2>1. DepotTyped' /\ DepotGoes BY <1>1, DepotTypedStep, StepGoes DEF DepotInv
  <2>2. QED
    BY <1>1, <2>1, UseStep, QuietStep, StagingStep, MineStep, OrphanStep, ReaderStep, LockStep, CommittedStep,
       BackStep, CommitStep
    DEF DepotInv
<1>2. CASE UNCHANGED depotVars
  <2> USE <1>2 DEF depotVars, DepotInv
  <2>1. DepotTyped'
    BY DEF DepotTyped, TablesTyped, SessionsTyped, PostsTyped, PassesTyped, Idle
  <2>2. \A p \in Packs : (InUse(p)' <=> InUse(p)) /\ (Made(p)' <=> Made(p)) BY DEF InUse, Made
  <2>3. UseInv' BY <2>2 DEF UseInv
  <2>4. QuietInv' /\ StagingInv' /\ MineInv' BY DEF QuietInv, StagingInv, MineInv
  <2>5. \A d \in Depots : Orphans(d)' = Orphans(d) /\ Orphans(d) \subseteq Packs
    BY DEF Orphans, DepotTyped, PassesTyped, PassType
  <2>6. OrphanInv' BY <2>2, <2>5 DEF OrphanInv
  <2>7. ReaderInv' BY <2>5 DEF ReaderInv, Idle
  <2>8. LockInv' /\ CommittedInv' BY DEF LockInv, CommittedInv, Deleting, Flipped, SharedBy
  <2>9. BackInv' BY DEF BackInv, Backs, Condemned
  <2>10. CommitInv' BY DEF CommitInv, WillBack
  <2>11. QED BY <2>1, <2>3, <2>4, <2>6, <2>7, <2>8, <2>9, <2>10 DEF DepotInv
<1>3. QED BY <1>1, <1>2

\* What the invariant says of a state, as the runs check it.
LEMMA DepotSafe == DepotInv => DepotTypeOK /\ RecordsAreBacked /\ PointersBeforeBytes
<1> SUFFICES ASSUME DepotInv PROVE DepotTypeOK /\ RecordsAreBacked /\ PointersBeforeBytes OBVIOUS
<1>1. \A p \in Packs : row[p] # "none" => p \in bytes BY DEF DepotInv, UseInv, InUse
<1>2. PointersBeforeBytes BY <1>1 DEF DepotInv, ReaderInv, PointersBeforeBytes
<1>3. RecordsAreBacked
  <2> SUFFICES ASSUME NEW f \in record, NEW b \in Closure[f] PROVE \E p \in bytes : row[p] # "none" /\ b \in holds[p]
    BY DEF RecordsAreBacked
  <2>1. PICK p \in Packs : Backs(p, f, b) BY DEF DepotInv, BackInv
  <2>2. row[p] # "none" /\ b \in holds[p] BY <2>1 DEF Backs
  <2>3. QED BY <1>1, <2>2
<1>4. \A d \in Depots, f \in Fences : sess[d][f].sealed \subseteq Packs /\ (~sess[d][f].on => sess[d][f] = NoSession)
  BY DEF DepotInv, DepotTyped, SessionsTyped, GoodSession, SessionType
<1>5. \A f \in Fences : /\ drive[f].pc \in {"idle", "put", "post", "wait", "over"}
                        /\ post[f].pc \in {"idle", "seal", "gate", "flip", "recheck", "commit"}
  BY DEF DepotInv, DepotTyped, PostsTyped, DriveType, PostType
<1>6. /\ expiry.pc \in {"idle", "lock", "reread", "borrowers", "delete"}
      /\ \A d \in Depots : pass[d].pc \in {"idle", "rows", "list", "quiet", "delete"}
  BY DEF DepotInv, DepotTyped, PassesTyped, ExpiryType, PassType
<1>7. DepotTypeOK
  BY <1>4, <1>5, <1>6 DEF DepotInv, DepotTyped, TablesTyped, CommittedInv, DepotTypeOK
<1>8. QED BY <1>2, <1>3, <1>7

\* The inductive invariant of the Depot.
THEOREM DepotCorrect == DepotSpec => []DepotInv
  BY DepotStart, DepotStep, PTL DEF DepotSpec

\* What a success record published can be read, whoever deduplicated against
\* whom and whatever expired or was reclaimed meanwhile.
THEOREM RecordsBacked == DepotSpec => []RecordsAreBacked
  BY DepotSafe, DepotCorrect, PTL

\* No row names a pack that is gone, and a read that has its pointer finds the
\* bytes.
THEOREM PointersFirst == DepotSpec => []PointersBeforeBytes
  BY DepotSafe, DepotCorrect, PTL

\* The two components of the run keep their invariants, each where it is
\* followed and where it stands still.
THEOREM BothCorrect == BothSpec => [](DepotInv /\ SchedulesInv)
<1>1. BothInit => DepotInv /\ SchedulesInv BY DepotStart, SchedulesStart DEF BothInit
<1>2. DepotInv /\ SchedulesInv /\ [BothNext]_bothVars => (DepotInv /\ SchedulesInv)'
  <2> SUFFICES ASSUME DepotInv, SchedulesInv, [BothNext]_bothVars PROVE (DepotInv /\ SchedulesInv)' OBVIOUS
  <2>1. [DepotNext]_depotVars /\ [SchedulesNext]_schedVars BY DEF BothNext, bothVars
  <2>2. QED BY <2>1, DepotStep, SchedulesStep
<1>3. QED BY <1>1, <1>2, PTL DEF BothSpec

\* Type correctness of both: a committed row has its record, and a slot that has
\* a Run was claimed.
THEOREM BothTyped == BothSpec => []BothTypeOK
<1>1. DepotInv /\ SchedulesInv => BothTypeOK BY DepotSafe, SchedulesSafe DEF BothTypeOK
<1>2. QED BY <1>1, BothCorrect, PTL
=============================================================================
