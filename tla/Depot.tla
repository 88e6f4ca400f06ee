------------------------------- MODULE Depot -------------------------------
(***************************************************************************)
(* The Depot's packs.  A Step's drain uploads its blobs to any Depot       *)
(* replica, where they collect in a pack; a pack that is sealed is an      *)
(* object with staged index rows, and the drain's record commits the rows  *)
(* of its fence, and may stand on other fences' committed packs.  Three    *)
(* deleters run beside: the control plane expires the fences of old Runs,  *)
(* and each replica reclaims the rows of drains that never finished and    *)
(* the objects no row names.                                               *)
(*                                                                         *)
(* Trees are left out (a drain always uploads its own), and so are error   *)
(* records, which commit nothing, and what predates the borrow epoch.      *)
(***************************************************************************)
EXTENDS Naturals, FiniteSets

CONSTANTS
  Fences,     \* (run, step, attempt) triples, each of a Run of its own
  Blobs,
  Closure,    \* [Fences -> SUBSET Blobs]: what each drain publishes
  Depots,     \* the Depot replicas
  NoFence, NoPack, NoDepot,
  MaxPacks,   \* bound: packs of one fence
  MaxUpsets,  \* bound: failed seals and stagings, crashes, lost answers
  MaxReopens  \* bound: reruns of Runs past their retention

ASSUME DepotAssumption ==
  /\ Closure \in [Fences -> SUBSET Blobs] /\ NoFence \notin Fences /\ NoDepot \notin Depots
  /\ NoPack \notin Fences \X Nat /\ {MaxPacks, MaxUpsets, MaxReopens} \subseteq Nat

VARIABLES
  past,     \* the fences whose Run is terminal, past its pack TTL and not pinned
  quiet,    \* the fences with no sign of life for PACK_RECLAIM_STALE_SECS
  bytes,    \* the pack objects in the bucket
  holds,    \* each pack's members
  row,      \* depot_packs
  record,   \* the fences with a success record
  borrows,  \* depot_fence_borrows: <<borrower, owner>>
  next,     \* the next pack of each fence
  sess,     \* each replica's pack session of each fence
  drive,    \* each fence's drain helper
  post,     \* each fence's record POST, and the replica that handles it
  expiry,   \* the expiry pass's victim and where its transaction is
  pass,     \* each replica's reclaim pass
  reader,   \* a read that has its pointer, and the replicas whose pass began since
  tally

depotVars == <<past, quiet, bytes, holds, row, record, borrows, next, sess, drive, post, expiry, pass,
               reader, tally>>

Packs == Fences \X (1 .. MaxPacks)
FenceOf(p) == p[1]
NoSession == [on |-> FALSE, open |-> {}, staging |-> NoPack, sealed |-> {}, packed |-> {}]
IdlePost == [pc |-> "idle", at |-> NoDepot, sealed |-> {}, mine |-> {}, shared |-> {}]
IdleExpiry == [pc |-> "idle", fence |-> NoFence]
NoRead == [pack |-> NoPack, since |-> {}]

\* The type of the state; a pack's rows are committed by a record alone.
DepotTypeOK ==
  /\ past \subseteq Fences /\ quiet \subseteq Fences /\ record \subseteq Fences
  /\ bytes \subseteq Packs /\ holds \in [Packs -> SUBSET Blobs]
  /\ row \in [Packs -> {"none", "staged", "committed"}]
  /\ \A p \in Packs : row[p] = "committed" => FenceOf(p) \in record
  /\ borrows \subseteq Fences \X Fences /\ next \in [Fences -> 1 .. MaxPacks + 1]
  /\ \A d \in Depots, f \in Fences : sess[d][f].sealed \subseteq Packs /\ (~sess[d][f].on => sess[d][f] = NoSession)
  /\ \A f \in Fences : drive[f].pc \in {"idle", "put", "post", "wait", "over"}
  /\ \A f \in Fences : post[f].pc \in {"idle", "seal", "gate", "flip", "recheck", "commit"}
  /\ expiry.pc \in {"idle", "lock", "reread", "borrowers", "delete"}
  /\ \A d \in Depots : pass[d].pc \in {"idle", "rows", "list", "quiet", "delete"}

DepotInit ==
  /\ past = {} /\ quiet = {} /\ bytes = {} /\ record = {} /\ borrows = {}
  /\ holds = [p \in Packs |-> {}] /\ row = [p \in Packs |-> "none"]
  /\ next = [f \in Fences |-> 1]
  /\ sess = [d \in Depots |-> [f \in Fences |-> NoSession]]
  /\ drive = [f \in Fences |-> [pc |-> "idle", todo |-> {}]]
  /\ post = [f \in Fences |-> IdlePost]
  /\ expiry = IdleExpiry
  /\ pass = [d \in Depots |-> [pc |-> "idle", found |-> {}, seen |-> {}]]
  /\ reader = NoRead /\ tally = [upsets |-> 0, reopens |-> 0]

Mishap == tally.upsets < MaxUpsets /\ tally' = [tally EXCEPT !.upsets = @ + 1]

-----------------------------------------------------------------------------
(* The drain helper of a fence.                                            *)

\* `durable_present_of`: committed packs, and the fence's own staged ones.
DurableFor(f) == UNION {holds[p] : p \in {q \in Packs : row[q] = "committed" \/ (row[q] = "staged" /\ FenceOf(q) = f)}}

\* `/have`: what the index lacks is to be uploaded.
Have(f) ==
  /\ drive[f].pc = "idle"
  /\ drive' = [drive EXCEPT ![f] = [pc |-> "put", todo |-> Closure[f] \ DurableFor(f)]]
  /\ UNCHANGED <<past, quiet, bytes, holds, row, record, borrows, next, sess, post, expiry, pass, reader, tally>>

\* `PackSession::append`: what the session has packed is not packed again.
Append(s, b) == [s EXCEPT !.on = TRUE, !.packed = @ \cup {b},
                          !.open = IF b \in s.packed THEN @ ELSE @ \cup {b}]

PutBlob(f, d) ==
  \E b \in drive[f].todo :
    /\ drive[f].pc = "put" /\ sess[d][f].staging = NoPack
    /\ sess' = [sess EXCEPT ![d][f] = Append(@, b)]
    /\ drive' = [drive EXCEPT ![f].todo = @ \ {b}]
    /\ UNCHANGED <<past, quiet, bytes, holds, row, record, borrows, next, post, expiry, pass, reader, tally>>

\* The trees go last: each refreshes the fence's write ledger.
PutTrees(f) ==
  /\ drive[f].pc = "put" /\ drive[f].todo = {}
  /\ drive' = [drive EXCEPT ![f].pc = "post"] /\ quiet' = quiet \ {f}
  /\ UNCHANGED <<past, bytes, holds, row, record, borrows, next, sess, post, expiry, pass, reader, tally>>

\* The record is posted; a success record that stands is a conflict, and the
\* helper is content.
PostBegins(f, d) ==
  /\ drive[f].pc = "post" /\ post[f] = IdlePost
  /\ IF f \in record
     THEN drive' = [drive EXCEPT ![f].pc = "over"] /\ UNCHANGED post
     ELSE /\ drive' = [drive EXCEPT ![f].pc = "wait"]
          /\ post' = [post EXCEPT ![f] = [IdlePost EXCEPT !.pc = "seal", !.at = d]]
  /\ UNCHANGED <<past, quiet, bytes, holds, row, record, borrows, next, sess, expiry, pass, reader, tally>>

\* The helper loses its answer and is re-driven; its POST may still be at work.
LostAnswer(f) ==
  /\ drive[f].pc = "wait" /\ Mishap
  /\ drive' = [drive EXCEPT ![f].pc = "idle"]
  /\ UNCHANGED <<past, quiet, bytes, holds, row, record, borrows, next, sess, post, expiry, pass, reader>>

\* The attempt ends without its drain.
DriveEnds(f) ==
  /\ drive[f].pc # "over" /\ drive' = [drive EXCEPT ![f] = [pc |-> "over", todo |-> {}]]
  /\ UNCHANGED <<past, quiet, bytes, holds, row, record, borrows, next, sess, post, expiry, pass, reader, tally>>

-----------------------------------------------------------------------------
(* Sealing: by the record POST, a full pack or the linger ticker.          *)

PostAt(f, pc) == post[f].pc = pc

\* The helper is re-driven, or posts again.
Refused(f) ==
  /\ post' = [post EXCEPT ![f] = IdlePost]
  /\ \E pc \in {"idle", "post"} :
       drive' = IF drive[f].pc = "wait" THEN [drive EXCEPT ![f].pc = pc] ELSE drive

\* The open pack's upload completes, under a key of its own.
SealFinish(d, f) ==
  LET p == <<f, next[f]>> IN
  /\ sess[d][f].open # {} /\ sess[d][f].staging = NoPack /\ next[f] <= MaxPacks
  /\ bytes' = bytes \cup {p} /\ holds' = [holds EXCEPT ![p] = sess[d][f].open]
  /\ next' = [next EXCEPT ![f] = @ + 1] /\ quiet' = quiet \ {f}
  /\ sess' = [sess EXCEPT ![d][f].open = {}, ![d][f].staging = p]
  /\ UNCHANGED <<past, row, record, borrows, drive, post, expiry, pass, reader, tally>>

\* Or fails: its members are forgotten, and so packed again.
SealFails(d, f) ==
  /\ sess[d][f].open # {} /\ sess[d][f].staging = NoPack /\ Mishap
  /\ sess' = [sess EXCEPT ![d][f].open = {}, ![d][f].packed = @ \ sess[d][f].open]
  /\ IF PostAt(f, "seal") /\ post[f].at = d THEN Refused(f) ELSE UNCHANGED <<post, drive>>
  /\ UNCHANGED <<past, quiet, bytes, holds, row, record, borrows, next, expiry, pass, reader>>

\* After a staging that failed, its members are packed again when uploaded again.
StillPacked(s) == s.packed \ holds[s.staging]

\* `stage_pack_rows`.
SealStage(d, f) ==
  LET p == sess[d][f].staging IN
  /\ p # NoPack
  /\ \/ /\ row' = [row EXCEPT ![p] = "staged"] /\ UNCHANGED tally
        /\ sess' = [sess EXCEPT ![d][f].staging = NoPack, ![d][f].sealed = @ \cup {p}]
     \/ /\ Mishap /\ UNCHANGED row
        /\ sess' = [sess EXCEPT ![d][f].staging = NoPack, ![d][f].sealed = @ \cup {p},
                                ![d][f].packed = StillPacked(sess[d][f])]
  /\ UNCHANGED <<past, quiet, bytes, holds, record, borrows, next, drive, post, expiry, pass, reader>>

\* `sweep_residue_once`: a session untouched for a token's lifetime is dropped.
\* By then its helper is gone and no POST that it served is left.
AbortSession(d, f) ==
  /\ sess[d][f].on /\ drive[f].pc \in {"idle", "over"} /\ post[f] = IdlePost
  /\ sess[d][f].staging = NoPack
  /\ sess' = [sess EXCEPT ![d][f] = NoSession]
  /\ UNCHANGED <<past, quiet, bytes, holds, row, record, borrows, next, drive, post, expiry, pass, reader, tally>>

-----------------------------------------------------------------------------
(* post_drain, and its transaction.                                        *)

\* `seal_fence_packs`: the packs this replica sealed.
PostSealed(f) ==
  LET s == sess[post[f].at][f] IN
  /\ PostAt(f, "seal") /\ s.open = {} /\ s.staging = NoPack
  /\ post' = [post EXCEPT ![f].pc = "gate", ![f].sealed = s.sealed]
  /\ UNCHANGED <<past, quiet, bytes, holds, row, record, borrows, next, sess, drive, expiry, pass, reader, tally>>

\* The durable-presence gate.
Gate(f) ==
  /\ PostAt(f, "gate")
  /\ IF Closure[f] \subseteq DurableFor(f) \cup UNION {holds[p] : p \in post[f].sealed}
     THEN post' = [post EXCEPT ![f].pc = "flip"] /\ UNCHANGED drive
     ELSE Refused(f)
  /\ UNCHANGED <<past, quiet, bytes, holds, row, record, borrows, next, sess, expiry, pass, reader, tally>>

\* The row locks of the transactions at work.
Deleting(f) == expiry.fence = f /\ expiry.pc \in {"reread", "borrowers", "delete"}
Flipped(f) == post[f].pc \in {"recheck", "commit"}
SharedBy(f) == \E g \in Fences : f \in post[g].shared

\* `insert_pack_rows`: this replica's packs are indexed, and the fence's staged
\* rows become committed, with the transaction.
Flip(f) ==
  /\ PostAt(f, "flip") /\ ~Deleting(f)
  /\ post' = [post EXCEPT ![f].pc = "recheck",
                          ![f].mine = @ \cup post[f].sealed \cup {p \in Packs : FenceOf(p) = f /\ row[p] # "none"}]
  /\ UNCHANGED <<past, quiet, bytes, holds, row, record, borrows, next, sess, drive, expiry, pass, reader, tally>>

\* The packs the closure stands on, seen from the transaction.
StandsOn(f) ==
  {p \in Packs : /\ holds[p] \cap Closure[f] # {}
                 /\ row[p] = "committed" \/ p \in post[f].mine \/ (row[p] = "staged" /\ FenceOf(p) = f)}

\* Mutant: the re-check takes no lock on the rows it reads.
NoLocks(f) == {}

\* `FOR SHARE`: the fences whose rows the re-check holds until the commit.
ShareLocks(f) == {FenceOf(p) : p \in StandsOn(f)}

\* `recheck_closure_present`; it waits for a deleter that has the rows.
Recheck(f) ==
  /\ PostAt(f, "recheck") /\ \A g \in ShareLocks(f) : ~Deleting(g)
  /\ IF Closure[f] \subseteq UNION {holds[p] : p \in StandsOn(f)}
     THEN post' = [post EXCEPT ![f].pc = "commit", ![f].shared = ShareLocks(f)] /\ UNCHANGED drive
     ELSE Refused(f)
  /\ UNCHANGED <<past, quiet, bytes, holds, row, record, borrows, next, sess, expiry, pass, reader, tally>>

\* `record_borrow_edges`: every other fence with a committed pack of the closure.
Lenders(f) == {FenceOf(p) : p \in {q \in StandsOn(f) : row[q] = "committed"}} \ {f}

\* The edges, the record, the commit.
RecordCommits(f) ==
  /\ PostAt(f, "commit")
  /\ row' = [p \in Packs |-> IF p \in post[f].mine THEN "committed" ELSE row[p]]
  /\ borrows' = borrows \cup ({f} \X Lenders(f)) /\ record' = record \cup {f}
  /\ sess' = [sess EXCEPT ![post[f].at][f] = NoSession]
  /\ post' = [post EXCEPT ![f] = IdlePost]
  /\ drive' = IF drive[f].pc = "wait" THEN [drive EXCEPT ![f].pc = "over"] ELSE drive
  /\ UNCHANGED <<past, quiet, bytes, holds, next, expiry, pass, reader, tally>>

-----------------------------------------------------------------------------
(* expire_committed_fences_once: one victim at a time.                     *)

ExpiryTo(pc) == expiry' = [expiry EXCEPT !.pc = pc]
Idle(d) == pass[d].pc = "idle"
PassLockFree == expiry = IdleExpiry /\ \A d \in Depots : Idle(d)

\* A borrower of the fence whose record lives.
Borrowed(f) == \E g \in record : <<g, f>> \in borrows

Nominate(f) ==
  /\ PassLockFree /\ f \in record \cap past /\ ~Borrowed(f)
  /\ expiry' = [pc |-> "lock", fence |-> f]
  /\ UNCHANGED <<past, quiet, bytes, holds, row, record, borrows, next, sess, drive, post, pass, reader, tally>>

\* `FOR UPDATE` of the victim's rows.
LockVictim ==
  /\ expiry.pc = "lock" /\ ~Flipped(expiry.fence) /\ ~SharedBy(expiry.fence)
  /\ ExpiryTo("reread")
  /\ UNCHANGED <<past, quiet, bytes, holds, row, record, borrows, next, sess, drive, post, pass, reader, tally>>

\* The predicate again, then the borrowers, each as it is now.
Reread ==
  /\ expiry.pc = "reread"
  /\ IF expiry.fence \in record \cap past THEN ExpiryTo("borrowers") ELSE expiry' = IdleExpiry
  /\ UNCHANGED <<past, quiet, bytes, holds, row, record, borrows, next, sess, drive, post, pass, reader, tally>>

CheckBorrowers ==
  /\ expiry.pc = "borrowers"
  /\ IF Borrowed(expiry.fence) THEN expiry' = IdleExpiry ELSE ExpiryTo("delete")
  /\ UNCHANGED <<past, quiet, bytes, holds, row, record, borrows, next, sess, drive, post, pass, reader, tally>>

\* Mutant: the rows are left to the reclaim pass.
ExpireRecord ==
  LET f == expiry.fence IN
  /\ expiry.pc = "delete" /\ expiry' = IdleExpiry
  /\ record' = record \ {f} /\ borrows' = {e \in borrows : e[1] # f}
  /\ UNCHANGED <<past, quiet, bytes, holds, row, next, sess, drive, post, pass, reader, tally>>

\* Pointers only: rows, record, and the edges of the victim as a borrower.
ExpireFence ==
  LET f == expiry.fence IN
  /\ expiry.pc = "delete" /\ expiry' = IdleExpiry
  /\ row' = [p \in Packs |-> IF FenceOf(p) = f THEN "none" ELSE row[p]]
  /\ record' = record \ {f} /\ borrows' = {e \in borrows : e[1] # f}
  /\ UNCHANGED <<past, quiet, bytes, holds, next, sess, drive, post, pass, reader, tally>>

-----------------------------------------------------------------------------
(* pack_reclaim_pass.                                                      *)

PassTo(d, p) == pass' = [pass EXCEPT ![d] = p]

\* A read ends well within a cadence: no replica passes twice during it.
PassBegins(d) ==
  /\ PassLockFree /\ d \notin reader.since
  /\ PassTo(d, [pass[d] EXCEPT !.pc = "rows"])
  /\ reader' = IF reader = NoRead THEN reader ELSE [reader EXCEPT !.since = @ \cup {d}]
  /\ UNCHANGED <<past, quiet, bytes, holds, row, record, borrows, next, sess, drive, post, expiry, tally>>

\* `reclaim_stale_staging_once`: the staged rows of quiet fences without a record.
Doomed == {p \in Packs : row[p] = "staged" /\ FenceOf(p) \in quiet \ record}

ReclaimRows(d) ==
  /\ pass[d].pc = "rows" /\ \A p \in Doomed : ~Flipped(FenceOf(p)) /\ ~SharedBy(FenceOf(p))
  /\ row' = [p \in Packs |-> IF p \in Doomed THEN "none" ELSE row[p]]
  /\ PassTo(d, [pass[d] EXCEPT !.pc = "list", !.found = Doomed])
  /\ UNCHANGED <<past, quiet, bytes, holds, record, borrows, next, sess, drive, post, expiry, reader, tally>>

\* `reclaim_orphan_packs_once`: old objects, but for those rows just deleted,
\* that no row names.
ListOrphans(d) ==
  /\ pass[d].pc = "list"
  /\ PassTo(d, [pass[d] EXCEPT !.pc = "quiet",
                               !.found = {p \in bytes \ @ : FenceOf(p) \in quiet /\ row[p] = "none"}])
  /\ UNCHANGED <<past, quiet, bytes, holds, row, record, borrows, next, sess, drive, post, expiry, reader, tally>>

\* Those of fences that are still quiet and have no record.
QuietOrphans(d) ==
  /\ pass[d].pc = "quiet"
  /\ PassTo(d, [pass[d] EXCEPT !.pc = "delete", !.found = {p \in @ : FenceOf(p) \in quiet \ record}])
  /\ UNCHANGED <<past, quiet, bytes, holds, row, record, borrows, next, sess, drive, post, expiry, reader, tally>>

\* Mutant: an orphan goes at first sight.
AtFirstSight(d) == pass[d].found

\* Only an orphan that this replica's previous scan saw too goes.
SeenTwice(d) == pass[d].found \cap pass[d].seen

DeleteOrphans(d) ==
  /\ pass[d].pc = "delete"
  /\ bytes' = bytes \ SeenTwice(d)
  /\ PassTo(d, [pc |-> "idle", found |-> {}, seen |-> pass[d].found \ SeenTwice(d)])
  /\ UNCHANGED <<past, quiet, holds, row, record, borrows, next, sess, drive, post, expiry, reader, tally>>

-----------------------------------------------------------------------------
(* Reads, time and crashes.                                                *)

\* `read_packed`: the pointer, then the bytes.  A read of a fence that is not
\* quiet ends before any deleter could reach it.
ReadPointer(p) ==
  /\ reader = NoRead /\ row[p] # "none" /\ FenceOf(p) \in quiet /\ reader' = [pack |-> p, since |-> {}]
  /\ UNCHANGED <<past, quiet, bytes, holds, row, record, borrows, next, sess, drive, post, expiry, pass, tally>>

ReadBytes ==
  /\ reader # NoRead /\ reader' = NoRead
  /\ UNCHANGED <<past, quiet, bytes, holds, row, record, borrows, next, sess, drive, post, expiry, pass, tally>>

Sessions(f) == {d \in Depots : sess[d][f].on}

\* Two token lifetimes pass without a sign of the fence: its sessions are swept
\* by then, and a POST that is left sealed nothing itself.
FenceAges(f) ==
  /\ f \notin quiet /\ next[f] > 1 /\ Sessions(f) = {} /\ post[f].sealed = {}
  /\ quiet' = quiet \cup {f}
  /\ UNCHANGED <<past, bytes, holds, row, record, borrows, next, sess, drive, post, expiry, pass, reader, tally>>

\* The pack TTL, in days, passes after the Run's end.
RunAges(f) ==
  /\ f \notin past /\ drive[f].pc = "over" /\ Sessions(f) = {} /\ post[f] = IdlePost
  /\ past' = past \cup {f}
  /\ UNCHANGED <<quiet, bytes, holds, row, record, borrows, next, sess, drive, post, expiry, pass, reader, tally>>

\* A rerun opens the Run again.  It matters to an expiry that has nominated the
\* fence; at another time the Run might as well have aged later.
RunReopens(f) ==
  /\ f \in past /\ expiry.fence = f /\ tally.reopens < MaxReopens
  /\ past' = past \ {f} /\ tally' = [tally EXCEPT !.reopens = @ + 1]
  /\ UNCHANGED <<quiet, bytes, holds, row, record, borrows, next, sess, drive, post, expiry, pass, reader>>

\* A replica restarts: sessions, requests and what its scans had seen are gone.
DepotRestarts(d) ==
  /\ Mishap
  /\ sess' = [sess EXCEPT ![d] = [f \in Fences |-> NoSession]]
  /\ post' = [f \in Fences |-> IF post[f].at = d THEN IdlePost ELSE post[f]]
  /\ drive' = [f \in Fences |-> IF post[f].at = d /\ drive[f].pc = "wait"
                               THEN [drive[f] EXCEPT !.pc = "idle"] ELSE drive[f]]
  /\ pass' = [pass EXCEPT ![d] = [pc |-> "idle", found |-> {}, seen |-> {}]]
  /\ reader' = [reader EXCEPT !.since = @ \ {d}]
  /\ UNCHANGED <<past, quiet, bytes, holds, row, record, borrows, next, expiry>>

-----------------------------------------------------------------------------

PostStep(f) == PostSealed(f) \/ Gate(f) \/ Flip(f) \/ Recheck(f) \/ RecordCommits(f)
ExpiryStep == LockVictim \/ Reread \/ CheckBorrowers \/ ExpireFence
PassStep(d) == ReclaimRows(d) \/ ListOrphans(d) \/ QuietOrphans(d) \/ DeleteOrphans(d)

DepotNext ==
  \/ \E f \in Fences : \/ Have(f) \/ PutTrees(f) \/ LostAnswer(f) \/ DriveEnds(f)
                       \/ PostStep(f) \/ Nominate(f) \/ FenceAges(f) \/ RunAges(f) \/ RunReopens(f)
  \/ \E d \in Depots, f \in Fences : \/ PutBlob(f, d) \/ PostBegins(f, d) \/ SealFinish(d, f) \/ SealFails(d, f)
                                     \/ SealStage(d, f) \/ AbortSession(d, f)
  \/ \E d \in Depots : PassBegins(d) \/ PassStep(d) \/ DepotRestarts(d)
  \/ ExpiryStep
  \/ \E p \in Packs : ReadPointer(p)
  \/ ReadBytes

DepotSpec == DepotInit /\ [][DepotNext]_depotVars

-----------------------------------------------------------------------------
(* Properties.                                                             *)

\* What a success record published can be read: every blob is in a pack that
\* the index names and the bucket has, whoever deduplicated against whom and
\* whatever expired or was reclaimed meanwhile (`post_drain`,
\* `expire_one_fence`, `pack_reclaim_pass`).
RecordsAreBacked ==
  \A f \in record : \A b \in Closure[f] : \E p \in bytes : row[p] # "none" /\ b \in holds[p]

\* Pointers go before bytes: no row names a pack that is gone, and a read that
\* has its pointer finds the bytes.
PointersBeforeBytes ==
  /\ \A p \in Packs : row[p] # "none" => p \in bytes
  /\ reader # NoRead => reader.pack \in bytes
=============================================================================
