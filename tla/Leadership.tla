----------------------------- MODULE Leadership -----------------------------
(***************************************************************************)
(* The scheduler's leadership lease and the fence on a leader's writes.    *)
(*                                                                         *)
(* Replicas share one row of the `leases` table.  A replica's scheduler    *)
(* leg first calls `lease`: it reads the row without a lock, then inserts, *)
(* renews or takes over with a guarded UPDATE, and gets a LeaderTerm when  *)
(* it is the owner.  The leg's fenced writes then each run in a            *)
(* transaction that re-checks (owner, term) and holds the row FOR SHARE    *)
(* until it ends; an UPDATE of the row takes it exclusively.               *)
(*                                                                         *)
(* A replica may be stopped anywhere (SIGSTOP, a GC pause) with its        *)
(* database session alive, and go on later; or it may crash, which ends    *)
(* the session.  Postgres is external: row locks, timeouts and the end of  *)
(* a transaction are modelled from the settings the code gives it.         *)
(***************************************************************************)
EXTENDS Naturals, Sequences

CONSTANTS
  Replicas,   \* the server processes; an owner name is unique per process
  NoOne,      \* no owner: the lease row does not exist yet
  MaxTerm,    \* bound: the lease of this term does not expire
  MaxWrites,  \* bound: fenced commits
  Rounds      \* how often `lease` reads the row before it gives up (3)

ASSUME LeadershipAssumption ==
  /\ NoOne \notin Replicas
  /\ MaxTerm \in Nat
  /\ MaxWrites \in Nat
  /\ Rounds \in Nat \ {0}

VARIABLES
  row,      \* the committed leases row: [owner, term]; term 0 = no row
  expired,  \* whether expires_at < now() for the committed row
  xlock,    \* the replica whose UPDATE transaction holds the row, or NoOne
  shared,   \* the replicas whose fenced transaction holds the row FOR SHARE
  pc,       \* where each replica's scheduler loop is
  seen,     \* the row each replica's `lease` call read: [owner, term]
  round,    \* the round of the current `lease` call
  held,     \* the term of the LeaderTerm each leg runs under (0: none)
  life,     \* each process: up, stopped, resumed (up again), dead
  log       \* the committed fenced writes, oldest first: [owner, term]

vars == <<row, expired, xlock, shared, pc, seen, round, held, life, log>>

Owner == Replicas \cup {NoOne}
Rows  == [owner : Owner, term : Nat]

PC == {"read",    \* about to call `lease`, or to read again in it
       "update",  \* `lease` decided to insert, renew or take over
       "commit",  \* its UPDATE holds the row, not yet committed
       "leg",     \* in a leader leg, between fenced transactions
       "tx"}      \* inside a fenced transaction

Life == {"up", "stopped", "resumed", "dead"}

TypeOK ==
  /\ row \in Rows
  /\ expired \in BOOLEAN
  /\ xlock \in Owner
  /\ shared \in SUBSET Replicas
  /\ pc \in [Replicas -> PC]
  /\ seen \in [Replicas -> Rows]
  /\ round \in [Replicas -> Nat]
  /\ held \in [Replicas -> Nat]
  /\ life \in [Replicas -> Life]
  /\ log \in Seq([owner : Replicas, term : Nat])
  /\ \A r \in Replicas : held[r] # 0 => pc[r] \in {"leg", "tx"}

\* No row yet.
Absent == [owner |-> NoOne, term |-> 0]

Init ==
  /\ row = Absent
  /\ expired = FALSE
  /\ xlock = NoOne
  /\ shared = {}
  /\ pc = [r \in Replicas |-> "read"]
  /\ seen = [r \in Replicas |-> Absent]
  /\ round = [r \in Replicas |-> 1]
  /\ held = [r \in Replicas |-> 0]
  /\ life = [r \in Replicas |-> "up"]
  /\ log = << >>

Runs(r) == life[r] \in {"up", "resumed"}

-----------------------------------------------------------------------------
(* The `lease` call.                                                       *)

\* The lease that `lease` returns, and `held_by` on it: a LeaderTerm for its
\* owner, who starts a leader leg; a follower's leg is over.
GotLease(r, l) ==
  /\ pc' = [pc EXCEPT ![r] = IF l.owner = r THEN "leg" ELSE "read"]
  /\ held' = [held EXCEPT ![r] = IF l.owner = r THEN l.term ELSE 0]
  /\ round' = [round EXCEPT ![r] = 1]
  /\ seen' = [seen EXCEPT ![r] = Absent]

\* The unlocked read of a round.  A live lease of somebody else is reported
\* as read; anything else goes on to a write.  After the last round the row
\* is reported, whoever holds it.
LeaseRead(r) ==
  /\ pc[r] = "read"
  /\ IF round[r] > Rounds \/ (row.term # 0 /\ row.owner # r /\ ~expired)
     THEN GotLease(r, row)
     ELSE /\ pc' = [pc EXCEPT ![r] = "update"]
          /\ seen' = [seen EXCEPT ![r] = row]
          /\ UNCHANGED <<held, round>>
  /\ UNCHANGED <<row, expired, xlock, shared, life, log>>

\* The row moved under the guard: the next round.
LostRace(r) ==
  /\ pc' = [pc EXCEPT ![r] = "read"]
  /\ round' = [round EXCEPT ![r] = @ + 1]
  /\ seen' = [seen EXCEPT ![r] = Absent]
  /\ UNCHANGED held

\* Nobody has held the lease: the first INSERT wins term 1, the others
\* (ON CONFLICT DO NOTHING) have lost a race.
LeaseInsert(r) ==
  /\ pc[r] = "update"
  /\ seen[r].term = 0
  /\ IF row.term = 0
     THEN /\ row' = [owner |-> r, term |-> 1]
          /\ expired' = FALSE
          /\ GotLease(r, row')
     ELSE /\ LostRace(r)
          /\ UNCHANGED <<row, expired>>
  /\ UNCHANGED <<xlock, shared, life, log>>

\* The WHERE clause of the guarded UPDATE, evaluated on the row as it is
\* when the row lock is granted: the row this call read, and ours or expired.
UpdateGuard(r) ==
  /\ row = seen[r]
  /\ row.owner = r \/ expired

\* Mutant: an UPDATE that does not wait for the share locks of fenced
\* transactions.
RowFreeOfUpdates == xlock = NoOne

\* Nobody holds the row, shared or exclusively.
RowFree == xlock = NoOne /\ shared = {}

\* The UPDATE is granted the row lock and its WHERE clause matches: the
\* transaction holds the row; or it matches nothing and a race is lost.
LeaseUpdate(r) ==
  /\ pc[r] = "update"
  /\ seen[r].term # 0
  /\ RowFree
  /\ IF UpdateGuard(r)
     THEN /\ xlock' = r
          /\ pc' = [pc EXCEPT ![r] = "commit"]
          /\ UNCHANGED <<seen, round, held>>
     ELSE /\ LostRace(r)
          /\ UNCHANGED xlock
  /\ UNCHANGED <<row, expired, shared, life, log>>

\* lock_timeout (TAKEOVER_WAIT) passes while the row is held: the lease is
\* reported as it was read.
LeaseTimeout(r) ==
  /\ pc[r] = "update"
  /\ seen[r].term # 0
  /\ ~RowFree
  /\ GotLease(r, seen[r])
  /\ UNCHANGED <<row, expired, xlock, shared, life, log>>

\* COMMIT: a renewal keeps the term and extends the lease; a takeover is the
\* next term.
LeaseCommit(r) ==
  /\ pc[r] = "commit"
  /\ row' = [owner |-> r, term |-> IF row.owner = r THEN row.term ELSE row.term + 1]
  /\ expired' = FALSE
  /\ xlock' = NoOne
  /\ GotLease(r, row')
  /\ UNCHANGED <<shared, life, log>>

-----------------------------------------------------------------------------
(* Fenced transactions of a leader leg.                                    *)

\* Mutant: the fence waits for the row and does not look at it.
FenceUnread(r) == TRUE

\* The fence: this leg's (owner, term) still holds the lease.
FenceHolds(r) == row = [owner |-> r, term |-> held[r]]

\* Mutant: the leg ends and the replica keeps its term.
EndsLegAsLeader(r) == pc' = [pc EXCEPT ![r] = "read"] /\ UNCHANGED held

\* A refused or finished leg: no LeaderTerm outlives it.
EndsLeg(r) ==
  /\ pc' = [pc EXCEPT ![r] = "read"]
  /\ held' = [held EXCEPT ![r] = 0]

\* begin_fenced: the SELECT ... FOR SHARE waits for an UPDATE in progress,
\* then finds the (owner, term) of this leg, or refuses with NotLeader, which
\* ends the leg quietly.
BeginFenced(r) ==
  /\ pc[r] = "leg"
  /\ xlock = NoOne
  /\ IF FenceHolds(r)
     THEN /\ shared' = shared \cup {r}
          /\ pc' = [pc EXCEPT ![r] = "tx"]
          /\ UNCHANGED held
     ELSE /\ EndsLeg(r)
          /\ UNCHANGED shared
  /\ UNCHANGED <<row, expired, xlock, seen, round, life, log>>

\* The transaction commits its writes and frees the row.
CommitFenced(r) ==
  /\ pc[r] = "tx"
  /\ r \in shared
  /\ Len(log) < MaxWrites
  /\ log' = Append(log, [owner |-> r, term |-> held[r]])
  /\ shared' = shared \ {r}
  /\ pc' = [pc EXCEPT ![r] = "leg"]
  /\ UNCHANGED <<row, expired, xlock, seen, round, held, life>>

\* A guard inside the transaction fails (Conflict) and it is rolled back; or
\* Postgres had already ended it (TxBound), its next statement fails with
\* FenceTimeout, and the leg ends.
AbortFenced(r) ==
  /\ pc[r] = "tx"
  /\ shared' = shared \ {r}
  /\ IF r \in shared
     THEN pc' = [pc EXCEPT ![r] = "leg"] /\ UNCHANGED held
     ELSE EndsLeg(r)
  /\ UNCHANGED <<row, expired, xlock, seen, round, life, log>>

\* The leg is over, or begin_fenced waited lock_timeout behind an UPDATE
\* (FenceTimeout).
EndLeg(r) ==
  /\ pc[r] = "leg"
  /\ EndsLeg(r)
  /\ UNCHANGED <<row, expired, xlock, shared, seen, round, life, log>>

-----------------------------------------------------------------------------
(* The environment.                                                        *)

\* The clock passes expires_at.
Expire ==
  /\ row.term # 0
  /\ row.term < MaxTerm
  /\ ~expired
  /\ expired' = TRUE
  /\ UNCHANGED <<row, xlock, shared, pc, seen, round, held, life, log>>

\* Mutant: a fenced transaction without the bound.
TxUnbounded(r) == FALSE

\* Postgres ends a fenced transaction whose bound passed (lock, statement or
\* idle-in-transaction timeout) and frees its lock; the replica learns of it
\* at its next statement.  The UPDATE transaction of `lease` sets only a
\* lock_timeout, so nothing ends it while it holds the row.
TxBound(r) ==
  /\ r \in shared
  /\ shared' = shared \ {r}
  /\ UNCHANGED <<row, expired, xlock, pc, seen, round, held, life, log>>

\* Some other replica runs: the model keeps one alive.
OtherRuns(r) == \E q \in Replicas \ {r} : Runs(q)

\* The process is stopped where it is; its database session stays open.
Stop(r) ==
  /\ life[r] = "up"
  /\ OtherRuns(r)
  /\ life' = [life EXCEPT ![r] = "stopped"]
  /\ UNCHANGED <<row, expired, xlock, shared, pc, seen, round, held, log>>

\* It goes on where it was (once per process, a bound of the model).
Resume(r) ==
  /\ life[r] = "stopped"
  /\ life' = [life EXCEPT ![r] = "resumed"]
  /\ UNCHANGED <<row, expired, xlock, shared, pc, seen, round, held, log>>

\* The process dies and its session's transaction is rolled back.  A restart
\* is a new process with a new owner name.
Crash(r) ==
  /\ life[r] # "dead"
  /\ OtherRuns(r)
  /\ life' = [life EXCEPT ![r] = "dead"]
  /\ pc' = [pc EXCEPT ![r] = "read"]
  /\ held' = [held EXCEPT ![r] = 0]
  /\ shared' = shared \ {r}
  /\ xlock' = IF xlock = r THEN NoOne ELSE xlock
  /\ seen' = [seen EXCEPT ![r] = Absent]
  /\ UNCHANGED <<row, expired, round, log>>

-----------------------------------------------------------------------------
\* One step of a replica's own code.
Step(r) ==
  /\ Runs(r)
  /\ \/ LeaseRead(r)
     \/ LeaseInsert(r)
     \/ LeaseUpdate(r)
     \/ LeaseTimeout(r)
     \/ LeaseCommit(r)
     \/ BeginFenced(r)
     \/ CommitFenced(r)
     \/ AbortFenced(r)
     \/ EndLeg(r)

Next ==
  \/ \E r \in Replicas : Step(r) \/ TxBound(r) \/ Stop(r) \/ Resume(r) \/ Crash(r)
  \/ Expire

Spec == Init /\ [][Next]_vars

\* A running replica keeps ticking (the driver loop calls tick_all forever),
\* the clock advances, and Postgres enforces the bounds it was given.  No
\* fairness on stops, resumes, crashes.
FairSpec ==
  /\ Spec
  /\ \A r \in Replicas : WF_vars(Step(r)) /\ WF_vars(TxBound(r))
  /\ WF_vars(Expire)

-----------------------------------------------------------------------------
(* Properties.                                                             *)

\* The committed lease row is a LeaderTerms: a fenced write (claim, slot,
\* promotion, run transition) is refused or lands before the next takeover,
\* whatever is paused where.  `begin_fenced` and `lease` together.
Terms == INSTANCE LeaderTerms WITH owner <- row.owner, term <- row.term
FencedWritesLandInTheirTerm == Terms!Spec

\* Fenced writes of two terms never interleave, and a term is one replica's:
\* read in commit order, terms never go back and never change hands.
TermsInOrder ==
  \A i, j \in 1..Len(log) :
    i < j => /\ log[i].term <= log[j].term
             /\ log[i].term = log[j].term => log[i].owner = log[j].owner

\* The lease row's owner is not running.
LeaderGone == row.term # 0 /\ ~Runs(row.owner)

\* Some process is stopped inside the UPDATE transaction of `lease`.
StoppedInLease == \E r \in Replicas : pc[r] = "commit" /\ life[r] = "stopped"

\* A leader that stopped or died, a fenced transaction of its open or not, is
\* replaced by a running replica (or resumes) unless some process is stopped
\* inside the UPDATE transaction of `lease`.
GoneLeaderReplaced ==
  (LeaderGone /\ row.term < MaxTerm)
    ~> (~LeaderGone \/ row.term = MaxTerm \/ StoppedInLease)

=============================================================================
