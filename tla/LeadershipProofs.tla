-------------------------- MODULE LeadershipProofs --------------------------
(***************************************************************************)
(* Proofs about Leadership for any set of replicas and any bounds: type    *)
(* correctness, that fenced writes land in their term (the refinement of   *)
(* LeaderTerms), and that terms never interleave in the commit order.      *)
(***************************************************************************)
EXTENDS Leadership, SequenceTheorems, TLAPS

-----------------------------------------------------------------------------
\* The locks of the lease row: whoever holds it FOR SHARE is inside a fenced
\* transaction whose fence still holds, and an UPDATE excludes them all.
LockInv ==
  /\ row.term = 0 => row.owner = NoOne
  /\ \A r \in shared : pc[r] = "tx" /\ FenceHolds(r)
  /\ \A r \in Replicas : pc[r] = "commit" => xlock = r
  /\ xlock # NoOne => shared = {}

\* Every committed write belongs to the current term or an earlier one, and
\* the current term's writes are its owner's.
LogInv ==
  \A i \in 1..Len(log) :
    /\ log[i].term <= row.term
    /\ log[i].term = row.term => log[i].owner = row.owner

\* The local state of a replica's scheduler loop keeps its type.
LocalsOK ==
  /\ pc \in [Replicas -> PC]
  /\ seen \in [Replicas -> Rows]
  /\ round \in [Replicas -> Nat]
  /\ held \in [Replicas -> Nat]
  /\ \A r \in Replicas : held[r] # 0 => pc[r] \in {"leg", "tx"}

\* The missing row has the type of a row.
LEMMA AbsentIsRow == Absent \in Rows
  BY DEF Absent, Rows, Owner

\* What `lease` returns leaves the replica's locals well typed.
LEMMA GotLeaseLocals ==
  ASSUME NEW r \in Replicas, NEW l \in Rows, LocalsOK, GotLease(r, l)
  PROVE  LocalsOK'
<1>1. l.term \in Nat BY DEF Rows
<1>2. QED BY <1>1, AbsentIsRow DEF GotLease, LocalsOK, PC

\* So does a lost race.
LEMMA LostRaceLocals ==
  ASSUME NEW r \in Replicas, LocalsOK, pc[r] = "update", LostRace(r)
  PROVE  LocalsOK'
  BY AbsentIsRow DEF LostRace, LocalsOK, PC

\* Type correctness of the lease row, the replicas and the log.
THEOREM TypeCorrect == Spec => []TypeOK
<1>1. Init => TypeOK
  <2> SUFFICES ASSUME Init PROVE TypeOK OBVIOUS
  <2>1. row \in Rows /\ seen \in [Replicas -> Rows] BY AbsentIsRow DEF Init
  <2>2. xlock \in Owner BY DEF Init, Owner
  <2>3. expired \in BOOLEAN BY DEF Init
  <2>4. log \in Seq([owner : Replicas, term : Nat]) BY DEF Init
  <2>5. QED BY <2>1, <2>2, <2>3, <2>4 DEF Init, TypeOK, PC, Life
<1>2. TypeOK /\ [Next]_vars => TypeOK'
  <2> SUFFICES ASSUME TypeOK, [Next]_vars PROVE TypeOK'
    OBVIOUS
  <2>a. LocalsOK BY DEF TypeOK, LocalsOK
  <2>1. ASSUME NEW r \in Replicas, LeaseRead(r) PROVE TypeOK'
    <3>1. LocalsOK'
      <4>1. CASE GotLease(r, row)
        BY <4>1, <2>a, GotLeaseLocals DEF TypeOK
      <4>2. CASE ~GotLease(r, row)
        BY <4>2, <2>1, <2>a DEF LeaseRead, TypeOK, LocalsOK, PC
      <4>3. QED BY <4>1, <4>2
    <3>2. QED BY <3>1, <2>1 DEF LeaseRead, TypeOK, LocalsOK
  <2>2. ASSUME NEW r \in Replicas, LeaseInsert(r) PROVE TypeOK'
    <3>1. row' \in Rows
      BY <2>2 DEF LeaseInsert, TypeOK, Rows, Owner
    <3>2. expired' \in BOOLEAN
      BY <2>2 DEF LeaseInsert, TypeOK
    <3>3. LocalsOK'
      BY <2>2, <2>a, <3>1, GotLeaseLocals, LostRaceLocals DEF LeaseInsert
    <3>4. QED BY <3>1, <3>2, <3>3, <2>2 DEF LeaseInsert, TypeOK, LocalsOK
  <2>3. ASSUME NEW r \in Replicas, LeaseUpdate(r) PROVE TypeOK'
    <3>1. LocalsOK'
      BY <2>3, <2>a, LostRaceLocals DEF LeaseUpdate, LocalsOK, PC
    <3>2. QED BY <3>1, <2>3 DEF LeaseUpdate, TypeOK, LocalsOK, Owner
  <2>4. ASSUME NEW r \in Replicas, LeaseTimeout(r) PROVE TypeOK'
    <3>1. LocalsOK'
      BY <2>4, <2>a, GotLeaseLocals DEF LeaseTimeout, LocalsOK
    <3>2. QED BY <3>1, <2>4 DEF LeaseTimeout, TypeOK, LocalsOK
  <2>5. ASSUME NEW r \in Replicas, LeaseCommit(r) PROVE TypeOK'
    <3>1. row' \in Rows
      BY <2>5 DEF LeaseCommit, TypeOK, Rows, Owner
    <3>2. LocalsOK'
      BY <2>5, <2>a, <3>1, GotLeaseLocals DEF LeaseCommit
    <3>3. expired' \in BOOLEAN /\ xlock' \in Owner
      BY <2>5 DEF LeaseCommit, Owner
    <3>4. QED BY <3>1, <3>2, <3>3, <2>5 DEF LeaseCommit, TypeOK, LocalsOK
  <2>6. ASSUME NEW r \in Replicas, BeginFenced(r) PROVE TypeOK'
    <3>1. shared' \in SUBSET Replicas
      BY <2>6 DEF BeginFenced, TypeOK
    <3>2. /\ pc' \in [Replicas -> PC] /\ held' \in [Replicas -> Nat]
          /\ \A q \in Replicas : held'[q] # 0 => pc'[q] \in {"leg", "tx"}
      <4>1. CASE EndsLeg(r)
        BY <4>1 DEF EndsLeg, TypeOK, PC
      <4>2. CASE pc' = [pc EXCEPT ![r] = "tx"] /\ held' = held
        BY <4>2 DEF TypeOK, PC
      <4>3. QED BY <4>1, <4>2, <2>6 DEF BeginFenced
    <3>3. QED BY <3>1, <3>2, <2>6 DEF BeginFenced, TypeOK
  <2>7. ASSUME NEW r \in Replicas, CommitFenced(r) PROVE TypeOK'
    <3>1. [owner |-> r, term |-> held[r]] \in [owner : Replicas, term : Nat]
      BY DEF TypeOK
    <3>2. log' \in Seq([owner : Replicas, term : Nat])
      BY <2>7, <3>1 DEF CommitFenced, TypeOK
    <3>3. QED BY <2>7, <3>2 DEF CommitFenced, TypeOK, PC
  <2>8. ASSUME NEW r \in Replicas, AbortFenced(r) PROVE TypeOK'
    <3>1. /\ pc' \in [Replicas -> PC] /\ held' \in [Replicas -> Nat]
          /\ \A q \in Replicas : held'[q] # 0 => pc'[q] \in {"leg", "tx"}
      <4>1. CASE EndsLeg(r)
        BY <4>1 DEF EndsLeg, TypeOK, PC
      <4>2. CASE pc' = [pc EXCEPT ![r] = "leg"] /\ held' = held
        BY <4>2 DEF TypeOK, PC
      <4>3. QED BY <4>1, <4>2, <2>8 DEF AbortFenced
    <3>2. QED BY <3>1, <2>8 DEF AbortFenced, TypeOK
  <2>9. ASSUME NEW r \in Replicas, EndLeg(r) PROVE TypeOK'
    BY <2>9 DEF EndLeg, EndsLeg, TypeOK, PC
  <2>10. ASSUME NEW r \in Replicas, TxBound(r) \/ Stop(r) \/ Resume(r)
         PROVE TypeOK'
    BY <2>10 DEF TxBound, Stop, Resume, TypeOK, Life
  <2>11. ASSUME NEW r \in Replicas, Crash(r) PROVE TypeOK'
    <3>1. seen' \in [Replicas -> Rows]
      BY <2>11, AbsentIsRow DEF Crash, TypeOK
    <3>2. xlock' \in Owner
      BY <2>11 DEF Crash, TypeOK, Owner
    <3>3. QED BY <3>1, <3>2, <2>11 DEF Crash, TypeOK, Life, PC
  <2>12. CASE Expire
    <3>1. expired' \in BOOLEAN BY <2>12 DEF Expire
    <3>2. QED BY <3>1, <2>12 DEF Expire, TypeOK
  <2>13. CASE UNCHANGED vars
    BY <2>13 DEF vars, TypeOK
  <2>14. QED
    BY <2>1, <2>2, <2>3, <2>4, <2>5, <2>6, <2>7, <2>8, <2>9, <2>10, <2>11, <2>12,
       <2>13 DEF Next, Step
<1>3. QED BY <1>1, <1>2, PTL DEF Spec

-----------------------------------------------------------------------------
\* The lock discipline of the lease row is inductive: a takeover waits for
\* the fenced transactions that hold the row.
THEOREM LockDiscipline == Spec => []LockInv
<1> USE LeadershipAssumption DEF FenceHolds
<1>1. Init => LockInv
  BY DEF Init, LockInv, Absent
<1>2. TypeOK /\ LockInv /\ [Next]_vars => LockInv'
  <2> SUFFICES ASSUME TypeOK, LockInv, [Next]_vars PROVE LockInv'
    OBVIOUS
  <2> USE DEF TypeOK, LockInv, Rows, Owner
  <2>1. ASSUME NEW r \in Replicas, LeaseRead(r) PROVE LockInv'
    BY <2>1 DEF LeaseRead, GotLease
  <2>2. ASSUME NEW r \in Replicas, LeaseInsert(r) PROVE LockInv'
    BY <2>2 DEF LeaseInsert, GotLease, LostRace
  <2>3. ASSUME NEW r \in Replicas, LeaseUpdate(r) PROVE LockInv'
    BY <2>3 DEF LeaseUpdate, LostRace, RowFree
  <2>4. ASSUME NEW r \in Replicas, LeaseTimeout(r) PROVE LockInv'
    BY <2>4 DEF LeaseTimeout, GotLease
  <2>5. ASSUME NEW r \in Replicas, LeaseCommit(r) PROVE LockInv'
    BY <2>5 DEF LeaseCommit, GotLease
  <2>6. ASSUME NEW r \in Replicas, BeginFenced(r) PROVE LockInv'
    BY <2>6 DEF BeginFenced, EndsLeg
  <2>7. ASSUME NEW r \in Replicas, CommitFenced(r) PROVE LockInv'
    BY <2>7 DEF CommitFenced
  <2>8. ASSUME NEW r \in Replicas, AbortFenced(r) PROVE LockInv'
    BY <2>8 DEF AbortFenced, EndsLeg
  <2>9. ASSUME NEW r \in Replicas, EndLeg(r) PROVE LockInv'
    BY <2>9 DEF EndLeg, EndsLeg
  <2>10. ASSUME NEW r \in Replicas, TxBound(r) \/ Stop(r) \/ Resume(r)
         PROVE LockInv'
    BY <2>10 DEF TxBound, Stop, Resume
  <2>11. ASSUME NEW r \in Replicas, Crash(r) PROVE LockInv'
    BY <2>11 DEF Crash
  <2>12. CASE Expire
    BY <2>12 DEF Expire
  <2>13. CASE UNCHANGED vars
    BY <2>13 DEF vars
  <2>14. QED
    BY <2>1, <2>2, <2>3, <2>4, <2>5, <2>6, <2>7, <2>8, <2>9, <2>10, <2>11, <2>12,
       <2>13 DEF Next, Step
<1>3. QED BY <1>1, <1>2, TypeCorrect, PTL DEF Spec

-----------------------------------------------------------------------------
\* What a step does to the row and the log, the only state LeaderTerms sees:
\* it is a fenced write of the current term, a new term, or neither.
LEMMA StepShape ==
  ASSUME TypeOK, LockInv, [Next]_vars
  PROVE  \/ row' = row /\ log' = log
         \/ /\ row' = row
            /\ row.owner \in Replicas
            /\ log' = Append(log, [owner |-> row.owner, term |-> row.term])
         \/ \E r \in Replicas : /\ r # row.owner
                                /\ row' = [owner |-> r, term |-> row.term + 1]
                                /\ log' = log
<1> USE LeadershipAssumption DEF TypeOK, LockInv, Rows, Owner, FenceHolds
<1>1. ASSUME NEW r \in Replicas, LeaseInsert(r)
      PROVE  \/ row' = row /\ log' = log
             \/ r # row.owner /\ row' = [owner |-> r, term |-> row.term + 1] /\ log' = log
  BY <1>1 DEF LeaseInsert
<1>2. ASSUME NEW r \in Replicas, LeaseCommit(r)
      PROVE  \/ row' = row /\ log' = log
             \/ r # row.owner /\ row' = [owner |-> r, term |-> row.term + 1] /\ log' = log
  BY <1>2 DEF LeaseCommit
<1>3. ASSUME NEW r \in Replicas, CommitFenced(r)
      PROVE  /\ row' = row
             /\ row.owner \in Replicas
             /\ log' = Append(log, [owner |-> row.owner, term |-> row.term])
  BY <1>3 DEF CommitFenced
<1>4. ASSUME NEW r \in Replicas,
             \/ LeaseRead(r) \/ LeaseUpdate(r) \/ LeaseTimeout(r) \/ BeginFenced(r)
             \/ AbortFenced(r) \/ EndLeg(r)
             \/ TxBound(r) \/ Stop(r) \/ Resume(r) \/ Crash(r)
      PROVE  row' = row /\ log' = log
  BY <1>4 DEF LeaseRead, LeaseUpdate, LeaseTimeout, BeginFenced, AbortFenced, EndLeg,
              TxBound, Stop, Resume, Crash
<1>5. CASE Expire
  BY <1>5 DEF Expire
<1>6. CASE UNCHANGED vars
  BY <1>6 DEF vars
<1>7. QED BY <1>1, <1>2, <1>3, <1>4, <1>5, <1>6 DEF Next, Step

\* Leadership implements LeaderTerms: `begin_fenced` and `lease` together
\* give every fenced write the guarantee documented for LeaderTerm.
THEOREM Fencing == Spec => FencedWritesLandInTheirTerm
<1> USE LeadershipAssumption
<1>1. Init => Terms!Init
  BY DEF Init, Absent, Terms!Init
<1>2. TypeOK /\ LockInv /\ [Next]_vars => [Terms!Next]_Terms!vars
  <2> SUFFICES ASSUME TypeOK, LockInv, [Next]_vars PROVE [Terms!Next]_Terms!vars
    OBVIOUS
  <2>1. CASE row' = row /\ log' = log
    BY <2>1 DEF Terms!vars
  <2>2. CASE /\ row' = row
             /\ row.owner \in Replicas
             /\ log' = Append(log, [owner |-> row.owner, term |-> row.term])
    BY <2>2 DEF Terms!Next, Terms!Write
  <2>3. CASE \E r \in Replicas : /\ r # row.owner
                                 /\ row' = [owner |-> r, term |-> row.term + 1]
                                 /\ log' = log
    BY <2>3 DEF Terms!Next, Terms!NewTerm
  <2>4. QED BY <2>1, <2>2, <2>3, StepShape
<1>3. QED
  BY <1>1, <1>2, TypeCorrect, LockDiscipline, PTL
     DEF Spec, FencedWritesLandInTheirTerm, Terms!Spec

\* In commit order the fenced writes' terms never go back and a term is one
\* replica's: a deposed leader's claim or promotion never lands late.
THEOREM TermOrder == Spec => []TermsInOrder
<1> DEFINE Inv == LogInv /\ TermsInOrder
<1>1. Init => Inv
  BY DEF Init, LogInv, TermsInOrder
<1>2. TypeOK /\ LockInv /\ Inv /\ [Next]_vars => Inv'
  <2> SUFFICES ASSUME TypeOK, LockInv, Inv, [Next]_vars PROVE Inv'
    OBVIOUS
  <2> USE DEF LogInv, TermsInOrder
  <2>a. /\ \A i \in 1..Len(log) : log[i].term \in Nat
        /\ row.term \in Nat
        /\ Len(log) \in Nat
        /\ log \in Seq([owner : Replicas, term : Nat])
    <3>1. log \in Seq([owner : Replicas, term : Nat]) /\ row.term \in Nat
      BY DEF TypeOK, Rows
    <3>2. Len(log) \in Nat
      BY <3>1
    <3>3. \A i \in 1..Len(log) : log[i] \in [owner : Replicas, term : Nat]
      BY <3>1, ElementOfSeq
    <3>4. QED BY <3>1, <3>2, <3>3
  <2>1. CASE row' = row /\ log' = log
    BY <2>1
  <2>2. CASE /\ row' = row
             /\ row.owner \in Replicas
             /\ log' = Append(log, [owner |-> row.owner, term |-> row.term])
    <3> DEFINE e == [owner |-> row.owner, term |-> row.term]
    <3>1. /\ Len(log') = Len(log) + 1
          /\ \A i \in 1..Len(log) : log'[i] = log[i]
          /\ log'[Len(log) + 1] = e
          /\ Len(log) \in Nat
      BY <2>2, <2>a
    <3>2. LogInv'
      BY <3>1, <2>2, <2>a
    <3>3. TermsInOrder'
      <4> SUFFICES ASSUME NEW i \in 1..Len(log'), NEW j \in 1..Len(log'), i < j
                   PROVE  /\ log'[i].term <= log'[j].term
                          /\ log'[i].term = log'[j].term => log'[i].owner = log'[j].owner
        OBVIOUS
      <4>1. CASE j = Len(log) + 1
        <5>1. i \in 1..Len(log) /\ log'[i] = log[i] /\ log'[j] = e
          BY <4>1, <3>1, <2>a
        <5>2. e.term = row.term /\ e.owner = row.owner
          OBVIOUS
        <5>3. QED BY <5>1, <5>2
      <4>2. CASE j # Len(log) + 1
        <5>1. i \in 1..Len(log) /\ j \in 1..Len(log)
          BY <4>2, <3>1
        <5>2. log'[i] = log[i] /\ log'[j] = log[j]
          BY <5>1, <3>1
        <5>3. QED BY <5>1, <5>2
      <4>3. QED BY <4>1, <4>2
    <3>4. QED BY <3>2, <3>3
  <2>3. CASE \E r \in Replicas : /\ r # row.owner
                                 /\ row' = [owner |-> r, term |-> row.term + 1]
                                 /\ log' = log
    <3>1. row'.term = row.term + 1 /\ log' = log
      BY <2>3
    <3>2. LogInv'
      BY <3>1, <2>a
    <3>3. TermsInOrder'
      BY <3>1
    <3>4. QED BY <3>2, <3>3
  <2>4. QED BY <2>1, <2>2, <2>3, StepShape
<1>3. QED BY <1>1, <1>2, TypeCorrect, LockDiscipline, PTL DEF Spec
=============================================================================
