---------------------------- MODULE LeaderTerms -----------------------------
(***************************************************************************)
(* What a LeaderTerm promises (the documentation of LeaderTerm in          *)
(* scarab-engine/src/ports.rs): at any moment at most one replica leads,   *)
(* each takeover starts the next term, and a fenced write lands only under *)
(* the term that holds the lease when it lands.                            *)
(***************************************************************************)
EXTENDS Naturals, Sequences

CONSTANTS Replicas, NoOne

VARIABLES
  owner,  \* the replica whose term it is, NoOne before the first
  term,   \* the current term
  log     \* the fenced writes, in commit order: [owner, term]

vars == <<owner, term, log>>

Init == owner = NoOne /\ term = 0 /\ log = << >>

\* A different replica takes the lease: the next term.
NewTerm(r) ==
  /\ r # owner
  /\ owner' = r
  /\ term' = term + 1
  /\ UNCHANGED log

\* The leader of the current term writes.
Write ==
  /\ owner # NoOne
  /\ log' = Append(log, [owner |-> owner, term |-> term])
  /\ UNCHANGED <<owner, term>>

Next == Write \/ \E r \in Replicas : NewTerm(r)

Spec == Init /\ [][Next]_vars
=============================================================================
