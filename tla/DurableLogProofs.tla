-------------------------- MODULE DurableLogProofs --------------------------
(* What the promise of the write-ahead log comes to, in every behaviour    *)
(* that keeps it; those of module Wal are among them.                      *)
EXTENDS DurableLog, TLAPS

\* A log that commits, refuses and restarts as the WAL writer and its recovery
\* do (commit_batch, submit_batch, recover_and_open) always holds every frame it
\* has acked, across any number of restarts, and none it has refused.
THEOREM AckedIsKept == Spec => []Kept
  <1>1. Init => Kept
    BY DEF Init, Kept
  <1>2. Kept /\ [Next]_vars => Kept'
    <2> SUFFICES ASSUME Kept, [Next]_vars PROVE Kept'
      OBVIOUS
    <2>1. CASE Send
      BY <2>1 DEF Send, Kept
    <2>2. CASE Commit
      BY <2>2 DEF Commit, Kept
    <2>3. CASE Refuse
      BY <2>3 DEF Refuse, Kept
    <2>4. CASE Restart
      BY <2>4 DEF Restart, Kept
    <2>5. CASE UNCHANGED vars
      BY <2>5 DEF vars, Kept
    <2> QED
      BY <2>1, <2>2, <2>3, <2>4, <2>5 DEF Next
  <1> QED
    BY <1>1, <1>2, PTL DEF Spec
=============================================================================
