-------------------------- MODULE MCQueueRecovery --------------------------
(* Small instances of QueueLeases and QueueRecovery.                       *)
EXTENDS QueueRecovery, TLC

CONSTANTS n1, n2, c1, p1, p2

Poll(n, m) == [node |-> n, conn |-> NoConn, max |-> m]
Work(n, m) == [node |-> n, conn |-> c1, max |-> m]

\* A poll for two jobs coalesced with a /work connection's claim for one, and
\* that claim alone.
MCTwoClaims == {<<Poll(n1, 2), Work(n2, 1)>>, <<Work(n2, 1)>>}
\* Polls alone.
MCPolls == {<<Poll(n1, 1)>>}
MCPollsOfTwo == {<<Poll(n1, 2)>>, <<Poll(n2, 1)>>}

MCThreadSymmetry == Permutations(Procs)
=============================================================================
