------------------------------ MODULE MCShards ------------------------------
(* Small instances of Shards.                                              *)
EXTENDS Shards, TLC

\* With 2 shards topic 1 is in wal/shard-01 and topic 2 in wal/shard-00, with
\* 3 it is the other way round.
MCHash == (1 :> 3) @@ (2 :> 4)

None == [b \in Bounds |-> 0]
Fixed == [layouts |-> <<1, 1>>, warm |-> TRUE, bound |-> None]
Busy == [None EXCEPT !.creates = 1, !.writes = 2, !.updates = 1]

\* The count stays; two topics, a checkpoint and a failure.
Steady == [Fixed EXCEPT !.layouts = <<2, 2>>,
             !.bound = [None EXCEPT !.creates = 2, !.writes = 2, !.snapshots = 1,
                                    !.failures = 1]]
\* Two checkpoints, rotation and a torn frame.
Rotated == [Fixed EXCEPT !.layouts = <<1, 1, 1>>,
              !.bound = [None EXCEPT !.creates = 1, !.writes = 2, !.snapshots = 2,
                                     !.torn = 1]]
\* The count grows, with and without a checkpoint.
Grown == [Fixed EXCEPT !.layouts = <<1, 2, 3>>,
            !.bound = [Busy EXCEPT !.writes = 3, !.deletes = 1]]
GrownTaken == [Fixed EXCEPT !.layouts = <<1, 2, 2>>,
                 !.bound = [Busy EXCEPT !.writes = 1, !.snapshots = 1, !.routers = 1]]
\* The count shrinks.
Shrunk == [Fixed EXCEPT !.layouts = <<3, 2, 2>>,
             !.bound = [Busy EXCEPT !.writes = 3, !.routers = 2, !.torn = 1]]
ShrunkTaken == [Fixed EXCEPT !.layouts = <<2, 1, 1>>,
                  !.bound = [Busy EXCEPT !.writes = 1, !.snapshots = 2]]
MCSound == {Steady, Rotated, Grown, GrownTaken, Shrunk, ShrunkTaken}

\* The count changes and changes back.
Returned == [Fixed EXCEPT !.layouts = <<2, 1, 2, 2>>,
               !.bound = [None EXCEPT !.creates = 1, !.writes = 2, !.snapshots = 1]]
MCReturned == {Returned}
\* The count changes before a topic is written to.
Cold == [Fixed EXCEPT !.layouts = <<2, 1, 1>>, !.warm = FALSE,
           !.bound = [None EXCEPT !.creates = 1, !.writes = 1]]
MCCold == {Cold}
=============================================================================
