------------------------------- MODULE MCWal -------------------------------
(* Small instances of Wal.                                                 *)
EXTENDS Wal

CONSTANTS p1, p2, ck

\* Every I/O call may fail once; a shutdown and a crash.
Faulty == [sizes |-> {1}, capacity |-> 2,
           faults |-> {"create", "write", "sync", "seal"}, stop |-> TRUE,
           max_frames |-> 4, max_faults |-> 1, max_checkpoints |-> 0,
           max_crashes |-> 1]
\* Two checkpoints race batches of one and two frames; nothing fails.
Checkpointed == [sizes |-> {1, 2}, capacity |-> 8, faults |-> {}, stop |-> FALSE,
                 max_frames |-> 4, max_faults |-> 0, max_checkpoints |-> 2,
                 max_crashes |-> 1]
MCSound == {Faulty, Checkpointed}

\* A checkpoint races the rotation of its file.
Rotating == [Checkpointed EXCEPT !.sizes = {1}, !.capacity = 2, !.max_frames = 4,
               !.max_checkpoints = 1]
MCRotating == {Rotating}
\* A second crash after a checkpoint whose position covered a lost tail.
Unsynced == [Checkpointed EXCEPT !.sizes = {1}, !.max_frames = 3,
               !.max_checkpoints = 1, !.max_crashes = 2]
MCUnsynced == {Unsynced}
=============================================================================
