-------------------------- MODULE MCTopicRecovery --------------------------
(* Small instances of TopicRecovery.                                       *)
EXTENDS TopicRecovery, TLC

CONSTANTS p1, p2, ck, t1, t2

S(class, match, kinds, f, w, d, s, c) ==
    [class |-> class, match |-> match, faults |-> kinds, max_faults |-> f,
     max_writes |-> w, max_deletes |-> d, max_snapshots |-> s,
     max_crashes |-> c]

\* What the code is right about: checkpoints and restarts of an fsync topic,
\* losses of a disk topic, failed commits and panics without a restart, and
\* full channels without a delete.
MCSound == {S("fsync", FALSE, {}, 0, 3, 1, 1, 1),
            S("disk", FALSE, {}, 0, 3, 1, 0, 1),
            S("disk", FALSE, {"commit", "panic"}, 1, 2, 1, 0, 0),
            S("fsync", FALSE, {"commit", "panic"}, 2, 2, 1, 1, 0),
            S("fsync", FALSE, {"full"}, 1, 3, 0, 1, 1)}
\* Deletes by tag, a checkpoint and a restart.
MCDeletedTail == {S("fsync", TRUE, {}, 0, 3, 1, 1, 1)}
\* A failed commit and a restart.
MCFailedCommit == {S("fsync", FALSE, {"commit"}, 1, 2, 0, 0, 1)}
\* Full channels while a delete reclaims the front.
MCFullChannel == {S("fsync", FALSE, {"full"}, 1, 3, 1, 0, 0)}
\* A disk topic: a checkpoint and a restart, and two restarts.
MCDiskCheckpoint == {S("disk", FALSE, {}, 0, 3, 0, 1, 1)}
MCDiskRestarts == {S("disk", FALSE, {}, 0, 3, 0, 0, 2)}
=============================================================================
