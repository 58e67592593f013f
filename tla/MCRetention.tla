---------------------------- MODULE MCRetention ----------------------------
(* Small instances of Retention.                                           *)
EXTENDS Retention

CONSTANTS p1, p2, k1

Swaps == Permutations(Procs)

Cfg(ttl, recs, bytes) ==
    [ttl |-> ttl, cap_records |-> recs, cap_bytes |-> bytes]
Unbounded == Cfg(0, 0, 0)
\* Nothing but writes; each instance adds what it is about.
Base == [config |-> Unbounded, relaxed |-> Unbounded, reject |-> FALSE,
         sizes |-> {1}, keyed |-> FALSE, window |-> 1, quota |-> 0,
         writes |-> 3, deletes |-> 0, updates |-> 0, snapshots |-> 0,
         diffs |-> 0, clock |-> 0, back |-> FALSE, failures |-> 0,
         crashes |-> 0]

\* TTL and both caps under a reader, with a delete or an update in between.
ReadTtl == [Base EXCEPT !.config = Cfg(1, 0, 0), !.clock = 2, !.writes = 2,
                        !.diffs = 1]
ReadCaps == [Base EXCEPT !.config = Cfg(0, 1, 0), !.diffs = 1, !.deletes = 1,
                         !.writes = 2]
ReadUpdate == [Base EXCEPT !.relaxed = Cfg(0, 0, 1), !.updates = 1, !.diffs = 1,
                           !.writes = 2]
\* A clock that steps back, a relaxed cap, a failed watermark and a crash; and
\* a checkpoint and a crash.
Rewind == [Base EXCEPT !.config = Cfg(1, 0, 0), !.clock = 3, !.back = TRUE,
                       !.writes = 2, !.crashes = 1]
Relax == [Base EXCEPT !.config = Cfg(0, 0, 1), !.updates = 1, !.crashes = 1,
                      !.failures = 1]
Restart == [Base EXCEPT !.config = Cfg(0, 1, 0), !.snapshots = 1, !.crashes = 1,
                        !.writes = 2, !.diffs = 1, !.quota = 3]
\* The quota, with records that a full topic refuses.
Quota == [Base EXCEPT !.config = Cfg(0, 0, 2), !.sizes = {1, 2}, !.quota = 3,
                      !.deletes = 1, !.failures = 1]
Reject == [Base EXCEPT !.config = Cfg(1, 1, 0), !.reject = TRUE, !.quota = 2,
                       !.clock = 2, !.deletes = 1]
\* Retries with a key, with a failed watermark between append and record.
Retry == [Base EXCEPT !.config = Cfg(0, 0, 1), !.keyed = TRUE, !.clock = 2,
                      !.failures = 1]

MCSound == {ReadTtl, ReadCaps, ReadUpdate, Rewind, Relax, Restart,
            Quota, Reject, Retry}
\* A reader and a writer of a topic with a TTL.
MCReader == {ReadTtl}
\* A checkpoint while the byte cap is lifted.
MCCheckpoint == {[Relax EXCEPT !.writes = 2, !.snapshots = 1, !.failures = 0]}
\* A record cap that is lifted before a crash.
MCLifted == {[Base EXCEPT !.config = Cfg(0, 1, 0), !.updates = 1,
                          !.crashes = 1, !.writes = 2]}
=============================================================================
