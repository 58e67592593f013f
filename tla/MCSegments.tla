----------------------------- MODULE MCSegments -----------------------------
(* Small instances of Segments.                                            *)
EXTENDS Segments, TLC

CONSTANTS w1, w2

None == [b \in Bounds |-> 0]
Fixed == [class |-> "fsync", writers |-> {w1}, max_events |-> 2, max_age |-> 0,
          hot_retain |-> 0, kill |-> FALSE, bound |-> None]

\* Two writers whose ranges reach the seam out of order; nothing is sealed.
Seam == [Fixed EXCEPT !.writers = {w1, w2}, !.max_events = 9,
           !.bound = [None EXCEPT !.writes = 3]]
\* A delete and a relocation race, then the machine stops.
Tiered == [Fixed EXCEPT !.bound = [None EXCEPT !.writes = 3, !.deletes = 1,
             !.relocations = 1, !.crashes = 1]]
\* Reads during a relocation and a delete.
Reads == [Fixed EXCEPT !.bound = [None EXCEPT !.writes = 2, !.deletes = 1,
            !.relocations = 1, !.reads = 1]]
\* A checkpoint, and two restarts.
Restarts == [Fixed EXCEPT !.bound = [None EXCEPT !.writes = 2, !.deletes = 1,
               !.snapshots = 1, !.crashes = 2]]
\* Failed puts in either store.
Failing == [Fixed EXCEPT !.max_events = 1, !.hot_retain = 1,
              !.bound = [None EXCEPT !.writes = 3, !.failures = 2, !.relocations = 2,
                                     !.snapshots = 1]]
\* A topic of the disk class loses its tail.
Lossy == [Fixed EXCEPT !.class = "disk",
            !.bound = [None EXCEPT !.writes = 3, !.deletes = 1, !.crashes = 1]]
\* A topic of the memory class loses its tail and hands its seqs out again.
Volatile == [Lossy EXCEPT !.class = "memory",
               !.bound = [None EXCEPT !.writes = 4, !.deletes = 1, !.crashes = 1]]
\* Segments that seal by age.
Aged == [Fixed EXCEPT !.max_events = 3, !.max_age = 1,
           !.bound = [None EXCEPT !.writes = 3, !.ticks = 1, !.crashes = 1, !.deletes = 1]]
\* Failed commits.
Rolled == [Fixed EXCEPT !.bound = [None EXCEPT !.writes = 3, !.rollbacks = 1,
             !.deletes = 1]]
\* The process is killed.
Killed == [Fixed EXCEPT !.kill = TRUE,
             !.bound = [None EXCEPT !.writes = 2, !.deletes = 1, !.relocations = 1,
                                    !.crashes = 1]]
\* The process is killed while a dead segment is dropped.
Swept == [Killed EXCEPT !.bound = [None EXCEPT !.writes = 2, !.deletes = 1,
            !.snapshots = 1, !.crashes = 1]]
MCSeam == {Seam}
MCSound == {Seam, Tiered, Reads, Restarts, Failing, Lossy,
            Volatile, Aged, Rolled, Killed, Swept}
=============================================================================
