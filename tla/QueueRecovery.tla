--------------------------- MODULE QueueRecovery ---------------------------
(***************************************************************************)
(* A queue topic across checkpoints and crashes.  A checkpoint records the *)
(* WAL positions first and captures the index later (snapshot.rs); it      *)
(* keeps no lease state.  A restart loads the last snapshot and replays    *)
(* the Delete and Lease frames behind its positions (recovery.rs).         *)
(***************************************************************************)
EXTENDS QueueLeases, SequencesExt

CONSTANTS
    MaxSnapshots,   \* bound on the checkpoints taken
    MaxCrashes      \* bound on the crashes

VARIABLES
    snap,           \* the last durable snapshot
    capturing,      \* the positions of the checkpoint being captured, or None
    snapshots,      \* checkpoints started
    crashes         \* crashes so far

None == [gone |-> {}, pos |-> -1]

recovery == <<snap, capturing, snapshots, crashes>>
rvars == <<vars, recovery>>

RInit ==
    /\ Init
    /\ snap = [head |-> 0, live |-> {}, gone |-> {}, pos |-> 0]
    /\ capturing = None
    /\ snapshots = 0 /\ crashes = 0

-----------------------------------------------------------------------------
(* capture: the positions, then the topic.                                 *)

SnapshotPositions ==
    /\ capturing = None /\ snapshots < MaxSnapshots
    /\ capturing' = [gone |-> gone, pos |-> Len(lease_log)]
    /\ snapshots' = snapshots + 1
    /\ UNCHANGED <<vars, snap, crashes>>

SnapshotCapture ==
    /\ capturing # None
    /\ snap' = [head |-> head, live |-> live, gone |-> capturing.gone,
                pos |-> capturing.pos]
    /\ capturing' = None
    /\ UNCHANGED <<vars, snapshots, crashes>>

-----------------------------------------------------------------------------
(* Replay of the Lease frames.                                             *)

NewProjection ==
    [leases |-> [s \in {} |-> 0], deliveries |-> [s \in Jobs |-> 0],
     reclaim |-> {}, claim_cursor |-> 1, next_lease_id |-> 1]

Without(f, s) == Restrict(f, DOMAIN f \ {s})

apply_lease_event(q, e) ==
    LET current == e.seq \in DOMAIN q.leases /\ q.leases[e.seq].id = e.id
        ahead == [q EXCEPT !.next_lease_id = IF e.id >= @ THEN e.id + 1 ELSE @]
    IN
    CASE e.event = "claimed" ->
           [ahead EXCEPT
              !.deliveries[e.seq] = e.deliveries,
              !.leases = (e.seq :> [node |-> e.node, id |-> e.id, ttl |-> 0,
                                    conn |-> NoConn]) @@ @,
              !.claim_cursor = IF e.seq >= @ THEN e.seq + 1 ELSE @]
      [] e.event = "released" /\ current ->
           [ahead EXCEPT !.leases = Without(@, e.seq),
                         !.reclaim = @ \cup {e.seq}]
      [] e.event = "acked" /\ current ->
           [ahead EXCEPT !.leases = Without(@, e.seq),
                         !.deliveries[e.seq] = 0]
      [] OTHER -> ahead

\* Mutant: replay starts one frame late.
ReplayedLate ==
    FoldLeft(apply_lease_event, NewProjection,
             SubSeq(lease_log, snap.pos + 2, Len(lease_log)))
Replayed ==
    FoldLeft(apply_lease_event, NewProjection,
             SubSeq(lease_log, snap.pos + 1, Len(lease_log)))

RecoveredUndeleted(frames) ==
    {s \in 1..head : s <= snap.head => s \in snap.live}
\* The jobs log after a restart: the snapshot, the appends behind it, and the
\* Delete frames behind the recorded position.
RecoveredLive(frames) ==
    {s \in 1..head : (s <= snap.head => s \in snap.live)
                     /\ s \notin frames \ snap.gone}

\* The process dies at any point and restarts.  Deletes that were not waited
\* for may be lost; the deadlines of recovered leases moved by the downtime.
Crash ==
    /\ crashes < MaxCrashes /\ crashes' = crashes + 1
    /\ \E lost \in IF FsyncClass THEN {{}} ELSE SUBSET gone :
         /\ gone' = gone \ lost
         /\ live' = RecoveredLive(gone \ lost)
    /\ LET q == Replayed IN
       /\ \E left \in [DOMAIN q.leases -> -1..LeaseTtl] :
            leases' = [s \in DOMAIN q.leases |->
                         [q.leases[s] EXCEPT !.ttl = left[s]]]
       /\ deliveries' = q.deliveries
       /\ reclaim' = q.reclaim
       /\ claim_cursor' = q.claim_cursor
       /\ next_lease_id' = q.next_lease_id
    /\ delayed' = {} /\ dead_lettered' = 0
    /\ lock' = NoProc /\ PassReset
    /\ pc' = [p \in Procs |-> "idle"]
    /\ diverted' = [p \in Procs |-> {}]
    /\ slots' = [p \in Procs |-> {}]
    /\ acking' = [p \in Procs |-> [s \in {} |-> 0]]
    /\ cur' = [p \in Procs |-> 0]
    /\ events' = [p \in Procs |-> <<>>]
    /\ capturing' = None
    /\ UNCHANGED <<head, copies, history, budget, lease_log, snap, snapshots>>

RNext ==
    \/ Next /\ UNCHANGED recovery
    \/ SnapshotPositions
    \/ SnapshotCapture
    \/ Crash

RSpec == RInit /\ [][RNext]_rvars

\* The fairness of QueueLeases across restarts.
FairRSpec == RSpec /\ Fairness

-----------------------------------------------------------------------------
(* Properties.                                                             *)


\* A 200 ack of an fsync queue is final: the acked job never comes back
\* (delete_one_seq commits the Delete frame before the removal in memory).
AckIsFinal == acked \cap live = {}

\* Durable leases: once every event is logged and none was lost, a restart shows
\* each held job held by the same node under the same lease id, with its
\* delivery count.
ReplayShowsHolders ==
    (faults = 0 /\ \A p \in Procs : events[p] = <<>>) =>
        LET q == Replayed IN
        \A s \in DOMAIN leases \cap live :
            /\ s \in DOMAIN q.leases
            /\ q.leases[s].id = leases[s].id
            /\ q.leases[s].node = leases[s].node
            /\ q.deliveries[s] = deliveries[s]
=============================================================================
