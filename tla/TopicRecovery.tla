--------------------------- MODULE TopicRecovery ---------------------------
(***************************************************************************)
(* A topic across checkpoints and crashes.  A checkpoint hardens the WAL,  *)
(* reads its position, then captures the topic under the append lock once  *)
(* the ticketed requests are done (engine/snapshot.rs).  A restart loads   *)
(* the snapshot, replays the frames behind the position and applies the    *)
(* head reservation (engine/recovery.rs).                                  *)
(***************************************************************************)
EXTENDS TopicLog

VARIABLES
    position,       \* the WAL position the checkpoint read
    snap,           \* the last durable snapshot
    snapshots, crashes

recovery == <<position, snap, snapshots, crashes>>
rvars == <<vars, recovery>>
topic == <<index, head_seq, reserved_head>>

RInit ==
    /\ Init
    /\ position = 0 /\ snapshots = 0 /\ crashes = 0
    /\ snap = [pos |-> 0, base |-> 1, head |-> 0, live |-> <<>>]

-----------------------------------------------------------------------------
(* capture.                                                                *)

\* The CheckpointMark is durable.
SnapBarrier ==
    /\ pc[Ckpt] = "idle"
    /\ snapshots < setup.max_snapshots /\ snapshots' = snapshots + 1
    /\ synced' = Len(log)
    /\ pc' = [pc EXCEPT ![Ckpt] = "barrier"]
    /\ UNCHANGED <<topic, gate, op, verdict, chan, log, history, bounds,
                   position, snap, crashes>>

SnapPosition ==
    /\ pc[Ckpt] = "barrier"
    /\ position' = Len(log)
    /\ pc' = [pc EXCEPT ![Ckpt] = "position"]
    /\ UNCHANGED <<topic, gate, op, verdict, wal, history, bounds, snap,
                   snapshots, crashes>>

SnapLock ==
    /\ pc[Ckpt] = "position" /\ append_lock = NoProc
    /\ append_lock' = Ckpt
    /\ pc' = [pc EXCEPT ![Ckpt] = "quiesce"]
    /\ UNCHANGED <<topic, publish_ticket, publish_next, op, verdict, wal,
                   history, bounds, recovery>>

\* Mutant: the capture does not wait for the ticketed requests.
Unquiesced == TRUE
\* quiesce_publishes.
Quiesced == publish_next = publish_ticket
\* capture_topic: the live records up to the head.
Captured ==
    SelectSeq([i \in DOMAIN records |->
                 [seq |-> base_seq + i - 1, slot |-> records[i]]],
              LAMBDA r : ~r.slot.deleted /\ r.seq <= head_seq)
SnapCapture ==
    /\ pc[Ckpt] = "quiesce" /\ Quiesced
    /\ snap' = [pos |-> position, base |-> base_seq, head |-> head_seq,
                live |-> Captured]
    /\ append_lock' = NoProc
    /\ pc' = [pc EXCEPT ![Ckpt] = "idle"]
    /\ UNCHANGED <<topic, publish_ticket, publish_next, op, verdict, wal,
                   history, bounds, position, snapshots, crashes>>

-----------------------------------------------------------------------------
(* Recovery.                                                               *)

\* restore_topic: holes fill the gaps between live records.
Restored ==
    LET last == IF snap.live = <<>> THEN snap.base - 1
                ELSE snap.live[Len(snap.live)].seq
    IN
    [base |-> snap.base, head |-> snap.head, reserved |-> snap.head,
     recs |-> [i \in 1..last - snap.base + 1 |->
                 IF \E k \in DOMAIN snap.live : snap.live[k].seq = snap.base + i - 1
                 THEN snap.live[CHOOSE k \in DOMAIN snap.live :
                                  snap.live[k].seq = snap.base + i - 1].slot
                 ELSE Hole]]

\* Mutant: a replayed delete takes the head of the recovered topic as its
\* bound.
ReplayedBoundNow(t, f) == t.head + 1
ReplayedBound(t, f) == f.bound

\* replay_frame: an Append that does not continue the head is ignored.
replay_frame(t, f) ==
    CASE f.kind = "append" /\ f.seq = t.head + 1 ->
           [t EXCEPT !.recs = Append(@, Slot(f.write, f.tag)),
                     !.head = t.base + Len(t.recs)]
      [] f.kind = "delete" ->
           LET d == [bound |-> ReplayedBound(t, f), before |-> f.before,
                     tag |-> f.tag]
               marked == Marked(t.recs, t.base, Victims(t.recs, t.base, d))
               front == DeadFront(marked)
           IN [t EXCEPT !.recs = SubSeq(marked, front + 1, Len(marked)),
                        !.base = @ + front]
      [] f.kind = "head" -> [t EXCEPT !.reserved = Max({@, f.seq})]
      [] OTHER -> t

\* Mutant: the reservation does not move the head.
HeadKept(t) == t
\* apply_head_watermarks: pad the reserved seqs that were lost.
HeadRestored(t) ==
    IF t.reserved <= t.head THEN t
    ELSE [t EXCEPT !.head = t.reserved,
                   !.recs = @ \o [i \in 1..t.reserved - (t.base + Len(@)) + 1
                                    |-> Hole]]

\* The process dies; of the frames no fsync hardened a prefix survives.
Crash ==
    /\ crashes < setup.max_crashes /\ crashes' = crashes + 1
    /\ \E n \in synced..Len(log) :
         LET tail == SubSeq(log, snap.pos + 1, n)
             t == HeadRestored(FoldLeft(replay_frame, Restored, tail))
         IN
         /\ log' = SubSeq(log, 1, n) /\ synced' = n
         /\ base_seq' = t.base /\ records' = t.recs
         /\ head_seq' = t.head /\ reserved_head' = t.reserved
    /\ append_lock' = NoProc /\ publish_ticket' = 0 /\ publish_next' = 0
    /\ pc' = [p \in Threads |-> "idle"]
    /\ op' = [p \in Procs |-> NoOp]
    /\ verdict' = [p \in Procs |-> "none"]
    /\ chan' = <<>>
    /\ UNCHANGED <<history, bounds, position, snap, snapshots>>

Snapshot == SnapBarrier \/ SnapPosition \/ SnapLock \/ SnapCapture
RNext ==
    \/ Next /\ UNCHANGED recovery
    \/ Snapshot
    \/ Crash

RSpec == RInit /\ [][RNext]_rvars

-----------------------------------------------------------------------------
(* Properties.                                                             *)

\* An acknowledged record whose frame is hardened (every one, in the fsync
\* class) is visible at its seq until a delete selects it: no failed write, no
\* rollback, no checkpoint and no restart loses it.
AckedSurvive == acked \cap Logged(synced) \subseteq Visible \cup selected

\* A seq that was acknowledged is never handed to another record: the seq is
\* monotonic across restarts in both classes (disk may lose the record).
SeqsNeverReused ==
    \A a, b \in acked : a.seq = b.seq => a.write = b.write

\* An acknowledged delete of the fsync class is final: no checkpoint, replay
\* or restart brings a removed record back.
DeletesHold == Fsynced => Visible \cap erased = {}

\* Fairness: the process keeps running.  A request, the writer or the
\* checkpoint takes a step while one of them can.
Running == (WalCommit \/ \E p \in Procs : Finish(p)) /\ UNCHANGED recovery
Fairness == WF_rvars(Running \/ SnapPosition \/ SnapLock \/ SnapCapture)
FairSpec == RSpec /\ Fairness

\* Every request returns and every checkpoint ends: a failed or unwound write
\* releases its ticket, and the capture that holds the append lock is not
\* waited for by the requests it waits for.  (The requests are bounded, so
\* each of them returns exactly when all of them do.)
Quiet == \A p \in Threads : pc[p] = "idle"
RequestsReturn == ~Quiet ~> Quiet
=============================================================================
