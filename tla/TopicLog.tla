----------------------------- MODULE TopicLog ------------------------------
(***************************************************************************)
(* The append pipeline of one topic (engine/topic_state.rs, and write and  *)
(* delete of engine/mod.rs).  A write stages its records at the tail of    *)
(* the index and enqueues their frames under the append lock, takes a      *)
(* publish ticket, waits for the WAL off the lock, and publishes or rolls  *)
(* back in ticket order.  A delete goes through the same gate.             *)
(*                                                                         *)
(* The topic has no TTL and no cap, so retention does nothing.  The WAL is *)
(* the ordered log that module Wal implements: submissions commit in the   *)
(* order of the channel, a durable one hardens the whole log, and a failed *)
(* one leaves nothing.                                                     *)
(***************************************************************************)
EXTENDS Integers, Sequences, FiniteSets, SequencesExt

CONSTANTS
    Procs,          \* request threads
    Ckpt,           \* the thread that takes checkpoints
    NoProc,         \* the owner of a free append lock
    Tags,           \* record tags
    AnyTag,         \* the selector of a delete without a match
    BatchSizes,     \* records per write
    ReserveAhead,   \* DISK_HEAD_RESERVE_AHEAD
    Setups          \* the topic's class and what may go wrong in a behaviour

ASSUME BoundsAreNat ==
    /\ ReserveAhead \in Nat
    /\ BatchSizes \subseteq Nat \ {0}
ASSUME NamesDiffer ==
    Ckpt \notin Procs /\ NoProc \notin Procs \cup {Ckpt} /\ AnyTag \notin Tags
\* class: the durability class; match: whether deletes select by tag; faults:
\* the calls that may fail; the rest bounds the failures, the writes, the
\* deletes, the checkpoints and the crashes.
Setup == [class : {"fsync", "disk"}, match : BOOLEAN,
          faults : SUBSET {"full", "commit", "panic"}, max_faults : Nat,
          max_writes : Nat, max_deletes : Nat, max_snapshots : Nat,
          max_crashes : Nat]
ASSUME SetupsAreSetups == Setups \subseteq Setup

VARIABLES
    setup,          \* the setup of this behaviour
    base_seq,       \* seq of the first slot of the index
    records,        \* the index deque: [write, tag, deleted]
    head_seq,       \* highest published seq
    reserved_head,  \* highest seq reserved by a durable HeadWatermark
    append_lock,    \* its owner
    publish_ticket, \* next ticket
    publish_next,   \* the ticket whose turn it is
    pc,             \* where each thread is
    op,             \* what each thread is appending or deleting
    verdict,        \* what its commit token said
    chan,           \* submissions the WAL has not committed
    log,            \* frames of the WAL
    synced,         \* how many of them are hardened
    acked,          \* records of acknowledged writes: [seq, write]
    selected,       \* records a delete was asked to remove
    erased,         \* records an acknowledged delete removed
    writes, deletes, faults

index == <<base_seq, records>>
gate == <<append_lock, publish_ticket, publish_next>>
wal == <<chan, log, synced>>
history == <<acked, selected, erased>>
bounds == <<setup, writes, deletes, faults>>
vars == <<index, head_seq, reserved_head, gate, pc, op, verdict, wal, history,
          bounds>>

Threads == Procs \cup {Ckpt}
NoOp == [start |-> 0, count |-> 0, pre_len |-> 0, ticket |-> 0, write |-> 0,
         tag |-> AnyTag, before |-> 0, bound |-> 0]

Init ==
    /\ setup \in Setups
    /\ base_seq = 1 /\ records = <<>> /\ head_seq = 0 /\ reserved_head = 0
    /\ append_lock = NoProc /\ publish_ticket = 0 /\ publish_next = 0
    /\ pc = [p \in Threads |-> "idle"]
    /\ op = [p \in Procs |-> NoOp]
    /\ verdict = [p \in Procs |-> "none"]
    /\ chan = <<>> /\ log = <<>> /\ synced = 0
    /\ acked = {} /\ selected = {} /\ erased = {}
    /\ writes = 0 /\ deletes = 0 /\ faults = 0

Fault(kind) ==
    /\ kind \in setup.faults /\ faults < setup.max_faults
    /\ faults' = faults + 1

-----------------------------------------------------------------------------
(* The index.                                                              *)

Slot(write, tag) == [write |-> write, tag |-> tag, deleted |-> FALSE]
Hole == [write |-> 0, tag |-> AnyTag, deleted |-> TRUE]
\* The seq the next record gets: the deque tail, not head_seq + 1.
TailSeq == base_seq + Len(records)
Seqs == base_seq..TailSeq - 1
At(s) == records[s - base_seq + 1]
\* What a reader sees.
Named(seqs) == {[seq |-> s, write |-> At(s).write] : s \in seqs}
Visible == Named({s \in Seqs : s <= head_seq /\ ~At(s).deleted})

Marked(recs, base, victims) ==
    [i \in DOMAIN recs |->
        IF base + i - 1 \in victims THEN Hole ELSE recs[i]]
\* reclaim_front: how many deleted slots the deque starts with.
DeadFront(recs) ==
    Max({k \in 0..Len(recs) : \A i \in 1..k : recs[i].deleted})

\* The live records a delete selects, below its point-in-time bound.
Victims(recs, base, d) ==
    {base + i - 1 : i \in
        {j \in DOMAIN recs :
            /\ ~recs[j].deleted
            /\ base + j - 1 < d.bound
            /\ d.before > 0 => base + j - 1 < d.before
            /\ d.tag # AnyTag => recs[j].tag = d.tag}}

-----------------------------------------------------------------------------
(* The WAL as the topic uses it.                                           *)

AppendFrames(p) ==
    [i \in 1..op[p].count |->
        [kind |-> "append", seq |-> op[p].start + i - 1,
         write |-> op[p].write, tag |-> op[p].tag]]
Enqueue(p, frames, durable) ==
    chan' = Append(chan, [proc |-> p, frames |-> frames, durable |-> durable])
Fsynced == setup.class = "fsync"

WalCommit ==
    /\ chan # <<>>
    /\ chan' = Tail(chan)
    /\ log' = log \o Head(chan).frames
    /\ synced' = IF Head(chan).durable THEN Len(log') ELSE synced
    /\ verdict' = [verdict EXCEPT ![Head(chan).proc] = "ok"]
    /\ UNCHANGED <<index, head_seq, reserved_head, gate, pc, op, history,
                   bounds>>

\* The write or the fsync of the batch failed and the tail was rewound.
WalFail ==
    /\ chan # <<>> /\ Fault("commit")
    /\ chan' = Tail(chan)
    /\ verdict' = [verdict EXCEPT ![Head(chan).proc] = "failed"]
    /\ UNCHANGED <<index, head_seq, reserved_head, gate, pc, op, log, synced,
                   history, setup, writes, deletes>>

\* An fsync for another topic of the shard hardens this topic's frames too.
WalSync ==
    /\ synced < Len(log)
    /\ synced' = Len(log)
    /\ UNCHANGED <<index, head_seq, reserved_head, gate, pc, op, verdict, chan,
                   log, history, bounds>>

-----------------------------------------------------------------------------
(* write.                                                                  *)

\* Under the append lock: stage at the tail.
Stage(p, n, tag) ==
    /\ pc[p] = "idle" /\ append_lock = NoProc
    /\ writes < setup.max_writes /\ writes' = writes + 1
    /\ records' = records \o [i \in 1..n |-> Slot(writes + 1, tag)]
    /\ op' = [op EXCEPT ![p] =
                [NoOp EXCEPT !.start = TailSeq, !.count = n,
                             !.pre_len = Len(records), !.write = writes + 1,
                             !.tag = tag]]
    /\ append_lock' = p
    /\ pc' = [pc EXCEPT ![p] = "staged"]
    /\ UNCHANGED <<base_seq, head_seq, reserved_head, publish_ticket,
                   publish_next, verdict, wal, history, setup, deletes, faults>>

\* Still under the lock: enqueue the frames and take the ticket.
StageEnqueue(p) ==
    /\ pc[p] = "staged"
    /\ Enqueue(p, AppendFrames(p), Fsynced)
    /\ op' = [op EXCEPT ![p].ticket = publish_ticket]
    /\ publish_ticket' = publish_ticket + 1
    /\ append_lock' = NoProc
    /\ pc' = [pc EXCEPT ![p] = "waiting"]
    /\ UNCHANGED <<index, head_seq, reserved_head, publish_next, verdict, log,
                   synced, history, bounds>>

\* The channel is full: rollback_staged truncates the deque to pre_len.
StageRefused(p) ==
    /\ pc[p] = "staged" /\ Fault("full")
    /\ records' = SubSeq(records, 1, Min({Len(records), op[p].pre_len}))
    /\ append_lock' = NoProc
    /\ op' = [op EXCEPT ![p] = NoOp]
    /\ pc' = [pc EXCEPT ![p] = "idle"]
    /\ UNCHANGED <<base_seq, head_seq, reserved_head, publish_ticket,
                   publish_next, verdict, wal, history, setup, writes, deletes>>

\* publish_wait_turn, after the commit token resolved.
Turn(p) == verdict[p] # "none" /\ publish_next = op[p].ticket
StagedSeqs(p) == op[p].start..op[p].start + op[p].count - 1
PublishHead(p) == op[p].start + op[p].count - 1

\* publish_done and the return of the request.
Done(p) ==
    /\ publish_next' = op[p].ticket + 1
    /\ op' = [op EXCEPT ![p] = NoOp]
    /\ verdict' = [verdict EXCEPT ![p] = "none"]
    /\ pc' = [pc EXCEPT ![p] = "idle"]

\* publish_staged_no_seal, the gate released, the write acknowledged.
PublishStaged(p) ==
    /\ head_seq' = PublishHead(p)
    /\ acked' = acked \cup {[seq |-> s, write |-> op[p].write] :
                              s \in StagedSeqs(p)}
    /\ Done(p)
    /\ UNCHANGED <<index, append_lock, publish_ticket, wal, selected, erased,
                   bounds>>

\* A disk-class head at or past the reservation.
NeedsReserve(p) == ~Fsynced /\ PublishHead(p) >= reserved_head

\* A write that needs no new reservation.
Publish(p) ==
    /\ pc[p] = "waiting" /\ Turn(p) /\ verdict[p] = "ok"
    /\ ~NeedsReserve(p)
    /\ PublishStaged(p)
    /\ UNCHANGED reserved_head

ReserveTarget(p) == Max({PublishHead(p), reserved_head}) + ReserveAhead
\* ensure_disk_head_reserved: a durable HeadWatermark before publication.
Reserve(p) ==
    /\ pc[p] = "waiting" /\ Turn(p) /\ verdict[p] = "ok"
    /\ NeedsReserve(p)
    /\ Enqueue(p, <<[kind |-> "head", seq |-> ReserveTarget(p)]>>, TRUE)
    /\ verdict' = [verdict EXCEPT ![p] = "none"]
    /\ pc' = [pc EXCEPT ![p] = "reserving"]
    /\ UNCHANGED <<index, head_seq, reserved_head, gate, op, log, synced,
                   history, bounds>>
ReservedPublish(p) ==
    /\ pc[p] = "reserving" /\ verdict[p] = "ok"
    /\ reserved_head' = ReserveTarget(p)
    /\ PublishStaged(p)

\* Mutants: the slots stay as they are; the gate is not released.
RollbackKeepsSlots(p) ==
    /\ Done(p)
    /\ UNCHANGED <<index, head_seq, reserved_head, append_lock, publish_ticket,
                   wal, history, setup, writes, deletes>>
RollbackKeepsTicket(p) ==
    /\ records' = Marked(records, base_seq, StagedSeqs(p))
    /\ op' = [op EXCEPT ![p] = NoOp]
    /\ verdict' = [verdict EXCEPT ![p] = "none"]
    /\ pc' = [pc EXCEPT ![p] = "idle"]
    /\ UNCHANGED <<base_seq, head_seq, reserved_head, gate, wal, history, setup,
                   writes, deletes>>
\* rollback_staged_by_seqs: later batches may be staged behind this one.
Rollback(p) ==
    /\ records' = Marked(records, base_seq, StagedSeqs(p))
    /\ Done(p)
    /\ UNCHANGED <<base_seq, head_seq, reserved_head, append_lock,
                   publish_ticket, wal, history, setup, writes, deletes>>
WriteFails(p) ==
    /\ \/ pc[p] = "waiting" /\ Turn(p)
       \/ pc[p] = "reserving"
    /\ verdict[p] = "failed"
    /\ Rollback(p)
    /\ UNCHANGED faults

\* A panic before the publication: PublishGuard::drop rolls back.
Unwind(p) ==
    /\ pc[p] = "waiting" /\ Turn(p) /\ Fault("panic")
    /\ Rollback(p)

-----------------------------------------------------------------------------
(* delete.                                                                 *)

\* Under the append lock: the bound, the frame, the ticket.
DeleteEnqueue(p, before, tag) ==
    /\ pc[p] = "idle" /\ append_lock = NoProc
    /\ before > 0 \/ tag # AnyTag
    /\ tag # AnyTag => setup.match
    /\ deletes < setup.max_deletes /\ deletes' = deletes + 1
    /\ LET d == [NoOp EXCEPT !.before = before, !.tag = tag,
                             !.bound = head_seq + 1, !.ticket = publish_ticket]
       IN
       /\ op' = [op EXCEPT ![p] = d]
       /\ Enqueue(p, <<[kind |-> "delete", before |-> before, tag |-> tag,
                        bound |-> d.bound]>>, Fsynced)
       /\ selected' = selected \cup Named(Victims(records, base_seq, d))
    /\ publish_ticket' = publish_ticket + 1
    /\ pc' = [pc EXCEPT ![p] = "deleting"]
    /\ UNCHANGED <<index, head_seq, reserved_head, append_lock, publish_next,
                   verdict, log, synced, acked, erased, setup, writes, faults>>

\* apply_delete_stats: mark, then reclaim the dead front.
DeleteApply(p) ==
    /\ pc[p] = "deleting" /\ Turn(p) /\ verdict[p] = "ok"
    /\ LET victims == Victims(records, base_seq, op[p])
           marked == Marked(records, base_seq, victims)
           front == DeadFront(marked)
       IN
       /\ records' = SubSeq(marked, front + 1, Len(marked))
       /\ base_seq' = base_seq + front
       /\ erased' = erased \cup Named(victims)
    /\ Done(p)
    /\ UNCHANGED <<head_seq, reserved_head, append_lock, publish_ticket, wal,
                   acked, selected, bounds>>

DeleteFails(p) ==
    /\ pc[p] = "deleting" /\ Turn(p) /\ verdict[p] = "failed"
    /\ Done(p)
    /\ UNCHANGED <<index, head_seq, reserved_head, append_lock, publish_ticket,
                   wal, history, bounds>>

Finish(p) ==
    \/ StageEnqueue(p) \/ StageRefused(p) \/ Publish(p) \/ Reserve(p)
    \/ ReservedPublish(p) \/ WriteFails(p) \/ Unwind(p) \/ DeleteApply(p)
    \/ DeleteFails(p)
Wal == WalCommit \/ WalFail \/ WalSync

Next ==
    \/ \E p \in Procs, n \in BatchSizes, tag \in Tags : Stage(p, n, tag)
    \/ \E p \in Procs, before \in 0..head_seq + 2, tag \in Tags \cup {AnyTag} :
         DeleteEnqueue(p, before, tag)
    \/ \E p \in Procs : Finish(p)
    \/ Wal

Spec == Init /\ [][Next]_vars

-----------------------------------------------------------------------------
(* Properties.                                                             *)

\* WAL-first: a reader never sees a record whose frame the WAL has not
\* committed (and hardened, in the fsync class), failed and unwound writes
\* included.
Logged(n) == {[seq |-> log[i].seq, write |-> log[i].write] :
                i \in {j \in 1..n : log[j].kind = "append"}}
VisibleIsCommitted ==
    Visible \subseteq Logged(IF Fsynced THEN synced ELSE Len(log))
=============================================================================
