-------------------------------- MODULE Wal --------------------------------
(***************************************************************************)
(* One shard of the write-ahead log (src/storage/wal.rs): submitters feed  *)
(* a bounded channel, a single writer thread drains it into batches,       *)
(* rotates, writes, fsyncs once per batch and signals the commit tokens.   *)
(* A checkpoint thread reads the published position (engine/snapshot.rs)   *)
(* and a restart replays what survived (engine/recovery.rs).               *)
(*                                                                         *)
(* A frame takes one slot of a file and is named by its place in the order *)
(* of the channel.  A file has two images: what the OS shows (cache) and   *)
(* what an fsync hardened (disk).  A slot that holds no frame is 0.        *)
(***************************************************************************)
EXTENDS Integers, Sequences, FiniteSets, SequencesExt

CONSTANTS
    Procs,          \* submitting threads
    Ckpt,           \* the thread that takes checkpoints
    ChannelCap,     \* slots of the ingest channel
    Setups          \* the files, and what may happen in a behaviour

ASSUME ChannelHasSlots == ChannelCap \in Nat \ {0}
ASSUME CkptIsNoProc == Ckpt \notin Procs
\* sizes: frames per submitted batch; capacity: frames a file is preallocated
\* for; faults: the I/O calls that may fail; stop: whether the log is ever
\* shut down; the rest bounds the frames, failures, checkpoints and crashes.
Setup == [sizes : SUBSET (Nat \ {0}), capacity : Nat \ {0},
          faults : SUBSET {"create", "write", "sync", "seal"}, stop : BOOLEAN,
          max_frames : Nat, max_faults : Nat, max_checkpoints : Nat,
          max_crashes : Nat]
ASSUME SetupsAreSetups == Setups \subseteq Setup

Threads == Procs \cup {Ckpt}

VARIABLES
    setup,          \* the setup of this behaviour
    chan,           \* the ingest channel
    queued,         \* the gauge of submissions in flight
    shutdown,       \* the stop signal
    pc,             \* where each submitting thread is
    asked,          \* the batch each thread submits: [durable, size]
    wpc,            \* where the writer thread is
    batch,          \* the submissions it is committing
    draining,       \* whether it saw the stop signal
    read_only,      \* latched when a rotation failed
    active,         \* index of the active file
    len,            \* its logical append position
    active_idx,     \* the published position: file index ...
    active_len,     \* ... and length
    cache,          \* file index -> frames, as the OS shows them
    disk,           \* file index -> frames, as an fsync hardened them
    position,       \* the position the checkpoint thread read
    snap,           \* the durable snapshot: [idx, off, frames]
    present,        \* frames the engine holds: committed or recovered
    acked,          \* frames of durable batches whose token said Ok
    refused,        \* frames of batches failed before they were written
    last,           \* last frame sent to the writer
    submitted,      \* frames submitted, sent or not
    faults, checkpoints, crashes

channel == <<chan, queued, shutdown>>
clients == <<pc, asked>>
writer == <<wpc, batch, draining, read_only>>
files == <<active, len, cache, disk>>
published == <<active_idx, active_len>>
checkpoint == <<position, snap, checkpoints>>
outcome == <<present, acked, refused>>
bounds == <<setup, submitted, faults, crashes>>
vars == <<channel, clients, writer, files, published, checkpoint, outcome,
          last, bounds>>

\* What a thread that is not submitting asks for.
Nothing == [durable |-> TRUE, size |-> 0]
Submission == [thread : Threads, durable : BOOLEAN, frames : Seq(1..setup.max_frames)]

Init ==
    /\ setup \in Setups
    /\ chan = <<>> /\ queued = 0 /\ shutdown = FALSE
    /\ pc = [p \in Threads |-> "idle"]
    /\ asked = [p \in Threads |-> Nothing]
    /\ wpc = "top" /\ batch = <<>> /\ draining = FALSE /\ read_only = FALSE
    /\ active = 1 /\ len = 0
    /\ cache = [i \in {1} |-> <<>>] /\ disk = [i \in {1} |-> <<>>]
    /\ active_idx = 1 /\ active_len = 0
    /\ position = [idx |-> 0, off |-> 0]
    /\ snap = [idx |-> 0, off |-> 0, frames |-> {}]
    /\ present = {} /\ acked = {} /\ refused = {}
    /\ last = 0 /\ submitted = 0 /\ faults = 0 /\ checkpoints = 0 /\ crashes = 0

FramesOf(subs) == FlattenSeq([i \in DOMAIN subs |-> subs[i].frames])
\* Mutant: only the first submission is asked.
FirstDurable == draining \/ (batch # <<>> /\ batch[1].durable)
AnyDurable == draining \/ \E i \in DOMAIN batch : batch[i].durable
Waiters == {batch[i].thread : i \in DOMAIN batch}
Fault(kind) ==
    kind \in setup.faults /\ faults < setup.max_faults /\ faults' = faults + 1

-----------------------------------------------------------------------------
(* submit_batch and the shutdown handshake.                                *)

\* The gauge is bumped before the stop signal is read.
Bump(p, durable, size) ==
    /\ pc[p] = "idle"
    /\ submitted + size <= setup.max_frames /\ submitted' = submitted + size
    /\ queued' = queued + 1
    /\ asked' = [asked EXCEPT ![p] = [durable |-> durable, size |-> size]]
    /\ pc' = [pc EXCEPT ![p] = "bumped"]
    /\ UNCHANGED <<chan, shutdown, writer, files, published, outcome, last,
                   setup, faults, crashes>>

SubmitBump(p, durable, size) ==
    Bump(p, durable, size) /\ UNCHANGED checkpoint

\* A stopped log rejects; otherwise the batch goes on to the channel.
Reject(p) ==
    /\ queued' = queued - 1
    /\ asked' = [asked EXCEPT ![p] = Nothing]
    /\ pc' = [pc EXCEPT ![p] = "idle"]
    /\ UNCHANGED <<chan, shutdown, writer, files, published, checkpoint,
                   outcome, last, bounds>>
SubmitCheck(p) ==
    /\ pc[p] = "bumped"
    /\ \/ shutdown /\ Reject(p)
       \/ /\ ~shutdown
          /\ pc' = [pc EXCEPT ![p] = "checked"]
          /\ UNCHANGED <<channel, asked, writer, files, published, checkpoint,
                         outcome, last, bounds>>

\* try_send takes one slot for the whole batch.
SubmitSend(p) ==
    /\ pc[p] = "checked" /\ Len(chan) < ChannelCap
    /\ chan' = Append(chan,
           [thread |-> p, durable |-> asked[p].durable,
            frames |-> [i \in 1..asked[p].size |-> last + i]])
    /\ last' = last + asked[p].size
    /\ asked' = [asked EXCEPT ![p] = Nothing]
    /\ pc' = [pc EXCEPT ![p] = "waiting"]
    /\ UNCHANGED <<queued, shutdown, writer, files, published, checkpoint,
                   outcome, bounds>>

\* Full: the bump is rolled back.  (The writer leaves only once the gauge is
\* zero, so no sender finds the channel disconnected.)
SubmitReject(p) ==
    pc[p] = "checked" /\ Len(chan) = ChannelCap /\ Reject(p)

\* Wal::stop raises the signal and joins the writer thread.
Stop ==
    /\ setup.stop /\ ~shutdown
    /\ shutdown' = TRUE
    /\ UNCHANGED <<chan, queued, clients, writer, files, published, checkpoint,
                   outcome, last, bounds>>

-----------------------------------------------------------------------------
(* The writer thread: run, drain_ready, drain_and_commit_remaining.        *)

Top ==
    /\ wpc = "top"
    /\ draining' = shutdown
    /\ wpc' = IF shutdown THEN "drain" ELSE "recv"
    /\ UNCHANGED <<channel, clients, batch, read_only, files, published,
                   checkpoint, outcome, last, bounds>>

\* Dequeue a submission.
Receive ==
    /\ wpc \in {"recv", "drain", "gather"} /\ chan # <<>>
    /\ batch' = Append(batch, Head(chan))
    /\ chan' = Tail(chan)
    /\ queued' = queued - 1
    /\ wpc' = "gather"
    /\ UNCHANGED <<shutdown, clients, draining, read_only, files, published,
                   checkpoint, outcome, last, bounds>>

\* recv_timeout elapses: look at the stop signal again.
Timeout ==
    /\ wpc = "recv" /\ chan = <<>>
    /\ wpc' = "top"
    /\ UNCHANGED <<channel, clients, batch, draining, read_only, files,
                   published, checkpoint, outcome, last, bounds>>

\* The channel ran empty: commit what was gathered.
Gathered ==
    /\ wpc = "gather" /\ chan = <<>>
    /\ wpc' = "commit"
    /\ UNCHANGED <<channel, clients, batch, draining, read_only, files,
                   published, checkpoint, outcome, last, bounds>>

\* Mutant: an empty channel ends the final drain.
DrainedChannel == chan = <<>>
Drained == chan = <<>> /\ queued = 0
\* The final drain ends when no submission is in flight; the tail is hardened
\* (best effort).
Exit ==
    /\ wpc = "drain" /\ Drained
    /\ wpc' = "exited"
    /\ \/ UNCHANGED faults /\ disk' = [disk EXCEPT ![active] = cache[active]]
       \/ Fault("seal") /\ UNCHANGED disk
    /\ UNCHANGED <<channel, clients, batch, draining, read_only, active, len,
                   cache, published, checkpoint, outcome, last, setup,
                   submitted, crashes>>

-----------------------------------------------------------------------------
(* commit_batch.                                                           *)

\* Where the writer and the waiters of the batch go once it is signalled.
BatchDone ==
    /\ batch' = <<>>
    /\ wpc' = IF draining THEN "drain" ELSE "top"
SignalFailed ==
    /\ BatchDone
    /\ pc' = [p \in Threads |-> IF p \in Waiters THEN "idle" ELSE pc[p]]
    /\ UNCHANGED <<asked, present, acked, channel, draining, checkpoint, last,
                   setup, submitted, crashes>>

Refuse == SignalFailed /\ refused' = refused \cup ToSet(FramesOf(batch))

\* A log latched read-only fails every batch.
RefuseBatch ==
    /\ wpc = "commit" /\ read_only
    /\ Refuse
    /\ UNCHANGED <<read_only, files, published, faults>>

Fits == len + Len(FramesOf(batch)) <= setup.capacity

NoRotation ==
    /\ wpc = "commit" /\ ~read_only /\ Fits
    /\ wpc' = "write"
    /\ UNCHANGED <<channel, clients, batch, draining, read_only, files,
                   published, checkpoint, outcome, last, bounds>>

\* The image of a file after frames were written from slot len + 1 on.
Written(image, frames) ==
    [i \in 1..Max({Len(image), len + Len(frames)}) |->
        IF i \in len + 1..len + Len(frames) THEN frames[i - len] ELSE image[i]]

\* A batch that does not fit seals the full file with an fsync, whose failure
\* is ignored.
Seal ==
    /\ wpc = "commit" /\ ~read_only /\ ~Fits
    /\ \/ UNCHANGED faults /\ disk' = [disk EXCEPT ![active] = cache[active]]
       \/ Fault("seal") /\ UNCHANGED disk
    /\ wpc' = "sealed"
    /\ UNCHANGED <<channel, clients, batch, draining, read_only, active, len,
                   cache, published, checkpoint, outcome, last, setup,
                   submitted, crashes>>

WithNext(images) ==
    [i \in DOMAIN images \cup {active + 1} |->
        IF i = active + 1 THEN <<>> ELSE images[i]]

\* The next file is created and its index is published first.
Rotate ==
    /\ wpc = "sealed"
    /\ active' = active + 1 /\ len' = 0
    /\ cache' = WithNext(cache) /\ disk' = WithNext(disk)
    /\ active_idx' = active + 1
    /\ wpc' = "rotated"
    /\ UNCHANGED <<channel, clients, batch, draining, read_only, active_len,
                   checkpoint, outcome, last, bounds>>

Rotated ==
    /\ wpc = "rotated"
    /\ active_len' = 0
    /\ wpc' = "write"
    /\ UNCHANGED <<channel, clients, batch, draining, read_only, files,
                   active_idx, checkpoint, outcome, last, bounds>>

\* The next file cannot be set up (an empty one may be left behind): latch
\* read-only and fail the batch.
RotateFails ==
    /\ wpc = "sealed" /\ Fault("create")
    /\ \/ UNCHANGED <<cache, disk>>
       \/ cache' = WithNext(cache) /\ disk' = WithNext(disk)
    /\ read_only' = TRUE
    /\ Refuse
    /\ UNCHANGED <<active, len, published>>

\* One write for the batch; the new position is published before the fsync.
Write ==
    /\ wpc = "write"
    /\ LET frames == FramesOf(batch) IN
       /\ cache' = [cache EXCEPT ![active] = Written(@, frames)]
       /\ len' = len + Len(frames)
       /\ active_len' = len + Len(frames)
    /\ wpc' = IF AnyDurable THEN "sync" ELSE "signal"
    /\ UNCHANGED <<channel, clients, batch, draining, read_only, active, disk,
                   active_idx, checkpoint, outcome, last, bounds>>

\* The write fails, perhaps after a prefix of the batch: the tail is rewound.
WriteFails ==
    /\ wpc = "write" /\ Fault("write")
    /\ \E n \in 0..Len(FramesOf(batch)) :
         cache' = [cache EXCEPT ![active] =
                     Written(@, SubSeq(FramesOf(batch), 1, n))]
    /\ active_len' = len
    /\ SignalFailed
    /\ UNCHANGED <<read_only, active, len, disk, active_idx, refused>>

Sync ==
    /\ wpc = "sync"
    /\ disk' = [disk EXCEPT ![active] = cache[active]]
    /\ wpc' = "signal"
    /\ UNCHANGED <<channel, clients, batch, draining, read_only, active, len,
                   cache, published, checkpoint, outcome, last, bounds>>

\* The fsync fails: the tail is rewound, the bytes stay where they are.
SyncFails ==
    /\ wpc = "sync" /\ Fault("sync")
    /\ len' = len - Len(FramesOf(batch))
    /\ active_len' = len - Len(FramesOf(batch))
    /\ SignalFailed
    /\ UNCHANGED <<read_only, active, cache, disk, active_idx, refused>>

\* Every token of the batch says Ok and the engine publishes the records.
Signal ==
    /\ wpc = "signal"
    /\ BatchDone
    /\ present' = present \cup ToSet(FramesOf(batch))
    /\ acked' = acked \cup
         ToSet(FramesOf(SelectSeq(batch, LAMBDA sub : sub.durable)))
    /\ pc' = [p \in Threads |->
                IF p \notin Waiters THEN pc[p]
                ELSE IF p = Ckpt THEN "ckpt_idx" ELSE "idle"]
    /\ UNCHANGED <<channel, asked, draining, read_only, files, published,
                   checkpoint, refused, last, bounds>>

-----------------------------------------------------------------------------
(* write_snapshot: a durable CheckpointMark as barrier, the position, then *)
(* the state, then the files below the position are dropped.               *)

CkptBarrier ==
    /\ checkpoints < setup.max_checkpoints /\ checkpoints' = checkpoints + 1
    /\ Bump(Ckpt, TRUE, 1)
    /\ UNCHANGED <<position, snap>>

\* position() loads the index, then the length.
CkptIdx ==
    /\ pc[Ckpt] = "ckpt_idx"
    /\ position' = [idx |-> active_idx, off |-> 0]
    /\ pc' = [pc EXCEPT ![Ckpt] = "ckpt_len"]
    /\ UNCHANGED <<channel, asked, writer, files, published, snap, checkpoints,
                   outcome, last, bounds>>
CkptLen ==
    /\ pc[Ckpt] = "ckpt_len"
    /\ position' = [position EXCEPT !.off = active_len]
    /\ pc' = [pc EXCEPT ![Ckpt] = "ckpt_capture"]
    /\ UNCHANGED <<channel, asked, writer, files, published, snap, checkpoints,
                   outcome, last, bounds>>

\* The capture holds the append lock and waits for the writes in flight.
CkptCapture ==
    /\ pc[Ckpt] = "ckpt_capture"
    /\ \A p \in Procs : pc[p] = "idle"
    /\ snap' = [idx |-> position.idx, off |-> position.off, frames |-> present]
    /\ pc' = [pc EXCEPT ![Ckpt] = "ckpt_drop"]
    /\ UNCHANGED <<channel, asked, writer, files, published, position,
                   checkpoints, outcome, last, bounds>>

\* drop_absorbed_wal_files.
CkptDrop ==
    /\ pc[Ckpt] = "ckpt_drop"
    /\ LET kept == {i \in DOMAIN cache : i >= position.idx} IN
       /\ cache' = [i \in kept |-> cache[i]]
       /\ disk' = [i \in kept |-> disk[i]]
    /\ pc' = [pc EXCEPT ![Ckpt] = "idle"]
    /\ UNCHANGED <<channel, asked, writer, active, len, published, checkpoint,
                   outcome, last, bounds>>

-----------------------------------------------------------------------------
(* A crash and the recovery that follows.                                  *)

\* What a power loss may leave of a file: a slot that was not synced holds the
\* new frame, what it held before, or a torn write.
At(image, i) == IF i \in DOMAIN image THEN image[i] ELSE 0
Survives(i) ==
    {image \in [DOMAIN cache[i] -> {0} \cup ToSet(cache[i]) \cup ToSet(disk[i])] :
        \A k \in DOMAIN image :
            image[k] \in IF cache[i][k] = At(disk[i], k) THEN {cache[i][k]}
                         ELSE {0, cache[i][k], At(disk[i], k)}}

\* Mutant: the reader skips over a torn frame.
EveryFrame(image) == SelectSeq(image, LAMBDA f : f # 0)
\* WalReader stops at the first slot without a valid frame.
ValidPrefix(image) ==
    SubSeq(image, 1, Max({k \in 0..Len(image) :
                            \A j \in 1..k : image[j] # 0}))

\* Replay skips the files and offsets the snapshot absorbed.
Replayed(images) ==
    UNION {{images[i][k] : k \in {j \in DOMAIN images[i] :
                i = snap.idx => j > snap.off}} :
           i \in {j \in DOMAIN images : j >= snap.idx}}

Crash ==
    /\ crashes < setup.max_crashes /\ crashes' = crashes + 1
    /\ \E images \in [DOMAIN cache -> UNION {Survives(i) : i \in DOMAIN cache}] :
         /\ \A i \in DOMAIN cache : images[i] \in Survives(i)
         /\ LET valid == [i \in DOMAIN cache |-> ValidPrefix(images[i])]
                \* truncate_active: only the last file is cut.
                kept == [images EXCEPT ![Max(DOMAIN cache)] =
                           valid[Max(DOMAIN cache)]]
            IN
            /\ cache' = kept /\ disk' = kept
            /\ len' = Len(valid[Max(DOMAIN cache)])
            /\ active_len' = Len(valid[Max(DOMAIN cache)])
            /\ present' = snap.frames \cup Replayed(valid)
    /\ active' = Max(DOMAIN cache) /\ active_idx' = Max(DOMAIN cache)
    /\ chan' = <<>> /\ queued' = 0 /\ shutdown' = FALSE
    /\ pc' = [p \in Threads |-> "idle"]
    /\ wpc' = "top" /\ batch' = <<>> /\ draining' = FALSE /\ read_only' = FALSE
    /\ position' = [idx |-> 0, off |-> 0]
    /\ asked' = [p \in Threads |-> Nothing]
    /\ UNCHANGED <<setup, snap, checkpoints, acked, refused, last, submitted, faults>>

Submit(p) == SubmitCheck(p) \/ SubmitSend(p) \/ SubmitReject(p)
Writer ==
    \/ Top \/ Receive \/ Timeout \/ Gathered \/ Exit
    \/ RefuseBatch \/ NoRotation \/ Seal \/ Rotate \/ Rotated \/ RotateFails
    \/ Write \/ WriteFails \/ Sync \/ SyncFails \/ Signal
Checkpoint == CkptIdx \/ CkptLen \/ CkptCapture \/ CkptDrop

Next ==
    \/ \E p \in Procs, durable \in BOOLEAN, size \in setup.sizes :
         SubmitBump(p, durable, size)
    \/ \E p \in Threads : Submit(p)
    \/ Stop
    \/ Writer
    \/ CkptBarrier \/ Checkpoint
    \/ Crash

Spec == Init /\ [][Next]_vars

-----------------------------------------------------------------------------
(* Properties.                                                             *)

\* The shard is a durable log: a batch whose fsync token said Ok is in the
\* engine across every crash, and a batch that was failed because a rotation
\* failed is never in it, not even after a restart (commit_batch, Crash).
Promise == INSTANCE DurableLog WITH sent <- 1..last, held <- present
ImplementsDurableLog == Promise!Spec

\* A restart of a log no I/O call has failed keeps a prefix, in submission
\* order, of what was in it, and brings nothing else back.
RestartKeepsAPrefix ==
    [][crashes' > crashes /\ faults = 0 =>
         /\ present' \subseteq present \cup ToSet(FramesOf(batch))
         /\ \A f \in present, g \in present' : f < g => f \in present']_vars

\* Fairness: the writer thread runs, and so does one of the submitting threads
\* and the checkpoint while one of them can.
Clients == Checkpoint \/ \E p \in Threads : Submit(p)
Fairness == WF_vars(Writer) /\ WF_vars(Clients)
FairSpec == Spec /\ Fairness

\* Every accepted submission gets its answer, stalled channel, failed I/O and
\* shutdown included, and Wal::stop returns: the writer thread that it joins
\* exits, or the process dies.  (The submissions are bounded, so each of them is
\* answered exactly when all of them are.)
Waiting == \E p \in Threads : pc[p] = "waiting"
TokensResolve ==
    /\ Waiting ~> ~Waiting
    /\ shutdown ~> (wpc = "exited" \/ ~shutdown)
=============================================================================
