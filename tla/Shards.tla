------------------------------- MODULE Shards -------------------------------
(***************************************************************************)
(* The sharded write-ahead log across restarts that change the number of   *)
(* its shards (storage/sharded_wal.rs, engine/recovery.rs), and the files  *)
(* of the snapshots (storage/snapshot.rs, engine/snapshot.rs).             *)
(*                                                                         *)
(* A topic's frames go to the shard its id hashes to; the frames without a *)
(* topic go to shard 0.  One shard writes to wal/, several to wal/shard-NN.*)
(* Recovery loads the newest snapshot, replays what each group of files on *)
(* disk holds behind the position the snapshot has for it, and opens the   *)
(* writers of the configured number of shards.                             *)
(*                                                                         *)
(* Every frame is durable when its operation returns (module Wal), and the *)
(* topics have neither TTL nor cap.  An offset counts frames.              *)
(***************************************************************************)
EXTENDS Integers, Sequences, FiniteSets, SequencesExt, FiniteSetsExt

CONSTANTS
    Topics,         \* topic ids
    Hash,           \* xxh3 of a topic id
    MaxShards,      \* the largest number of shards configured
    Configs,        \* topic configurations
    NoConfig,       \* the configuration of a topic that does not exist
    DefaultConfig,  \* TopicConfig::default(), which topics are created with
    FILE_CAP,       \* frames of a WAL file before it is rotated
    Setups

\* layouts: the number of shards of each run of the process; warm: the number
\* changes only while every fragment of a topic in the WAL has an append;
\* bound: how often each thing happens.
Bounds == {"creates", "writes", "updates", "deletes", "routers", "snapshots",
           "failures", "torn"}
Setup == [layouts : Seq(1..MaxShards), warm : BOOLEAN, bound : [Bounds -> Nat]]
ASSUME SetupsAreSetups == Setups \subseteq Setup /\ \A s \in Setups : s.layouts # <<>>
ASSUME Hashed == Hash \in [Topics -> Nat] /\ 0 \notin Topics
ASSUME ConfigsDiffer == DefaultConfig \in Configs /\ NoConfig \notin Configs

VARIABLES
    setup, left,    \* the setup, and what is left of its bounds
    run,            \* which run of the process this is
    files,          \* by group, the WAL files by index: sequences of frames
    active,         \* by live shard, the index of the file it writes to
    meta, hard,     \* the snapshots in meta/; those the directory sync hardened
    store,          \* the topics and the router in memory
    held,           \* by topic, the frame of the operation in flight
    snap,           \* the snapshot being taken
    reported        \* id of the last snapshot write_snapshot returned

disk == <<files, active, meta, hard>>
vars == <<setup, left, run, disk, store, held, snap, reported>>
Use(bound) == left[bound] > 0 /\ left' = [left EXCEPT ![bound] = @ - 1]

-----------------------------------------------------------------------------
(* Groups of WAL files.                                                    *)

Flat == -1
Groups == {Flat} \cup 0..MaxShards - 1
NoFiles == [i \in {} |-> <<>>]

shard_group_key(s, n) == IF n <= 1 THEN Flat ELSE s
shard_for_topic(id, n) == IF n <= 1 \/ id = 0 THEN 0 ELSE Hash[id] % n
Shards(n) == 0..n - 1
Live(n) == {shard_group_key(s, n) : s \in Shards(n)}
N == setup.layouts[run]
GroupOf(id) == shard_group_key(shard_for_topic(id, N), N)

\* What a WAL reader accepts: everything before a torn frame.
Torn == [id |-> 0, kind |-> "torn"]
Valid(frames) ==
    LET at == SelectInSeq(frames, LAMBDA f : f = Torn)
    IN IF at = 0 THEN frames ELSE SubSeq(frames, 1, at - 1)
LastIdx(group) == Max(DOMAIN group)
\* The tail of a group: its last file, and the length of what is valid there.
TailOf(group) == <<LastIdx(group), Len(Valid(group[LastIdx(group)]))>>

\* One frame behind the last one; a full file is rotated first.
Logged(group, idx, f) ==
    IF Len(group[idx]) < FILE_CAP
    THEN [group EXCEPT ![idx] = Append(@, f)]
    ELSE [i \in DOMAIN group \cup {idx + 1} |->
            IF i = idx + 1 THEN <<f>> ELSE group[i]]
\* submit: the frame goes to the shard of its id.
Submit(f) ==
    LET g == GroupOf(f.id)  log == Logged(files[g], active[g], f)
    IN /\ files' = [files EXCEPT ![g] = log]
       /\ active' = [active EXCEPT ![g] = LastIdx(log)]

-----------------------------------------------------------------------------
(* The engine's state, and what a frame does to it.                        *)

Absent == [cfg |-> NoConfig, recs |-> <<>>]
\* stray: topics that recovery made up for an append without a topic.
Empty == [named |-> [t \in Topics |-> Absent], stray |-> [t \in Topics |-> Absent],
          router |-> FALSE]
Exists(topic) == topic.cfg # NoConfig

\* The effect of a frame on its topic.
AppendTo(topic, f) == [topic EXCEPT !.recs = Append(@, TRUE)]
Applied(topic, f) ==
    CASE f.kind = "append" /\ f.seq = Len(topic.recs) + 1 -> AppendTo(topic, f)
      [] f.kind = "delete" /\ f.seq \in DOMAIN topic.recs ->
           [topic EXCEPT !.recs[f.seq] = FALSE]
      [] OTHER -> topic

\* get_topic_by_id: one of the topics with that id, whichever is met first.
Named(st, t, first) ==
    IF Exists(st.named[t]) /\ Exists(st.stray[t]) THEN first
    ELSE Exists(st.named[t])
OnTopic(st, f, first) ==
    IF Named(st, f.id, first)
    THEN [st EXCEPT !.named[f.id] = Applied(@, f)]
    ELSE [st EXCEPT !.stray[f.id] = Applied(@, f)]
\* replay_frame: an append without a topic makes one up under another name.
replay_frame(st, f, first) ==
    CASE f.kind = "config" -> [st EXCEPT !.named[f.id].cfg = f.cfg]
      [] f.kind = "append"
         /\ ~Exists(st.named[f.id]) /\ ~Exists(st.stray[f.id]) ->
           OnTopic([st EXCEPT !.stray[f.id].cfg = DefaultConfig], f, first)
      [] f.kind \in {"append", "delete"} -> OnTopic(st, f, first)
      [] f.kind = "router" -> [st EXCEPT !.router = f.on]
      [] OTHER -> st

-----------------------------------------------------------------------------
(* Recovery.                                                               *)

\* load_latest: the newest snapshot, or none.
NoPos == [g \in {} |-> <<0, 0>>]
load_latest(dir) ==
    IF dir = {} THEN [id |-> 0, pos |-> NoPos, state |-> Empty]
    ELSE CHOOSE s \in dir : \A o \in dir : o.id <= s.id

\* The position of a group the snapshot does not know is its start.
position_for_key(s, g) == IF g \in DOMAIN s.pos THEN s.pos[g] ELSE <<0, 0>>

\* The frames of a group behind its position, in the order of the log.
FramesFrom(s, g, fs) ==
    LET pos == position_for_key(s, g)
        Part(i) == LET valid == Valid(fs[g][i])
                   IN IF i = pos[1] THEN SubSeq(valid, pos[2] + 1, Len(valid))
                      ELSE valid
        order == SetToSortSeq({i \in DOMAIN fs[g] : i >= pos[1]}, <)
    IN FlattenSeq([k \in DOMAIN order |-> Part(order[k])])
HasFrames(tails, g, t) == \E k \in DOMAIN tails[g] : tails[g][k].id = t
Appends(tails, g, t) ==
    {tails[g][k].seq : k \in {j \in DOMAIN tails[g] :
                                tails[g][j].id = t /\ tails[g][j].kind = "append"}}

\* find_split_topics: the topics with frames in more than one group.
find_split_topics(tails) ==
    {t \in Topics : Cardinality({g \in Groups : HasFrames(tails, g, t)}) > 1}

\* The groups by shard number; those of the configured layout come last.
StreamOrder(n) ==
    LET groups == [i \in 1..MaxShards + 1 |-> i - 2]
    IN SelectSeq(groups, LAMBDA g : g \notin Live(n))
       \o SelectSeq(groups, LAMBDA g : g \in Live(n))
\* replay_split_topics: the groups by their lowest append, those without an
\* append last, in the order of the groups.
SplitOrder(tails, t, n) ==
    LET stream == StreamOrder(n)
        At(g) == CHOOSE k \in DOMAIN stream : stream[k] = g
        Before(a, b) ==
            LET x == Appends(tails, a, t)  y == Appends(tails, b, t)
            IN \/ x # {} /\ y = {}
               \/ x # {} /\ y # {} /\ Min(x) < Min(y)
               \/ x = {} /\ y = {} /\ At(a) < At(b)
    IN SortSeq(stream, Before)

\* recover_and_open: what the engine holds after the replay.
Recovered(s, fs, n, first) ==
    LET tails == [g \in Groups |-> FramesFrom(s, g, fs)]
        split == find_split_topics(tails)
        Replay(st, f) == replay_frame(st, f, first)
        Pick(order, Test(_)) ==
            FlattenSeq([k \in DOMAIN order |-> SelectSeq(tails[order[k]], Test)])
        stream == Pick(StreamOrder(n), LAMBDA f : f.id \notin split)
        Buffered(t) == Pick(SplitOrder(tails, t, n), LAMBDA f : f.id = t)
    IN FoldSet(LAMBDA t, st : FoldLeft(Replay, st, Buffered(t)),
               FoldLeft(Replay, s.state, stream), split)

\* truncate_active: the torn tail of the last file of each group is cut.
Truncated(group) ==
    IF DOMAIN group = {} THEN group
    ELSE [group EXCEPT ![LastIdx(group)] = Valid(@)]
\* A writer resumes behind the tail of its directory, or starts file 1.
Opened(group) == IF DOMAIN group = {} THEN [i \in {1} |-> <<>>] ELSE group

\* Whether the layout may change here (see warm): no fragment of a topic
\* behind the position of its group lacks an append.
Warm(s) ==
    LET tails == [g \in Groups |-> FramesFrom(s, g, files)]
    IN \A g \in Groups, t \in Topics :
         HasFrames(tails, g, t) => Appends(tails, g, t) # {}

NoSnap == [pc |-> "idle", id |-> 0, pos |-> NoPos, todo |-> {}, state |-> Empty]
Idle == [t \in Topics |-> Torn]

\* The process dies and starts again.  Of the changes of meta/ that no
\* directory sync hardened any may be lost, and a group may end with a torn
\* frame, of an operation that has not returned.
Restart ==
    /\ run < Len(setup.layouts) /\ run' = run + 1
    /\ \E image \in SUBSET (meta \cup hard), first \in BOOLEAN,
          torn \in SUBSET Live(N) :
         LET s == load_latest(image)
             n == setup.layouts[run + 1]
             crashed == [g \in Groups |->
                           IF g \in torn
                           THEN [files[g] EXCEPT ![active[g]] = Append(@, Torn)]
                           ELSE files[g]]
             cut == [g \in Groups |-> Truncated(crashed[g])]
         IN
         /\ meta \cap hard \subseteq image
         /\ setup.warm /\ n # N => Warm(s)
         /\ \/ torn = {} /\ UNCHANGED left
            \/ Cardinality(torn) = 1 /\ Use("torn")
         /\ store' = Recovered(s, crashed, n, first)
         /\ files' = [g \in Groups |-> IF g \in Live(n) THEN Opened(cut[g]) ELSE cut[g]]
         /\ active' = [g \in Live(n) |-> LastIdx(Opened(cut[g]))]
         /\ meta' = image /\ hard' = image
    /\ held' = Idle /\ snap' = NoSnap
    /\ UNCHANGED <<setup, reported>>

-----------------------------------------------------------------------------
(* Operations.                                                             *)

Free(t) == held[t] = Torn
\* An operation on a topic logs its frame and holds the topic's order.
Begin(t, f) ==
    /\ Exists(store.named[t]) /\ Free(t)
    /\ Submit(f)
    /\ held' = [held EXCEPT ![t] = f]
    /\ UNCHANGED <<setup, run, meta, hard, store, snap, reported>>

Write(t) ==
    /\ Use("writes")
    /\ Begin(t, [id |-> t, kind |-> "append", seq |-> Len(store.named[t].recs) + 1])
DeleteRecord(t) ==
    /\ Use("deletes")
    /\ \E s \in DOMAIN store.named[t].recs :
         /\ store.named[t].recs[s]
         /\ Begin(t, [id |-> t, kind |-> "delete", seq |-> s])
UpdateTopic(t) ==
    /\ Use("updates")
    /\ \E c \in Configs \ {store.named[t].cfg} :
         Begin(t, [id |-> t, kind |-> "config", cfg |-> c])
\* The frame is durable: it is applied, and the operation returns.
Finish(t) ==
    /\ ~Free(t)
    /\ store' = IF held[t].kind = "config"
                THEN [store EXCEPT !.named[t].cfg = held[t].cfg]
                ELSE [store EXCEPT !.named[t] = Applied(@, held[t])]
    /\ held' = [held EXCEPT ![t] = Torn]
    /\ UNCHANGED <<setup, left, run, disk, snap, reported>>

CreateTopic(t) ==
    /\ ~Exists(store.named[t]) /\ Use("creates")
    /\ Submit([id |-> t, kind |-> "config", cfg |-> DefaultConfig])
    /\ store' = [store EXCEPT !.named[t].cfg = DefaultConfig]
    /\ UNCHANGED <<setup, run, meta, hard, held, snap, reported>>
\* PUT or DELETE of the router: its frame has no topic.
SetRouter ==
    /\ Use("routers")
    /\ Submit([id |-> 0, kind |-> "router", on |-> ~store.router])
    /\ store' = [store EXCEPT !.router = ~@]
    /\ UNCHANGED <<setup, run, meta, hard, held, snap, reported>>

-----------------------------------------------------------------------------
(* capture and write_snapshot.                                             *)

Step(from, to) == snap.pc = from /\ snap' = [snap EXCEPT !.pc = to]
Mark == [id |-> 0, kind |-> "mark"]
Marked(gs) == [g \in Groups |->
                 IF g \in gs THEN Logged(files[g], active[g], Mark) ELSE files[g]]

\* checkpoint_barrier_all: a mark in every shard, or the snapshot is given up.
SnapBarrier ==
    /\ snap.pc = "idle"
    /\ \/ /\ Use("snapshots")
          /\ files' = Marked(Live(N))
          /\ snap' = [NoSnap EXCEPT !.pc = "barrier",
                                    !.id = Max({s.id : s \in meta} \cup {0}) + 1]
       \/ /\ Use("failures")
          /\ \E ok \in SUBSET Live(N) : ok # Live(N) /\ files' = Marked(ok)
          /\ UNCHANGED snap
    /\ active' = [g \in Live(N) |-> LastIdx(files'[g])]
    /\ UNCHANGED <<setup, run, meta, hard, store, held, reported>>

\* discover_group_tails: the groups that earlier layouts left behind.
Leftovers == {g \in Groups \ Live(N) : DOMAIN files[g] # {}}
SnapPositions ==
    /\ snap.pc = "barrier"
    /\ snap' = [snap EXCEPT !.pc = "capture", !.todo = Topics,
                  !.pos = [g \in Live(N) \cup Leftovers |->
                             IF g \in Live(N)
                             THEN <<active[g], Len(files[g][active[g]])>>
                             ELSE TailOf(files[g])]]
    /\ UNCHANGED <<setup, left, run, disk, store, held, reported>>
\* A topic is captured under its lock, once nothing of it is in flight.
SnapTopic(t) ==
    /\ snap.pc = "capture" /\ t \in snap.todo /\ Free(t)
    /\ snap' = [snap EXCEPT !.todo = @ \ {t}, !.state.named[t] = store.named[t],
                            !.state.stray[t] = store.stray[t]]
    /\ UNCHANGED <<setup, left, run, disk, store, held, reported>>
SnapRouters ==
    /\ snap.pc = "capture" /\ snap.todo = {}
    /\ snap' = [snap EXCEPT !.pc = "captured", !.state.router = store.router]
    /\ UNCHANGED <<setup, left, run, disk, store, held, reported>>

\* The temporary file is written and synced; recovery never looks at it.
SnapWrite ==
    /\ \/ Step("captured", "written") /\ UNCHANGED left
       \/ Step("captured", "idle") /\ Use("failures")
    /\ UNCHANGED <<setup, run, disk, store, held, reported>>
SnapRename ==
    /\ Step("written", "renamed")
    /\ meta' = meta \cup {[id |-> snap.id, pos |-> snap.pos, state |-> snap.state]}
    /\ UNCHANGED <<setup, left, run, files, active, hard, store, held, reported>>
\* Mutant: the directory is not synced.
SnapSyncDirNot ==
    /\ Step("renamed", "synced")
    /\ UNCHANGED <<setup, left, run, disk, store, held, reported>>
SnapSyncDir ==
    /\ \/ Step("renamed", "synced") /\ hard' = meta /\ UNCHANGED left
       \/ Step("renamed", "idle") /\ Use("failures") /\ UNCHANGED hard
    /\ UNCHANGED <<setup, run, files, active, meta, store, held, reported>>
\* The older snapshots are removed; an error is ignored.
SnapPrune ==
    /\ Step("synced", "drop")
    /\ \/ meta' = {s \in meta : s.id >= snap.id} /\ UNCHANGED left
       \/ Use("failures") /\ UNCHANGED meta
    /\ reported' = snap.id
    /\ UNCHANGED <<setup, run, files, active, hard, store, held>>

\* A file below the one the position is in.
Absorbed(g, pos) == {i \in DOMAIN files[g] : i < pos[g][1]}
\* drop_absorbed_wal_files: also every file of a wal/shard-NN the layout does
\* not use.  Errors are ignored; wal/ keeps its files under several shards.
DropAbsorbed ==
    /\ Step("drop", "idle")
    /\ LET dead(g) == IF g \in Live(N) THEN Absorbed(g, snap.pos)
                      ELSE IF g = Flat THEN {} ELSE DOMAIN files[g]
       IN \E fails \in BOOLEAN :
            /\ IF fails THEN Use("failures") ELSE UNCHANGED left
            /\ files' = [g \in Groups |->
                           IF fails THEN files[g]
                           ELSE [i \in DOMAIN files[g] \ dead(g) |-> files[g][i]]]
    /\ UNCHANGED <<setup, run, active, meta, hard, store, held, reported>>

-----------------------------------------------------------------------------
Init ==
    /\ setup \in Setups /\ left = setup.bound
    /\ run = 1
    /\ files = [g \in Groups |-> IF g \in Live(N) THEN Opened(NoFiles) ELSE NoFiles]
    /\ active = [g \in Live(N) |-> 1]
    /\ meta = {} /\ hard = {}
    /\ store = Empty
    /\ held = Idle /\ snap = NoSnap /\ reported = 0

Operate(t) ==
    CreateTopic(t) \/ Write(t) \/ DeleteRecord(t) \/ UpdateTopic(t) \/ Finish(t)
Snapshot ==
    \/ SnapBarrier \/ SnapPositions \/ SnapRouters \/ SnapWrite \/ SnapRename
    \/ SnapSyncDir \/ SnapPrune \/ DropAbsorbed
    \/ \E t \in Topics : SnapTopic(t)
Next ==
    \/ \E t \in Topics : Operate(t)
    \/ SetRouter
    \/ Snapshot
    \/ Restart
Spec == Init /\ [][Next]_vars

-----------------------------------------------------------------------------
(* Properties.                                                             *)

\* A restart brings back every topic with its configuration, records and
\* deletes, and the router, whatever the number of shards before and after,
\* wherever the process died, and whatever an interrupted snapshot left; an
\* operation that was in flight happened or did not (recover_and_open,
\* capture, write_snapshot).
Outcomes(t) ==
    {store.named[t], IF Free(t) THEN store.named[t]
                     ELSE IF held[t].kind = "config"
                     THEN [store.named[t] EXCEPT !.cfg = held[t].cfg]
                     ELSE Applied(store.named[t], held[t])}
RestartKeepsAll ==
    [][run' # run =>
         /\ \A t \in Topics : store'.named[t] \in Outcomes(t)
         /\ store'.stray = store.stray
         /\ store'.router = store.router]_vars

\* The swap of snapshots is atomic: whatever a crash leaves of meta/, the
\* newest snapshot there is at least as new as the last one that
\* write_snapshot reported (write_snapshot_with).
SwapAtomic ==
    \A image \in SUBSET (meta \cup hard) :
        meta \cap hard \subseteq image => load_latest(image).id >= reported
=============================================================================
