------------------------------ MODULE Segments ------------------------------
(***************************************************************************)
(* Sealed segments of one topic (engine/segwriter.rs, storage/segstore.rs, *)
(* storage/segment.rs and the materialization of engine/topic_state.rs).   *)
(*                                                                         *)
(* A published record is fed, in seq order, to the topic's segment writer. *)
(* A full segment is put into the hot store; then the payloads leave the   *)
(* index and reads go to the caches or to the store.  A background thread  *)
(* moves old segments to the cold store, deletes flag single frames in     *)
(* place and drop dead segments, and a restart rebuilds the registry from  *)
(* the snapshot and the WAL on top of the files it finds.                  *)
(*                                                                         *)
(* A store is a directory of .data and .idx files with the semantics of    *)
(* the crash harness (storage/testfs.rs): a renamed or removed name is     *)
(* durable once its directory is synced, a written byte once the file is.  *)
(* The write pipeline up to the publication is TopicLog's.                 *)
(***************************************************************************)
EXTENDS Integers, Sequences, FiniteSets, SequencesExt

CONSTANTS
    Writers, Deleter, Relocator, Reader, Checkpointer,  \* threads
    NoProc,             \* the owner of a free lock
    MAX_SEQ,            \* bound on the seqs handed out
    RESERVE_AHEAD, CACHE_CAP, COLD_CACHE_CAP,
    Setups

\* class: "fsync" or "disk" or "memory"; writers: how many of them write;
\* max_events, max_age (0 for none), hot_retain: the segment configuration
\* (a frame has unit size, so the byte bounds are bounds on the number of
\* frames too); kill: a crash is the end of the process, not of the machine;
\* bound: how often each thing happens.
Bounds == {"writes", "rollbacks", "deletes", "relocations", "reads",
           "snapshots", "failures", "ticks", "crashes"}
Setup == [class : {"fsync", "disk", "memory"}, writers : SUBSET Writers,
          max_events : Nat \ {0}, max_age : Nat, hot_retain : Nat,
          kill : BOOLEAN, bound : [Bounds -> Nat]]
ASSUME SetupsAreSetups == Setups \subseteq Setup

Seqs == 1..MAX_SEQ
Tiers == {"hot", "cold"}
Threads == Writers \cup {Deleter, Relocator, Reader, Checkpointer}

VARIABLES
    setup, left,    \* the setup, and what is left of its bounds
    now, boot,      \* the clock, the number of restarts
    index, head_seq, reserved_head,
    written,        \* history: the payload written at each seq
    flagged,        \* history: the segment and seq of each flag that was synced
    seam,           \* materialize_seam
    writer, lock,   \* the segment writer and its mutex
    disk,           \* what a running process sees, what a power loss leaves
    wal, snap,
    pc, io, req     \* where a thread is, its pending I/O, its request

topic == <<index, head_seq, reserved_head>>
history == <<written, flagged>>
clock == <<setup, now, boot>>
vars == <<clock, left, topic, history, seam, writer, lock, disk, wal, snap,
          pc, io, req>>

Use(bound) == left[bound] > 0 /\ left' = [left EXCEPT ![bound] = @ - 1]
Goto(p, step) == pc' = [pc EXCEPT ![p] = step]
Highest(a, b) == IF a > b THEN a ELSE b
\* A payload names its restart and its seq; Null is no payload.
Null == 0
Payload(s) == (boot + 1) * (MAX_SEQ + 1) + s

-----------------------------------------------------------------------------
(* The directories.  A .data file is its frames and their delete flags, an *)
(* .idx file its number of entries.                                        *)

NoData == [pays |-> <<>>, flags |-> {}]
NoFiles == [data |-> NoData, idx |-> 0]
NoDisk == [t \in Tiers |-> [id \in Seqs |-> NoFiles]]

Io(do, t, id, arg) == [do |-> do, t |-> t, id |-> id, arg |-> arg]
put(t, id, data) ==
    <<Io("data", t, id, data), Io("idx", t, id, data), Io("dir", t, id, NoData)>>
delete(t, id) ==
    <<Io("rm_data", t, id, NoData), Io("rm_idx", t, id, NoData),
      Io("dir", t, id, NoData)>>
mark_record_deleted(t, id, s) ==
    <<Io("flip", t, id, [NoData EXCEPT !.flags = {s}]),
      Io("sync", t, id, [NoData EXCEPT !.flags = {s}])>>

\* sync_dir: the names become durable, the unsynced bytes do not.
Hardened(live, durable) ==
    [id \in Seqs |->
        [live[id] EXCEPT !.data = IF durable[id].data.pays = @.pays
                                  THEN durable[id].data ELSE @]]
Apply(d, o) ==
    CASE o.do = "data" -> [d EXCEPT !.live[o.t][o.id].data = o.arg]
      [] o.do = "idx" -> [d EXCEPT !.live[o.t][o.id].idx = Len(o.arg.pays)]
      [] o.do = "rm_data" -> [d EXCEPT !.live[o.t][o.id].data = NoData]
      [] o.do = "rm_idx" -> [d EXCEPT !.live[o.t][o.id].idx = 0]
      [] o.do = "dir" ->
           [d EXCEPT !.durable[o.t] = Hardened(d.live[o.t], @)]
      [] o.do = "flip" ->
           [d EXCEPT !.live[o.t][o.id].data.flags = @ \cup o.arg.flags]
      [] o.do = "sync" ->
           [d EXCEPT !.durable[o.t][o.id].data =
              IF @ = NoData THEN @ ELSE [@ EXCEPT !.flags = @ \cup o.arg.flags]]
ApplyAll(d, ops) == FoldLeft(Apply, d, ops)
\* FakeDisk::crash; the end of the process alone loses nothing.
PowerLoss(d) == IF setup.kill THEN d ELSE [d EXCEPT !.live = d.durable]

HasData(d, t, id) == d.live[t][id].data # NoData
HasIdx(d, t, id) == d.live[t][id].idx > 0
OnDisk(d) == {id \in Seqs : \E t \in Tiers : d.live[t][id] # NoFiles}
\* Mutant: only segments with a .data file are listed.
list_data_ids(d) == {id \in Seqs : \E t \in Tiers : HasData(d, t, id)}
list_all_ids(d) ==
    {id \in Seqs : \E t \in Tiers : HasData(d, t, id) \/ HasIdx(d, t, id)}
\* TopicTier::resolve.
resolve(d, id) ==
    CASE HasData(d, "hot", id) -> "hot"
      [] HasData(d, "cold", id) -> "cold"
      [] OTHER -> "none"
\* The frame of s in segment id of store t, through the index entry.
Frame(d, t, id, s) ==
    LET f == d.live[t][id]
        i == s - id + 1
    IN  IF i \in 1..f.idx /\ i <= Len(f.data.pays) /\ s \notin f.data.flags
        THEN f.data.pays[i] ELSE Null
\* The flagged frames of a segment that decode.
FlaggedIn(d, t, id) ==
    {s \in d.live[t][id].data.flags : s - id + 1 \in 1..d.live[t][id].idx}

-----------------------------------------------------------------------------
(* The index: base_seq and the slots.  A slot whose payload left has       *)
(* res = FALSE.                                                            *)

Slot(pay, ts) == [dead |-> FALSE, res |-> TRUE, pay |-> pay, ts |-> ts]
deleted_hole == [Slot(Null, 0) EXCEPT !.dead = TRUE]
NextSeq(ix) == ix.base + Len(ix.slots)
Present(ix) == ix.base..NextSeq(ix) - 1
At(ix, s) == ix.slots[s - ix.base + 1]
Live(ix) == {s \in Present(ix) : ~At(ix, s).dead}
is_dead(ix, s) == s < ix.base \/ (s \in Present(ix) /\ At(ix, s).dead)
OnSlots(ix, ss, Op(_)) ==
    [ix EXCEPT !.slots = [i \in DOMAIN @ |->
        IF ix.base + i - 1 \in ss THEN Op(@[i]) ELSE @[i]]]
MarkedDeleted(ix, ss) ==
    OnSlots(ix, ss, LAMBDA r : [r EXCEPT !.dead = TRUE, !.pay = Null])
\* The payloads of sealed seqs leave the index.
Freed(ix, ss) ==
    OnSlots(ix, ss, LAMBDA r :
        IF r.dead THEN r ELSE [r EXCEPT !.res = FALSE, !.pay = Null])
reclaim_front(ix) ==
    LET dead == CHOOSE n \in 0..Len(ix.slots) :
                  /\ \A i \in 1..n : ix.slots[i].dead
                  /\ n < Len(ix.slots) => ~ix.slots[n + 1].dead
    IN  [base |-> ix.base + dead, slots |-> SubSeq(ix.slots, dead + 1, Len(ix.slots))]

(* The seam: ranges reach the writer in seq order, a range that comes      *)
(* early waits.                                                            *)

Due(sm) == {r \in sm.pending : r[1] <= sm.next}
Drained(acc) ==
    IF Due(acc.seam) = {} THEN acc ELSE
    LET sm == acc.seam
        r == CHOOSE q \in Due(sm) : \A o \in Due(sm) : o[1] <= q[1]
        rest == [sm EXCEPT !.pending = @ \ {r}]
    IN  IF r[2] < sm.next THEN [acc EXCEPT !.seam = rest]
        ELSE [seam |-> [rest EXCEPT !.next = r[2] + 1],
              feed |-> Append(acc.feed, <<sm.next, r[2]>>)]
Admitted(sm, s, e) ==
    LET first ==
          CASE e < sm.next -> [seam |-> sm, feed |-> <<>>]
            [] e >= sm.next /\ s <= sm.next ->
                 [seam |-> [sm EXCEPT !.next = e + 1], feed |-> <<<<sm.next, e>>>>]
            [] OTHER ->
                 [seam |-> [sm EXCEPT !.pending = @ \cup {<<s, e>>}], feed |-> <<>>]
    IN  FoldLeft(LAMBDA acc, r : Drained(acc), first,
                 SetToSeq(first.seam.pending))

(* The writer: the active builder, the sealed registry, the two caches.    *)

NoActive == [start |-> 0, pays |-> <<>>, started |-> 0]
NewWriter == [active |-> NoActive, sealed |-> <<>>, cache |-> <<>>, cold_cache |-> <<>>]
next_seq(a) == a.start + Len(a.pays)
\* A gap, or a cap of the active segment.
ShouldSeal(w, s) ==
    /\ w.active # NoActive
    /\ \/ next_seq(w.active) # s
       \/ Len(w.active.pays) >= setup.max_events
       \/ setup.max_age > 0 /\ now - w.active.started >= setup.max_age
Pushed(w, r) ==
    [w EXCEPT !.active =
        IF @ = NoActive THEN [start |-> r.seq, pays |-> <<r.pay>>, started |-> r.ts]
        ELSE [@ EXCEPT !.pays = Append(@, r.pay)]]
Newest(cache, cap) == SubSeq(cache, Highest(1, Len(cache) - cap + 1), Len(cache))
SealedSeqs(w) == w.active.start..next_seq(w.active) - 1
\* The active segment joins the registry and its payloads the cache.
Registered(w, tier) ==
    LET a == w.active
        entries == [i \in DOMAIN a.pays |-> <<a.start + i - 1, a.pays[i]>>]
    IN  [w EXCEPT !.active = NoActive,
                  !.sealed = Append(@, [start |-> a.start, end |-> next_seq(a) - 1,
                                        tier |-> tier]),
                  !.cache = Newest(@ \o entries, CACHE_CAP)]
SealedData(w) == [NoData EXCEPT !.pays = w.active.pays]
Registry(w) == {w.sealed[i] : i \in DOMAIN w.sealed}
\* partition_point: the last segment that starts at or below s.
segment_for(w, s) ==
    LET before == {i \in DOMAIN w.sealed : w.sealed[i].start <= s}
        seg == w.sealed[CHOOSE i \in before : \A j \in before : j <= i]
    IN  IF before = {} THEN {} ELSE {g \in {seg} : s <= g.end}
Without(cache, ss) == SelectSeq(cache, LAMBDA c : c[1] \notin ss)
Cached(w, s) ==
    LET hits == SelectSeq(w.cold_cache \o w.cache, LAMBDA c : c[1] = s)
    IN  IF hits = <<>> THEN Null ELSE hits[Len(hits)][2]
\* What a read of a sealed record returns: a cache hit or the frame on disk.
Resolved(w, d, s) ==
    IF Cached(w, s) # Null THEN Cached(w, s)
    ELSE IF segment_for(w, s) = {} THEN Null
    ELSE LET id == (CHOOSE g \in segment_for(w, s) : TRUE).start
         IN  IF resolve(d, id) = "none" THEN Null ELSE Frame(d, resolve(d, id), id, s)

\* drop_segment and flag_sealed_deleted: the registry, then the files.
DeadSegments(w, ix) ==
    {g.start : g \in {g \in Registry(w) : \A s \in g.start..g.end : is_dead(ix, s)}}
Unregistered(w, ids) ==
    LET gone == UNION {g.start..g.end : g \in {g \in Registry(w) : g.start \in ids}}
    IN  [w EXCEPT !.sealed = SelectSeq(@, LAMBDA g : g.start \notin ids),
                  !.cache = Without(@, gone), !.cold_cache = Without(@, gone)]
DropIo(ids) ==
    FlattenSeq([i \in 1..Cardinality(ids) |->
        delete("hot", SetToSeq(ids)[i]) \o delete("cold", SetToSeq(ids)[i])])
\* The seqs of a sealed segment whose index entry is there.
Flaggable(w, d, ss) ==
    {s \in ss : \E g \in segment_for(w, s) :
        /\ resolve(d, g.start) # "none"
        /\ s - g.start + 1 <= d.live[resolve(d, g.start)][g.start].idx}
FlagIo(w, d, ss) ==
    LET IdOf(s) == (CHOOSE g \in segment_for(w, s) : TRUE).start
        todo == SetToSeq(Flaggable(w, d, ss))
    IN  FlattenSeq([i \in DOMAIN todo |->
          mark_record_deleted(resolve(d, IdOf(todo[i])), IdOf(todo[i]), todo[i])])
Forgotten(w, ss) ==
    [w EXCEPT !.cache = Without(@, ss), !.cold_cache = Without(@, ss)]

-----------------------------------------------------------------------------
(* Recovery, on the state it builds: the index, the head, the reservation, *)
(* the seam, the writer, the directories, the seqs just sealed and (for    *)
(* the history) the segments it removed.                                   *)

\* seal_active: a segment that is already on disk is not put again.
SealedInto(st) ==
    LET t == resolve(st.disk, st.w.active.start)
    IN  [st EXCEPT
          !.disk = IF t # "none" THEN @
                   ELSE ApplyAll(@, put("hot", st.w.active.start, SealedData(st.w))),
          !.w = Registered(@, IF t = "none" THEN "hot" ELSE t),
          !.sealed = @ \cup SealedSeqs(st.w)]
append_record(st, r) ==
    LET st1 == IF ShouldSeal(st.w, r.seq) THEN SealedInto(st) ELSE st
    IN  [st1 EXCEPT !.w = Pushed(@, r)]
Entry(ix, s) == [seq |-> s, pay |-> At(ix, s).pay, ts |-> At(ix, s).ts]
Entries(ix, s, e) ==
    LET from == Highest(s, ix.base)
        to == IF e < NextSeq(ix) THEN e ELSE NextSeq(ix) - 1
    IN  [i \in 1..Highest(0, to - from + 1) |-> Entry(ix, from + i - 1)]
attach_segwriter(st) ==
    LET fed == FoldLeft(append_record, st,
                        Entries(st.ix, st.ix.base, NextSeq(st.ix) - 1))
    IN  [fed EXCEPT !.sealed = {}, !.seam = [next |-> NextSeq(st.ix), pending |-> {}]]
\* materialize_published, inline in the replay.
Materialized(st, s) ==
    LET a == Admitted(st.seam, s, s)
        fed == FoldLeft(LAMBDA acc, r :
                          FoldLeft(append_record, acc, Entries(acc.ix, r[1], r[2])),
                        [st EXCEPT !.seam = a.seam], a.feed)
    IN  [fed EXCEPT !.ix = Freed(@, fed.sealed), !.sealed = {}]

reclaim_segments(st) ==
    LET ids == DeadSegments(st.w, st.ix)
    IN  [st EXCEPT !.w = Unregistered(@, ids), !.disk = ApplyAll(@, DropIo(ids)),
                   !.removed = @ \cup ids]
flag_sealed_deletes(st, ss) ==
    [st EXCEPT !.disk = ApplyAll(@, FlagIo(st.w, @, ss)), !.w = Forgotten(@, ss)]
delete_seqs(st, ss) ==
    LET gone == ss \cap Live(st.ix)
        marked == [st EXCEPT !.ix = reclaim_front(MarkedDeleted(@, gone))]
    IN  flag_sealed_deletes(reclaim_segments(marked), gone)

replay_frame(st, f) ==
    CASE f.kind = "append" /\ f.seq = st.head + 1 ->
           Materialized([st EXCEPT !.ix.slots = Append(@, Slot(f.pay, f.ts)),
                                   !.head = NextSeq(st.ix)], NextSeq(st.ix))
      [] f.kind = "delete" -> delete_seqs(st, f.seqs)
      [] f.kind = "head" -> [st EXCEPT !.reserved = Highest(@, f.seq)]
      [] OTHER -> st
restore_head_watermark(st) ==
    IF st.reserved <= st.head THEN st
    ELSE [st EXCEPT !.head = st.reserved,
                    !.ix.slots = @ \o [i \in 1..st.reserved - NextSeq(st.ix) + 1
                                         |-> deleted_hole]]
\* scan_ondisk_deleted, then the deletes it finds.
apply_ondisk_segment_deletes(st) ==
    LET ids == {id \in Seqs : resolve(st.disk, id) # "none"}
        gone == UNION {FlaggedIn(st.disk, resolve(st.disk, id), id) : id \in ids}
    IN  [st EXCEPT !.ix = reclaim_front(MarkedDeleted(@, gone \cap Live(@)))]
reclaim_orphans_below(st) ==
    LET ids == {id \in list_all_ids(st.disk) :
                  id < st.ix.base /\ id \notin {g.start : g \in Registry(st.w)}}
    IN  [st EXCEPT !.disk = ApplyAll(@, DropIo(ids)), !.removed = @ \cup ids]
reclaim_segments_on_recovery(st) ==
    reclaim_orphans_below(reclaim_segments(apply_ondisk_segment_deletes(st)))

\* restore_topic: holes between the live records, none after the last.
RestoredIndex(sn) ==
    LET last == IF sn.recs = <<>> THEN sn.base - 1 ELSE sn.recs[Len(sn.recs)].seq
        Of(q) == SelectSeq(sn.recs, LAMBDA r : r.seq = q)
    IN  [base |-> sn.base,
         slots |-> [i \in 1..last - sn.base + 1 |->
                      LET r == Of(sn.base + i - 1)
                      IN IF r = <<>> THEN deleted_hole ELSE Slot(r[1].pay, r[1].ts)]]
Recovered(sn, frames, d) ==
    LET fresh == [ix |-> RestoredIndex(sn), head |-> sn.head, reserved |-> sn.head,
                  seam |-> [next |-> 1, pending |-> {}], w |-> NewWriter,
                  disk |-> d, sealed |-> {}, removed |-> {}]
        replayed == FoldLeft(replay_frame, attach_segwriter(fresh), frames)
    IN  reclaim_segments_on_recovery(restore_head_watermark(replayed))

-----------------------------------------------------------------------------
(* Threads.                                                                *)

NoSegment == [start |-> 0, end |-> 0, tier |-> "none"]
NoReq == [range |-> <<1, 0>>, feed |-> <<>>, pending |-> <<>>, seqs |-> {},
          ids |-> <<>>, seg |-> NoSegment, pay |-> Null, pos |-> 0,
          base |-> 1, head |-> 0]
Init ==
    /\ setup \in Setups /\ left = setup.bound
    /\ now = 0 /\ boot = 0
    /\ index = [base |-> 1, slots |-> <<>>] /\ head_seq = 0 /\ reserved_head = 0
    /\ written = [s \in Seqs |-> Null] /\ flagged = {}
    /\ seam = [next |-> 1, pending |-> {}]
    /\ writer = NewWriter /\ lock = NoProc
    /\ disk = [live |-> NoDisk, durable |-> NoDisk]
    /\ wal = [frames |-> <<>>, synced |-> 0]
    /\ snap = [base |-> 1, head |-> 0, recs |-> <<>>]
    /\ pc = [p \in Threads |-> "idle"] /\ io = [p \in Threads |-> <<>>]
    /\ req = [p \in Threads |-> NoReq]

Set(p, r) == req' = [req EXCEPT ![p] = r]
Return(p) == Goto(p, "idle") /\ Set(p, NoReq)
Acquire(p) == lock = NoProc /\ lock' = p
Release(p) == lock = p /\ lock' = NoProc
Start(p, ops) == io' = [io EXCEPT ![p] = ops]
Finished(p) == io[p] = <<>> /\ UNCHANGED io
files == <<disk, io>>
logs == <<wal, snap>>
Frames(fs, durable) ==
    LET all == wal.frames \o fs
    IN  wal' = [frames |-> all, synced |-> IF durable THEN Len(all) ELSE wal.synced]

\* One file operation of a put, of a delete or of a flag.
DoIo(p) ==
    /\ io[p] # <<>>
    /\ disk' = Apply(disk, Head(io[p]))
    /\ io' = [io EXCEPT ![p] = Tail(@)]
    /\ UNCHANGED <<clock, left, topic, history, seam, writer, lock, logs, pc, req>>

\* A batch is published: its frames, its slots and its head.
Publish(p) ==
    /\ pc[p] = "idle" /\ p \in setup.writers /\ Use("writes")
    /\ \E n \in 1..2 :
         LET start == NextSeq(index)
             end == start + n - 1
             batch == [i \in 1..n |-> [kind |-> "append", seq |-> start + i - 1,
                         pay |-> Payload(start + i - 1), ts |-> now, seqs |-> {}]]
             ahead == CHOOSE h \in {end + RESERVE_AHEAD, MAX_SEQ} :
                        h <= end + RESERVE_AHEAD /\ h <= MAX_SEQ
             reserves == setup.class = "disk" /\ end > reserved_head
             reservation == [batch[1] EXCEPT !.kind = "head", !.seq = ahead]
         IN
         /\ end <= MAX_SEQ
         /\ IF reserves
            THEN /\ wal' = [frames |-> wal.frames \o <<reservation>> \o batch,
                            synced |-> Len(wal.frames) + 1]
                 /\ reserved_head' = ahead
            ELSE Frames(batch, setup.class = "fsync") /\ UNCHANGED reserved_head
         /\ index' = [index EXCEPT !.slots =
                        @ \o [i \in 1..n |-> Slot(batch[i].pay, now)]]
         /\ head_seq' = end
         /\ written' = [s \in Seqs |-> IF s \in start..end THEN Payload(s)
                                       ELSE written[s]]
         /\ Set(p, [NoReq EXCEPT !.range = <<start, end>>])
    /\ Goto(p, "admit")
    /\ UNCHANGED <<clock, flagged, seam, writer, lock, files, snap>>

\* A commit fails while a later batch is staged: its slot is a hole.
Rollback ==
    /\ Use("rollbacks") /\ NextSeq(index) < MAX_SEQ
    /\ index' = [index EXCEPT !.slots = Append(@, deleted_hole)]
    /\ UNCHANGED <<clock, head_seq, reserved_head, history, seam, writer, lock,
                   files, logs, pc, req>>

\* materialize_published: under the seam, which range may go on.
Admit(p) ==
    /\ pc[p] = "admit"
    /\ LET a == Admitted(seam, req[p].range[1], req[p].range[2]) IN
       /\ seam' = a.seam
       /\ IF a.feed = <<>> THEN Return(p)
          ELSE Goto(p, "feed") /\ Set(p, [NoReq EXCEPT !.feed = a.feed])
    /\ UNCHANGED <<clock, left, topic, history, writer, lock, files, logs>>

\* materialize_segment: the values are read, the writer is locked later.
Collect(p) ==
    /\ pc[p] = "feed" /\ Goto(p, "lock")
    /\ LET r == Head(req[p].feed) IN
       Set(p, [req[p] EXCEPT !.feed = Tail(@), !.pending = Entries(index, r[1], r[2])])
    /\ UNCHANGED <<clock, left, topic, history, seam, writer, lock, files, logs>>

Lock(p) ==
    /\ pc[p] = "lock" /\ Acquire(p) /\ Goto(p, "append")
    /\ UNCHANGED <<clock, left, topic, history, seam, writer, files, logs, req>>

Feeding(p) == pc[p] = "append" /\ req[p].pending # <<>>
Sealing(p) == Feeding(p) /\ ShouldSeal(writer, Head(req[p].pending).seq)
AppendRecord(p) ==
    /\ Feeding(p) /\ ~Sealing(p)
    /\ writer' = Pushed(writer, Head(req[p].pending))
    /\ Set(p, [req[p] EXCEPT !.pending = Tail(@)])
    /\ UNCHANGED <<clock, left, topic, history, seam, lock, files, logs, pc>>

\* seal_active finds the segment in a store.
SealExisting(p) ==
    /\ Sealing(p) /\ resolve(disk, writer.active.start) # "none"
    /\ writer' = Registered(writer, resolve(disk, writer.active.start))
    /\ Set(p, [req[p] EXCEPT !.seqs = @ \cup SealedSeqs(writer)])
    /\ UNCHANGED <<clock, left, topic, history, seam, lock, files, logs, pc>>

SealPut(p) ==
    /\ Sealing(p) /\ resolve(disk, writer.active.start) = "none"
    /\ Start(p, put("hot", writer.active.start, SealedData(writer)))
    /\ Goto(p, "put")
    /\ UNCHANGED <<clock, left, topic, history, seam, writer, lock, disk, logs, req>>

SealDone(p) ==
    /\ pc[p] = "put" /\ Finished(p) /\ Goto(p, "append")
    /\ writer' = Registered(writer, "hot")
    /\ Set(p, [req[p] EXCEPT !.seqs = @ \cup SealedSeqs(writer)])
    /\ UNCHANGED <<clock, left, topic, history, seam, lock, disk, logs>>

\* Mutant: a failed put registers the segment all the same.
SealFailsKept(p) ==
    /\ pc[p] = "put" /\ io[p] # <<>> /\ Use("failures") /\ Goto(p, "append")
    /\ Start(p, <<>>)
    /\ writer' = Registered(writer, "hot")
    /\ Set(p, [req[p] EXCEPT !.seqs = @ \cup SealedSeqs(writer)])
    /\ UNCHANGED <<clock, topic, history, seam, lock, disk, logs>>
\* put fails: the builder is gone, the payloads stay in the index.
SealFails(p) ==
    /\ pc[p] = "put" /\ io[p] # <<>> /\ Use("failures") /\ Goto(p, "append")
    /\ Start(p, <<>>)
    /\ writer' = [writer EXCEPT !.active = NoActive]
    /\ UNCHANGED <<clock, topic, history, seam, lock, disk, logs, req>>

Unlock(p) ==
    /\ pc[p] = "append" /\ req[p].pending = <<>> /\ Release(p) /\ Goto(p, "free")
    /\ UNCHANGED <<clock, left, topic, history, seam, writer, files, logs, req>>

Free(p) ==
    /\ pc[p] = "free"
    /\ index' = Freed(index, req[p].seqs)
    /\ IF req[p].feed = <<>> THEN Return(p)
       ELSE Goto(p, "feed") /\ Set(p, [req[p] EXCEPT !.seqs = {}])
    /\ UNCHANGED <<clock, left, head_seq, reserved_head, history, seam, writer,
                   lock, files, logs>>

-----------------------------------------------------------------------------
(* Deletes: explicit seqs or a prefix, below the head.                     *)

Victims == LET live == {s \in Live(index) : s < head_seq}
           IN  {{s} : s \in live} \cup {{t \in live : t <= s} : s \in live}
Delete ==
    /\ pc[Deleter] = "idle" /\ Use("deletes")
    /\ \E ss \in Victims :
         /\ Frames(<<[kind |-> "delete", seq |-> 0, pay |-> Null, ts |-> now,
                      seqs |-> ss]>>, setup.class = "fsync")
         /\ index' = reclaim_front(MarkedDeleted(index, ss))
         /\ Set(Deleter, [NoReq EXCEPT !.seqs = ss])
    /\ Goto(Deleter, "plan")
    /\ UNCHANGED <<clock, head_seq, reserved_head, history, seam, writer, lock,
                   files, snap>>

\* reclaim_segments plans under one lock and drops under another.
ReclaimPlan ==
    /\ pc[Deleter] = "plan" /\ lock = NoProc
    /\ LET ids == DeadSegments(writer, index) IN
       /\ Goto(Deleter, IF ids = {} THEN "flag" ELSE "drop")
       /\ Set(Deleter, [req[Deleter] EXCEPT !.ids = SetToSeq(ids)])
    /\ UNCHANGED <<clock, left, topic, history, seam, writer, lock, files, logs>>

DropSegments ==
    /\ pc[Deleter] = "drop" /\ Acquire(Deleter) /\ Goto(Deleter, "dropping")
    /\ LET ids == {g.start : g \in Registry(writer)} \cap ToSet(req[Deleter].ids) IN
       /\ writer' = Unregistered(writer, ids) /\ Start(Deleter, DropIo(ids))
       /\ flagged' = {f \in flagged : f[1] \notin ids}
    /\ UNCHANGED <<clock, left, topic, written, seam, disk, logs, req>>

Dropped ==
    /\ pc[Deleter] = "dropping" /\ Finished(Deleter)
    /\ Release(Deleter) /\ Goto(Deleter, "flag")
    /\ UNCHANGED <<clock, left, topic, history, seam, writer, disk, logs, req>>

FlagDeleted ==
    /\ pc[Deleter] = "flag" /\ Acquire(Deleter) /\ Goto(Deleter, "flagging")
    /\ Start(Deleter, FlagIo(writer, disk, req[Deleter].seqs))
    /\ Set(Deleter, [req[Deleter] EXCEPT !.seqs = Flaggable(writer, disk, @)])
    /\ UNCHANGED <<clock, left, topic, history, seam, writer, disk, logs>>

Flagged ==
    /\ pc[Deleter] = "flagging" /\ Finished(Deleter)
    /\ Release(Deleter) /\ Return(Deleter)
    /\ writer' = Forgotten(writer, req[Deleter].seqs)
    /\ flagged' = flagged \cup
         {<<(CHOOSE g \in segment_for(writer, s) : TRUE).start, s>> : s \in req[Deleter].seqs}
    /\ UNCHANGED <<clock, left, topic, written, seam, disk, logs>>

-----------------------------------------------------------------------------
(* The relocator: plan, copy without the lock, confirm.                    *)

RelocatePlan ==
    /\ pc[Relocator] = "idle" /\ Use("relocations") /\ lock = NoProc
    /\ LET old == SubSeq(writer.sealed, 1, Len(writer.sealed) - setup.hot_retain)
           plan == SelectSeq(old, LAMBDA g : g.tier = "hot")
       IN
       /\ plan # <<>>
       /\ Set(Relocator, [NoReq EXCEPT !.ids = [i \in DOMAIN plan |-> plan[i].start]])
    /\ Goto(Relocator, "copy")
    /\ UNCHANGED <<clock, topic, history, seam, writer, lock, files, logs>>

Target == Head(req[Relocator].ids)
NextTarget ==
    IF Len(req[Relocator].ids) = 1 THEN Return(Relocator)
    ELSE /\ Goto(Relocator, "copy")
         /\ Set(Relocator, [req[Relocator] EXCEPT !.ids = Tail(@)])

\* copy_segment_to_cold: done already, or a put of what the hot store holds,
\* or an error when the hot store has lost it.
Copy ==
    /\ pc[Relocator] = "copy"
    /\ CASE HasData(disk, "cold", Target) /\ HasIdx(disk, "cold", Target) ->
              Goto(Relocator, "confirm") /\ UNCHANGED <<io, req>>
         [] HasData(disk, "hot", Target) /\ HasIdx(disk, "hot", Target)
            /\ ~(HasData(disk, "cold", Target) /\ HasIdx(disk, "cold", Target)) ->
              /\ Start(Relocator, put("cold", Target, disk.live["hot"][Target].data))
              /\ Goto(Relocator, "copying") /\ UNCHANGED req
         [] OTHER -> NextTarget /\ UNCHANGED io
    /\ UNCHANGED <<clock, left, topic, history, seam, writer, lock, disk, logs>>

Copied ==
    /\ pc[Relocator] = "copying" /\ Finished(Relocator) /\ Goto(Relocator, "confirm")
    /\ UNCHANGED <<clock, left, topic, history, seam, writer, lock, disk, logs, req>>

CopyFails ==
    /\ pc[Relocator] = "copying" /\ io[Relocator] # <<>> /\ Use("failures")
    /\ Start(Relocator, <<>>) /\ NextTarget
    /\ UNCHANGED <<clock, topic, history, seam, writer, lock, disk, logs>>

\* Mutant: the flags set during the copy stay behind.
NoPropagation(d, id) == <<>>
propagate_hot_delflags_to_cold(d, id) ==
    LET seqs == SetToSeq(FlaggedIn(d, "hot", id))
    IN  FlattenSeq([i \in DOMAIN seqs |-> mark_record_deleted("cold", id, seqs[i])])
\* confirm_relocated: the pointer, the flags, then the hot copy.
Confirm ==
    /\ pc[Relocator] = "confirm" /\ lock = NoProc
    /\ IF \E g \in Registry(writer) : g.start = Target /\ g.tier = "hot"
       THEN /\ lock' = Relocator /\ Goto(Relocator, "confirming")
            /\ writer' = [writer EXCEPT !.sealed = [i \in DOMAIN @ |->
                            IF @[i].start = Target THEN [@[i] EXCEPT !.tier = "cold"]
                            ELSE @[i]]]
            /\ Start(Relocator, propagate_hot_delflags_to_cold(disk, Target)
                                  \o delete("hot", Target))
            /\ UNCHANGED req
       ELSE NextTarget /\ UNCHANGED <<lock, writer, io>>
    /\ UNCHANGED <<clock, left, topic, history, seam, disk, logs>>

Confirmed ==
    /\ pc[Relocator] = "confirming" /\ Finished(Relocator) /\ Release(Relocator)
    /\ LET g == CHOOSE g \in Registry(writer) : g.start = Target
       IN  writer' = [writer EXCEPT !.cache = Without(@, g.start..g.end)]
    /\ NextTarget
    /\ UNCHANGED <<clock, left, topic, history, seam, disk, logs>>

-----------------------------------------------------------------------------
(* A read that misses the caches, and a checkpoint.                        *)

Locate ==
    /\ pc[Reader] = "idle" /\ lock = NoProc /\ Use("reads")
    /\ \E s \in Live(index) :
         /\ s <= head_seq /\ ~At(index, s).res /\ Cached(writer, s) = Null
         /\ \E g \in segment_for(writer, s) :
              Set(Reader, [NoReq EXCEPT !.seg = g, !.seqs = {s}])
    /\ Goto(Reader, "open")
    /\ UNCHANGED <<clock, topic, history, seam, writer, lock, files, logs>>

\* read_locator picks the store, then reads it.
OpenStore ==
    /\ pc[Reader] = "open"
    /\ LET t == resolve(disk, req[Reader].seg.start) IN
       IF t = "none" THEN Return(Reader)
       ELSE Goto(Reader, "read") /\ Set(Reader, [req[Reader] EXCEPT !.ids = <<t>>])
    /\ UNCHANGED <<clock, left, topic, history, seam, writer, lock, files, logs>>

ReadFrame ==
    /\ pc[Reader] = "read"
    /\ LET s == CHOOSE s \in req[Reader].seqs : TRUE
           pay == Frame(disk, req[Reader].ids[1], req[Reader].seg.start, s)
       IN  IF pay = Null THEN Return(Reader)
           ELSE Goto(Reader, "fold") /\ Set(Reader, [req[Reader] EXCEPT !.pay = pay])
    /\ UNCHANGED <<clock, left, topic, history, seam, writer, lock, files, logs>>

record_cold_read ==
    /\ pc[Reader] = "fold" /\ lock = NoProc
    /\ LET s == CHOOSE s \in req[Reader].seqs : TRUE IN
       writer' = IF req[Reader].seg.tier # "cold" THEN writer
                 ELSE [writer EXCEPT !.cold_cache =
                         Newest(Append(@, <<s, req[Reader].pay>>), COLD_CACHE_CAP)]
    /\ Return(Reader)
    /\ UNCHANGED <<clock, left, topic, history, seam, lock, files, logs>>

Position ==
    /\ pc[Checkpointer] = "idle" /\ Use("snapshots")
    /\ Frames(<<>>, TRUE)
    /\ Set(Checkpointer, [NoReq EXCEPT !.pos = Len(wal.frames)])
    /\ Goto(Checkpointer, "capture")
    /\ UNCHANGED <<clock, topic, history, seam, writer, lock, files, snap>>

\* capture_topic: the live slots, with the payloads that are in the index.
Capture ==
    /\ pc[Checkpointer] = "capture" /\ Goto(Checkpointer, "resolve")
    /\ Set(Checkpointer, [req[Checkpointer] EXCEPT
             !.base = index.base, !.head = head_seq,
             !.pending = SelectSeq(Entries(index, index.base, head_seq),
                                   LAMBDA r : r.seq \in Live(index))])
    /\ UNCHANGED <<clock, left, topic, history, seam, writer, lock, files, logs>>

\* Mutant: payloads that left the index are not looked up.
CapturedPayloadSlot(r) == r.pay
CapturedPayload(r) == IF r.pay # Null THEN r.pay ELSE Resolved(writer, disk, r.seq)
\* The other payloads are resolved; the snapshot replaces the frames.
Install ==
    /\ pc[Checkpointer] = "resolve" /\ lock = NoProc
    /\ LET c == req[Checkpointer] IN
       /\ snap' = [base |-> c.base, head |-> c.head,
                   recs |-> [i \in DOMAIN c.pending |->
                      [c.pending[i] EXCEPT !.pay = CapturedPayload(c.pending[i])]]]
       /\ wal' = [frames |-> SubSeq(wal.frames, c.pos + 1, Len(wal.frames)),
                  synced |-> wal.synced - c.pos]
    /\ Return(Checkpointer)
    /\ UNCHANGED <<clock, left, topic, history, seam, writer, lock, files>>

Tick ==
    /\ Use("ticks") /\ now' = now + 1
    /\ UNCHANGED <<setup, boot, topic, history, seam, writer, lock, files, logs,
                   pc, req>>

\* The process or the machine stops, and comes back.
Crash ==
    /\ Use("crashes") /\ boot' = boot + 1
    /\ \E n \in (IF setup.kill THEN {Len(wal.frames)} ELSE wal.synced..Len(wal.frames)) :
         LET frames == SubSeq(wal.frames, 1, n)
             st == Recovered(snap, frames, PowerLoss(disk))
         IN
         /\ index' = st.ix /\ head_seq' = st.head /\ reserved_head' = st.reserved
         /\ seam' = st.seam /\ writer' = st.w /\ disk' = st.disk
         /\ wal' = [frames |-> frames, synced |-> n]
         /\ flagged' = {f \in flagged : f[1] \notin st.removed}
    /\ lock' = NoProc
    /\ pc' = [p \in Threads |-> "idle"] /\ io' = [p \in Threads |-> <<>>]
    /\ req' = [p \in Threads |-> NoReq]
    /\ UNCHANGED <<setup, now, written, snap>>

Write(p) ==
    Publish(p) \/ Admit(p) \/ Collect(p) \/ Lock(p) \/ AppendRecord(p)
    \/ SealExisting(p) \/ SealPut(p) \/ SealDone(p) \/ SealFails(p) \/ Unlock(p)
    \/ Free(p)
Reclaim == ReclaimPlan \/ DropSegments \/ Dropped \/ FlagDeleted \/ Flagged
Relocate == RelocatePlan \/ Copy \/ Copied \/ CopyFails \/ Confirm \/ Confirmed
Read == Locate \/ OpenStore \/ ReadFrame \/ record_cold_read
Checkpoint == Position \/ Capture \/ Install
Next ==
    \/ \E p \in Threads : DoIo(p)
    \/ \E p \in Writers : Write(p)
    \/ Rollback \/ Delete \/ Reclaim \/ Relocate \/ Read \/ Checkpoint
    \/ Tick \/ Crash
Spec == Init /\ [][Next]_vars

-----------------------------------------------------------------------------
(* Properties.                                                             *)

\* A live record whose payload left the index is read back as it was written.
ReadBack ==
    \A s \in Live(index) :
        s <= head_seq /\ ~At(index, s).res => Resolved(writer, disk, s) = written[s]

\* With one writer at a time, and a crash that loses what was not synced:
\* through a seal, a failed put, a relocation, the drop of its neighbours and a
\* restart, the caches or the store that the tier serves hold the payload of
\* every live record whose payload left the index.
OneWriter == Cardinality(setup.writers) = 1 /\ ~setup.kill /\ setup.class # "memory"
Readable == OneWriter => ReadBack

\* The snapshot never holds an empty or a foreign payload for a record that is
\* still live (the comment of capture_topic).
SnapshotHolds ==
    OneWriter => \A i \in DOMAIN snap.recs :
        snap.recs[i].seq \in Live(index) => snap.recs[i].pay = written[snap.recs[i].seq]

\* A delete flag that was synced stays on the copy a reader or a recovery
\* finds: neither the copy to the cold store, which runs without the lock, nor
\* a crash in any of its steps loses it.
FlagsHold ==
    \A f \in flagged :
        LET t == resolve(disk, f[1])
        IN  t # "none" => f[2] \in disk.live[t][f[1]].data.flags

\* A restart leaves no file of a dead segment behind: below the base every
\* file, a lone .idx included, belongs to a registered segment.
NoOrphans ==
    [][boot' # boot =>
         \A id \in OnDisk(disk') :
            id >= index'.base \/ id \in {g.start : g \in Registry(writer')}]_vars
=============================================================================
