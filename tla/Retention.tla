----------------------------- MODULE Retention -----------------------------
(***************************************************************************)
(* Retention of one topic: the TTL, the record cap and the byte cap        *)
(* (engine/topic_state.rs, engine/eviction.rs), the requests that run a    *)
(* retention pass (write, delete, diff, put_topic and the checkpoint of    *)
(* engine/mod.rs and engine/snapshot.rs), idempotent writes, and what a    *)
(* restart makes of the floors (engine/recovery.rs).                       *)
(*                                                                         *)
(* A pass plans the new floors, hardens them in the WAL if they cannot be  *)
(* derived again, commits them and reclaims the front: four critical       *)
(* sections between which other requests run.  The topic is of the fsync   *)
(* class; the commit protocol itself is in module TopicLog.                *)
(***************************************************************************)
EXTENDS Integers, Sequences, FiniteSets, SequencesExt

CONSTANTS
    Procs,          \* request threads
    NoProc,         \* the owner of a free lock
    Reader,         \* the thread that reads with diff
    Keys,           \* idempotency keys
    NoKey,          \* a write without one
    Setups          \* the configuration and the requests of a behaviour

ASSUME NamesDiffer == Reader \notin Procs /\ NoProc \notin Procs \cup {Reader}
                      /\ NoKey \notin Keys

Config == [ttl : Nat, cap_records : Nat, cap_bytes : Nat]
\* config and relaxed: the configuration before and after an update; reject:
\* discard = "reject"; sizes: the bytes of a record; window: the idempotency
\* window; quota: max_total_bytes; the rest bounds the requests, the clock, the
\* failed watermarks and the crashes.
Setup == [config : Config, relaxed : Config, reject : BOOLEAN,
          sizes : SUBSET (Nat \ {0}), keyed : BOOLEAN, window : Nat,
          quota : Nat, writes : Nat, deletes : Nat, updates : Nat,
          snapshots : Nat, diffs : Nat, clock : Nat, back : BOOLEAN,
          failures : Nat, crashes : Nat]
ASSUME SetupsAreSetups == Setups \subseteq Setup

VARIABLES
    setup, left,    \* the setup, and what is left of each of its bounds
    now,            \* the wall clock
    config,         \* the live configuration
    base_seq, records, head_seq,   \* the index, as in TopicLog
    floors,         \* evict_floor, expiry_floor and delete_floor
    bytes_retained, live_count,    \* the counters of the topic
    total_bytes,    \* the byte gauge of the engine
    append_lock,    \* its owner
    tickets,        \* requests in the publish gate, in order
    gates,          \* owner of each key's in-flight gate
    dedupe,         \* remembered writes: key -> [seqs, at] or NoEntry
    pc, op, plan,   \* where each thread is, its request, its retention plan
    log, synced,    \* the WAL, and how much of it is hardened
    snap,           \* the last durable snapshot
    \* History: what the reader was told, and what was removed on request.
    silent, erased, hard, peak, answers

index == <<base_seq, records, head_seq>>
counters == <<bytes_retained, live_count, total_bytes>>
requests == <<pc, op, plan>>
idem == <<gates, dedupe>>
wal == <<log, synced>>
history == <<silent, erased, hard, peak, answers>>
bounds == <<setup, left, now>>
vars == <<index, counters, requests, idem, wal, history, bounds, config, floors,
          append_lock, tickets, snap>>

Threads == Procs \cup {Reader}
NoEntry == [seqs |-> {}, at |-> 0]
NoOp == [kind |-> "none", key |-> NoKey, now |-> 0, bytes |-> 0, seq |-> 0,
         before |-> 0, bound |-> 0, pos |-> 0, head |-> 0, earliest |-> 0,
         evict |-> 0, clean |-> TRUE]
NoPlan == [evict |-> 0, expiry |-> 0, head |-> 0, durable |-> FALSE,
           advanced |-> FALSE]
Do(step) == <<"do", step>>
NoFloors == [evict |-> 0, expiry |-> 0, delete |-> 0]

Init ==
    /\ setup \in Setups /\ left = setup /\ now = 1
    /\ config = setup.config
    /\ base_seq = 1 /\ records = <<>> /\ head_seq = 0 /\ floors = NoFloors
    /\ bytes_retained = 0 /\ live_count = 0 /\ total_bytes = 0
    /\ append_lock = NoProc /\ tickets = <<>>
    /\ gates = [k \in Keys |-> NoProc] /\ dedupe = [k \in Keys |-> NoEntry]
    /\ pc = [p \in Threads |-> Do("idle")]
    /\ op = [p \in Threads |-> NoOp] /\ plan = [p \in Threads |-> NoPlan]
    /\ log = <<>> /\ synced = 0
    /\ snap = [pos |-> 0, base |-> 1, head |-> 0, live |-> <<>>,
               floors |-> NoFloors, bytes |-> 0, count |-> 0,
               config |-> setup.config]
    /\ silent = {} /\ erased = {} /\ hard = 0 /\ peak = 0 /\ answers = {}

Use(bound) == left[bound] > 0 /\ left' = [left EXCEPT ![bound] = @ - 1]

-----------------------------------------------------------------------------
(* The index and its counters.  A topic is a record [base, recs, head,     *)
(* floors, bytes, count], so that a restart can replay into one.           *)

Slot(ts, bytes) == [ts |-> ts, bytes |-> bytes, deleted |-> FALSE]
Topic == [base |-> base_seq, recs |-> records, head |-> head_seq,
          floors |-> floors, bytes |-> bytes_retained, count |-> live_count]
SeqsOf(t) == t.base..t.base + Len(t.recs) - 1
At(t, s) == t.recs[s - t.base + 1]
Live(t) == {s \in SeqsOf(t) : ~At(t, s).deleted}
BytesOf(t, seqs) == FoldLeft(LAMBDA n, s : n + At(t, s).bytes, 0,
                             SetToSeq(seqs))
\* saturating_sub.
Less(a, b) == IF a > b THEN a - b ELSE 0
Highest(a, b) == IF a > b THEN a ELSE b
Lowest(a, b) == IF a < b THEN a ELSE b

\* mark_deleted: the slot stays as a hole without bytes.
MarkedDeleted(t, seqs) ==
    [t EXCEPT !.recs = [i \in DOMAIN @ |->
                          IF t.base + i - 1 \in seqs
                          THEN [@[i] EXCEPT !.bytes = 0, !.deleted = TRUE]
                          ELSE @[i]],
              !.bytes = Less(@, BytesOf(t, seqs)),
              !.count = Less(@, Cardinality(seqs))]

\* Mutant: a TTL loss is not told apart from a delete.
LossFloorCapOnly(f) == f.evict
\* Floors: the involuntary floor, and the first retained seq.
LossFloor(f) == Highest(f.evict, f.expiry)
FloorsEarliest(f, head) ==
    Lowest(Highest(LossFloor(f), f.delete) + 1, head + 1)
evict_earliest_seq(t) == Lowest(LossFloor(t.floors) + 1, t.head + 1)
earliest_seq(t) ==
    Lowest(Highest(FloorsEarliest(t.floors, t.head), t.base), t.head + 1)

\* reclaim_front: drop what is below the floors, and the deleted run behind it.
DeadSlots(t, head) ==
    LET below == Lowest(Less(FloorsEarliest(t.floors, head), t.base),
                        Len(t.recs))
    IN  Max({k \in below..Len(t.recs) :
               \A i \in below + 1..k : t.recs[i].deleted})
FrontReclaimed(t, head) ==
    LET n == DeadSlots(t, head)
        gone == {s \in SeqsOf(t) : s < t.base + n}
    IN  [t EXCEPT !.base = @ + n, !.recs = SubSeq(@, n + 1, Len(@)),
                  !.bytes = Less(@, BytesOf(t, gone)),
                  !.count = Less(@, Cardinality(gone \cap Live(t)))]
BytesIn(t) == BytesOf(t, SeqsOf(t))

-----------------------------------------------------------------------------
(* The plan of a retention pass.                                           *)

Expired(ttl, at, ts) == ttl > 0 /\ at - ts > ttl
\* TTL: the longest expired prefix, staged records included.
ExpiryPlan(t, cfg, at) ==
    LET k == Max({n \in 0..Len(t.recs) :
                    \A i \in 1..n : Expired(cfg.ttl, at, t.recs[i].ts)})
    IN  IF k = 0 THEN t.floors.expiry
        ELSE Highest(t.floors.expiry, t.base + k - 1)
CapPlan(t, cfg) ==
    IF cfg.cap_records = 0 THEN t.floors.evict
    ELSE Highest(t.floors.evict, Less(t.head, cfg.cap_records))
\* Bytes: evict the oldest records until the counter would be within the cap.
BytesPlan(t, cfg, evict, expiry) ==
    LET over == Less(t.bytes, cfg.cap_bytes)
        cur == Highest(evict, expiry)
        rest == {s \in SeqsOf(t) : s > cur}
        enough == {s \in rest : BytesOf(t, {r \in rest : r <= s}) >= over}
    IN  IF cfg.cap_bytes = 0 \/ over = 0 \/ rest = {} THEN evict
        ELSE Highest(evict, IF enough = {} THEN Max(rest) ELSE Min(enough))

Bounded(cfg) == cfg.ttl > 0 \/ cfg.cap_records > 0 \/ cfg.cap_bytes > 0
\* Mutant: a byte-cap floor is taken to be derivable.
PlanOfTtlOnly(t, cfg, at) ==
    IF t.head = 0 \/ ~Bounded(cfg) THEN NoPlan
    ELSE LET expiry == ExpiryPlan(t, cfg, at)
             evict == BytesPlan(t, cfg, CapPlan(t, cfg), expiry)
         IN  [evict |-> evict, expiry |-> expiry, head |-> t.head,
              advanced |-> expiry > t.floors.expiry \/ evict > t.floors.evict,
              durable |-> expiry > t.floors.expiry]
\* enforce_retention_hardened up to the commit.
PlanOf(t, cfg, at) ==
    IF t.head = 0 \/ ~Bounded(cfg) THEN NoPlan
    ELSE LET expiry == ExpiryPlan(t, cfg, at)
             capped == CapPlan(t, cfg)
             evict == BytesPlan(t, cfg, capped, expiry)
         IN  [evict |-> evict, expiry |-> expiry, head |-> t.head,
              advanced |-> expiry > t.floors.expiry \/ evict > t.floors.evict,
              durable |-> expiry > t.floors.expiry \/ evict > capped]

\* The commit only raises floors.
FloorsRaised(t, pl) ==
    [t EXCEPT !.floors.evict = Highest(@, pl.evict),
              !.floors.expiry = Highest(@, pl.expiry)]
\* A pass without hardening: deletes, and replay.
enforce_retention(t, cfg, at) ==
    LET pl == PlanOf(t, cfg, at)
    IN  IF pl = NoPlan THEN t
        ELSE FrontReclaimed(FloorsRaised(t, pl), pl.head)

-----------------------------------------------------------------------------
(* The steps of a hardened pass.  pc is <<phase, what follows>> while a    *)
(* thread runs one; the request fails if the watermark does.               *)

Phases == {"plan", "harden", "commit", "reclaim"}
\* What a request does after its pass.
Follows == {"admit", "record", "enqueue", "return", "sample", "capture"}
InPass(p, phase) == pc[p] \in {<<phase, f>> : f \in Follows}
Goto(p, phase) == pc' = [pc EXCEPT ![p] = <<phase, pc[p][2]>>]
Arrive(p) == pc' = [pc EXCEPT ![p] = Do(pc[p][2])]

SetTopic(t) ==
    /\ base_seq' = t.base /\ records' = t.recs /\ head_seq' = t.head
    /\ floors' = t.floors /\ bytes_retained' = t.bytes /\ live_count' = t.count

\* The diff under way learns that another request got between its reads.
Disturbed(ops, phases) ==
    IF pc[Reader] \in phases THEN [ops EXCEPT ![Reader].clean = FALSE] ELSE ops

Plan(p) ==
    /\ InPass(p, "plan")
    /\ LET pl == PlanOf(Topic, config, op[p].now) IN
       /\ plan' = [plan EXCEPT ![p] = pl]
       /\ \/ pl = NoPlan /\ Arrive(p)
          \/ pl # NoPlan /\ pl.durable /\ Goto(p, "harden")
          \/ pl # NoPlan /\ ~pl.durable /\ Goto(p, "commit")
    /\ UNCHANGED <<index, counters, op, idem, wal, history, bounds, config,
                   floors, append_lock, tickets, snap>>

\* log_evict_watermark: an fsynced frame, which hardens what precedes it.
Watermark(pl) == [kind |-> "evict", evict |-> pl.evict, expiry |-> pl.expiry]
Harden(p) ==
    /\ InPass(p, "harden")
    /\ log' = Append(log, Watermark(plan[p]))
    /\ synced' = Len(log')
    /\ Goto(p, "commit")
    /\ UNCHANGED <<index, counters, op, plan, idem, history, bounds, config,
                   floors, append_lock, tickets, snap>>

Answer(p, a) ==
    answers' = answers \cup {[answer |-> a, key |-> op[p].key, seq |-> op[p].seq,
                              from |-> op[p].now, at |-> now]}
\* What a failing request lets go of.
Released(p) ==
    /\ pc' = [pc EXCEPT ![p] = Do("idle")] /\ op' = [op EXCEPT ![p] = NoOp]
    /\ plan' = [plan EXCEPT ![p] = NoPlan]
    /\ gates' = [k \in Keys |-> IF gates[k] = p THEN NoProc ELSE gates[k]]
    /\ append_lock' = IF append_lock = p THEN NoProc ELSE append_lock
\* The fsync fails: nothing is evicted and the request fails.
HardenFails(p) ==
    /\ InPass(p, "harden") /\ Use("failures")
    /\ Released(p)
    /\ Answer(p, "error")
    /\ UNCHANGED <<index, counters, dedupe, wal, silent, erased, hard, peak,
                   setup,
                   now, config, floors, tickets, snap>>

\* What no later pass derives again: TTL and byte-cap evictions.
NotDerivable(pl) ==
    Highest(pl.expiry, IF setup.config.cap_records = 0 THEN pl.evict ELSE 0)
\* A pass that moves no floor still reclaims the front.
Commit(p) ==
    /\ InPass(p, "commit")
    /\ floors' = FloorsRaised(Topic, plan[p]).floors
    /\ hard' = Highest(hard, NotDerivable(plan[p]))
    /\ peak' = Highest(peak, LossFloor(floors'))
    /\ op' = IF plan[p].advanced THEN Disturbed(op, {Do("walk")}) ELSE op
    /\ Goto(p, "reclaim")
    /\ UNCHANGED <<index, counters, plan, idem, wal, silent, erased, answers,
                   bounds, config, append_lock, tickets, snap>>

\* Mutant: what a pass reclaims stays reserved.
GaugeKept(t) == total_bytes
GaugeAfter(t) == Less(total_bytes, BytesIn(Topic) - BytesIn(t))
Reclaim(p) ==
    /\ InPass(p, "reclaim")
    /\ LET t == FrontReclaimed(Topic, plan[p].head) IN
       /\ SetTopic(t)
       /\ total_bytes' = GaugeAfter(t)
       /\ op' = IF t # Topic THEN Disturbed(op, {Do("walk")}) ELSE op
    /\ plan' = [plan EXCEPT ![p] = NoPlan]
    /\ Arrive(p)
    /\ UNCHANGED <<idem, wal, history, bounds, config, append_lock, tickets,
                   snap>>

Pass(p) == Plan(p) \/ Harden(p) \/ HardenFails(p) \/ Commit(p) \/ Reclaim(p)

-----------------------------------------------------------------------------
(* write.                                                                  *)

Idle(p) == pc[p] = Do("idle")
\* The request reads the clock, and waits for its key's gate.
Write(p, key, bytes) ==
    /\ Idle(p) /\ Use("writes")
    /\ (key # NoKey) = setup.keyed
    /\ op' = [op EXCEPT ![p] = [NoOp EXCEPT !.kind = "write", !.key = key,
                                            !.now = now, !.bytes = bytes]]
    /\ pc' = [pc EXCEPT ![p] = IF key = NoKey THEN <<"plan", "admit">>
                               ELSE Do("gate")]
    /\ UNCHANGED <<index, counters, plan, idem, wal, history, setup, now,
                   config, floors, append_lock, tickets, snap>>

\* Mutant: the gate is not exclusive.
GateOpen(p) == TRUE
GateFree(p) == gates[op[p].key] = NoProc
\* Under the gate: prune stale entries; a hit returns the remembered seqs.
Fresh(p, k) == dedupe[k] # NoEntry /\ op[p].now - dedupe[k].at <= setup.window
Gate(p) ==
    /\ pc[p] = Do("gate") /\ GateFree(p)
    /\ dedupe' = [k \in Keys |-> IF Fresh(p, k) THEN dedupe[k] ELSE NoEntry]
    /\ IF Fresh(p, op[p].key)
       THEN /\ pc' = [pc EXCEPT ![p] = Do("idle")] /\ op' = [op EXCEPT ![p] = NoOp]
            /\ Answer(p, "deduped") /\ UNCHANGED gates
       ELSE /\ pc' = [pc EXCEPT ![p] = <<"plan", "admit">>]
            /\ gates' = [gates EXCEPT ![op[p].key] = p]
            /\ UNCHANGED <<op, answers>>
    /\ UNCHANGED <<index, counters, plan, wal, silent, erased, hard, peak,
                   bounds,
                   config, floors, append_lock, tickets, snap>>

\* eviction::admit, and the record that no topic of this cap can hold.
Admitted(p) ==
    ~setup.reject \/ (/\ config.cap_records > 0 =>
                           live_count + 1 <= config.cap_records
                      /\ config.cap_bytes > 0 =>
                           bytes_retained + op[p].bytes <= config.cap_bytes)
\* cas_reserve_bytes.
Reserved(p) == setup.quota = 0 \/ total_bytes + op[p].bytes <= setup.quota
Refuse(p) ==
    /\ pc[p] = Do("admit") /\ ~(Admitted(p) /\ Reserved(p))
    /\ Released(p) /\ Answer(p, "refused")
    /\ UNCHANGED <<index, counters, dedupe, wal, silent, erased, hard, peak,
                   bounds,
                   config, floors, tickets, snap>>
Admit(p) ==
    /\ pc[p] = Do("admit") /\ Admitted(p) /\ Reserved(p)
    /\ total_bytes' = total_bytes + (IF setup.quota = 0 THEN 0 ELSE op[p].bytes)
    /\ pc' = [pc EXCEPT ![p] = Do("stage")]
    /\ UNCHANGED <<index, bytes_retained, live_count, op, plan, idem, wal,
                   history, bounds, config, floors, append_lock, tickets, snap>>
\* Under the append lock: stage_append, the frame and the ticket.
Stage(p) ==
    /\ pc[p] = Do("stage") /\ append_lock = NoProc
    /\ records' = Append(records, Slot(op[p].now, op[p].bytes))
    /\ LET seq == base_seq + Len(records) IN
       /\ op' = [op EXCEPT ![p].seq = seq]
       /\ log' = Append(log, [kind |-> "append", seq |-> seq,
                              ts |-> op[p].now, bytes |-> op[p].bytes])
    /\ tickets' = Append(tickets, p)
    /\ pc' = [pc EXCEPT ![p] = Do("publish")]
    /\ UNCHANGED <<base_seq, head_seq, counters, plan, idem, synced, history,
                   bounds, config, floors, append_lock, snap>>

\* The frame is hardened and it is this ticket's turn: publish_staged_no_seal,
\* then the pass for discard = "old".
Turn(p) == tickets # <<>> /\ Head(tickets) = p
FrameOf(p) == Max({i \in DOMAIN log : log[i].kind = "append"
                                      /\ log[i].seq = op[p].seq})
Publish(p) ==
    /\ pc[p] = Do("publish") /\ Turn(p)
    /\ head_seq' = op[p].seq
    /\ synced' = Highest(synced, FrameOf(p))
    /\ op' = Disturbed(op, {<<f, "sample">> : f \in Phases \cup {"do"}})
    /\ pc' = [pc EXCEPT ![p] = Do("count")]
    /\ UNCHANGED <<base_seq, records, counters, plan, idem, log, history,
                   bounds, config, floors, append_lock, tickets, snap>>
\* The counters follow the head; done() lets the next ticket in.
Count(p) ==
    /\ pc[p] = Do("count")
    /\ bytes_retained' = bytes_retained + op[p].bytes
    /\ live_count' = live_count + 1
    /\ tickets' = Tail(tickets)
    /\ pc' = [pc EXCEPT ![p] = <<"plan", "record">>]
    /\ UNCHANGED <<index, total_bytes, op, plan, idem, wal, history, bounds,
                   config, floors, append_lock, snap>>

\* Remember the key, open the gate, answer.
Record(p) ==
    /\ pc[p] = Do("record")
    /\ dedupe' = IF op[p].key = NoKey THEN dedupe
                 ELSE [dedupe EXCEPT ![op[p].key] =
                         [seqs |-> {op[p].seq}, at |-> op[p].now]]
    /\ Released(p) /\ Answer(p, "ok")
    /\ UNCHANGED <<index, counters, wal, silent, erased, hard, peak,
                   bounds, config,
                   floors, tickets, snap>>

-----------------------------------------------------------------------------
(* delete, put_topic and the checkpoint.                                   *)

Delete(p, before) ==
    /\ Idle(p) /\ Use("deletes") /\ append_lock = NoProc
    /\ append_lock' = p
    /\ op' = [op EXCEPT ![p] = [NoOp EXCEPT !.kind = "delete", !.now = now,
                                            !.before = before]]
    /\ pc' = [pc EXCEPT ![p] = <<"plan", "enqueue">>]
    /\ UNCHANGED <<index, counters, plan, idem, wal, history, setup, now,
                   config, floors, tickets, snap>>
\* apply_delete_stats with before_seq: a pass, the marks, the floor, the front.
Doomed(t, before, bound) ==
    {s \in Live(t) : s >= earliest_seq(t) /\ s < Lowest(before, bound)}
apply_delete(t, cfg, before, bound, at) ==
    LET swept == enforce_retention(t, cfg, at)
        marked == MarkedDeleted(swept, Doomed(swept, before, bound))
    IN  FrontReclaimed(
            [marked EXCEPT !.floors.delete =
                             Highest(@, Less(Lowest(before, bound), 1))],
            marked.head)
\* The point-in-time bound, the frame and the ticket.
DeleteEnqueue(p) ==
    /\ pc[p] = Do("enqueue")
    /\ op' = [op EXCEPT ![p].bound = head_seq + 1]
    /\ log' = Append(log, [kind |-> "delete", before |-> op[p].before,
                           bound |-> head_seq + 1, ts |-> op[p].now])
    /\ erased' = erased \cup Doomed(Topic, op[p].before, head_seq + 1)
    /\ tickets' = Append(tickets, p)
    /\ append_lock' = NoProc
    /\ pc' = [pc EXCEPT ![p] = Do("apply")]
    /\ UNCHANGED <<index, counters, plan, idem, synced, silent, hard, peak,
                   answers,
                   bounds, config, floors, snap>>

DeleteApply(p) ==
    /\ pc[p] = Do("apply") /\ Turn(p)
    /\ synced' = Len(log)
    /\ LET t == apply_delete(Topic, config, op[p].before, op[p].bound,
                             op[p].now)
       IN  /\ SetTopic(t)
           /\ total_bytes' = GaugeAfter(t)
           /\ op' = Disturbed([op EXCEPT ![p] = NoOp], {Do("walk")})
    /\ tickets' = Tail(tickets)
    /\ pc' = [pc EXCEPT ![p] = Do("idle")]
    /\ UNCHANGED <<plan, idem, log, history, bounds, config, append_lock, snap>>

\* The update of put_topic: the frame first, then the swap and a pass, under
\* the append lock.
Update(p) ==
    /\ Idle(p) /\ Use("updates") /\ append_lock = NoProc
    /\ append_lock' = p
    /\ log' = Append(log, [kind |-> "config", config |-> setup.relaxed])
    /\ synced' = Len(log')
    /\ config' = setup.relaxed
    /\ op' = [Disturbed(op, {pc[Reader]}) EXCEPT
                ![p] = [NoOp EXCEPT !.kind = "update", !.now = now]]
    /\ pc' = [pc EXCEPT ![p] = <<"plan", "return">>]
    /\ UNCHANGED <<index, counters, plan, idem, history, setup, now, floors,
                   tickets, snap>>
Return(p) ==
    /\ pc[p] = Do("return")
    /\ Released(p)
    /\ UNCHANGED <<index, counters, dedupe, wal, history, bounds, config,
                   floors, tickets, snap>>

\* capture: the barrier and the position, a pass, then the quiesced topic.
Checkpoint(p) ==
    /\ Idle(p) /\ Use("snapshots")
    /\ synced' = Len(log)
    /\ op' = [op EXCEPT ![p] = [NoOp EXCEPT !.kind = "snap", !.now = now,
                                            !.pos = Len(log)]]
    /\ pc' = [pc EXCEPT ![p] = <<"plan", "capture">>]
    /\ UNCHANGED <<index, counters, plan, idem, log, history, setup, now,
                   config, floors, append_lock, tickets, snap>>
Capture(p) ==
    /\ pc[p] = Do("capture") /\ append_lock = NoProc /\ tickets = <<>>
    /\ snap' = [pos |-> op[p].pos, base |-> base_seq, head |-> head_seq,
                live |-> records, floors |-> floors, bytes |-> bytes_retained,
                count |-> live_count, config |-> config]
    /\ Released(p)
    /\ UNCHANGED <<index, counters, dedupe, wal, history, bounds, config,
                   floors, tickets>>

-----------------------------------------------------------------------------
(* diff: a pass, then the head, the earliest seq, the involuntary floor    *)
(* and the walk, each read on its own.                                     *)

Diff(from) ==
    /\ Idle(Reader) /\ Use("diffs")
    /\ op' = [op EXCEPT ![Reader] = [NoOp EXCEPT !.kind = "diff", !.now = now,
                                                 !.seq = from]]
    /\ pc' = [pc EXCEPT ![Reader] = <<"plan", "sample">>]
    /\ UNCHANGED <<index, counters, plan, idem, wal, history, setup, now,
                   config, floors, append_lock, tickets, snap>>
ReaderAt(from, to) ==
    pc[Reader] = Do(from) /\ pc' = [pc EXCEPT ![Reader] = Do(to)]
SampleHead ==
    /\ ReaderAt("sample", "earliest")
    /\ op' = [op EXCEPT ![Reader].head = head_seq]
    /\ UNCHANGED <<index, counters, plan, idem, wal, history, bounds, config,
                   floors, append_lock, tickets, snap>>
SampleEarliest ==
    /\ ReaderAt("earliest", "evict")
    /\ op' = [op EXCEPT ![Reader].earliest = earliest_seq(Topic)]
    /\ UNCHANGED <<index, counters, plan, idem, wal, history, bounds, config,
                   floors, append_lock, tickets, snap>>
SampleEvict ==
    /\ ReaderAt("evict", "walk")
    /\ op' = [op EXCEPT ![Reader].evict = evict_earliest_seq(Topic)]
    /\ UNCHANGED <<index, counters, plan, idem, wal, history, bounds, config,
                   floors, append_lock, tickets, snap>>

\* Where the walk starts: behind a gap that a tombstone reports.
InFuture(r) == r.seq > r.head
Lost(r) == ~InFuture(r) /\ r.seq + 1 < r.evict
Gap(r) == IF Lost(r) THEN r.seq + 1..r.evict - 1 ELSE {}
WalkFrom(r) ==
    IF InFuture(r) THEN r.earliest - 1
    ELSE IF Lost(r) THEN Highest(r.earliest - 1, r.seq) ELSE r.seq
\* filters::evaluate on a slot that is still there.
Delivered(r) ==
    {s \in Live(Topic) : /\ s > WalkFrom(r) /\ s <= r.head
                         /\ ~Expired(config.ttl, r.now, At(Topic, s).ts)}
\* What the cursor passes without a record or a tombstone, and nobody asked
\* to remove.
Skipped(r) ==
    {s \in r.seq + 1..r.head : s \notin Delivered(r) \cup Gap(r) \cup erased}
\* The stamps of the appends are in the order of their seqs.
Appends == {i \in DOMAIN log : log[i].kind = "append"}
Ordered == \A i, j \in Appends : i < j => log[i].ts <= log[j].ts
Walk ==
    /\ ReaderAt("walk", "idle")
    /\ LET r == op[Reader] IN
       silent' = silent \cup {[seq |-> s, clean |-> r.clean /\ Ordered] :
                                s \in Skipped(r)}
    /\ op' = [op EXCEPT ![Reader] = NoOp]
    /\ UNCHANGED <<index, counters, plan, idem, wal, erased, hard, peak, answers,
                   bounds, config, floors, append_lock, tickets, snap>>

-----------------------------------------------------------------------------
(* The clock and the restart.                                              *)

Tick ==
    /\ Use("clock") /\ now' = now + 1
    /\ UNCHANGED <<index, counters, requests, idem, wal, history, setup, config,
                   floors, append_lock, tickets, snap>>
StepBack ==
    /\ setup.back /\ Use("clock") /\ now > 1 /\ now' = 1
    /\ UNCHANGED <<index, counters, requests, idem, wal, history, setup, config,
                   floors, append_lock, tickets, snap>>

\* replay_frame, into [topic, config].  A config update runs a pass too.
replay_frame(t, f) ==
    CASE f.kind = "append" /\ f.seq = t.topic.head + 1 ->
           [t EXCEPT !.topic.recs = Append(@, Slot(f.ts, f.bytes)),
                     !.topic.head = f.seq, !.topic.bytes = @ + f.bytes,
                     !.topic.count = @ + 1]
      [] f.kind = "delete" ->
           [t EXCEPT !.topic = apply_delete(@, t.config, f.before, f.bound, f.ts)]
      [] f.kind = "config" ->
           [topic |-> enforce_retention(t.topic, f.config, now),
            config |-> f.config]
      [] f.kind = "evict" ->
           [t EXCEPT !.topic.floors.evict = Highest(@, f.evict),
                     !.topic.floors.expiry = Highest(@, f.expiry)]
      [] OTHER -> t
\* restore_topic.  (A snapshot without holes: deletes here take prefixes.)
Restored ==
    [topic |-> [base |-> snap.base, recs |-> snap.live, head |-> snap.head,
                floors |-> snap.floors, bytes |-> snap.bytes,
                count |-> snap.count],
     config |-> snap.config]
Crash ==
    /\ Use("crashes")
    /\ \E n \in synced..Len(log) :
         LET r == FoldLeft(replay_frame, Restored, SubSeq(log, snap.pos + 1, n))
         IN  /\ log' = SubSeq(log, 1, n) /\ synced' = n
             /\ SetTopic(r.topic) /\ config' = r.config
             /\ total_bytes' = r.topic.bytes
    /\ append_lock' = NoProc /\ tickets' = <<>>
    /\ gates' = [k \in Keys |-> NoProc] /\ dedupe' = [k \in Keys |-> NoEntry]
    /\ pc' = [p \in Threads |-> Do("idle")] /\ op' = [p \in Threads |-> NoOp]
    /\ plan' = [p \in Threads |-> NoPlan]
    /\ answers' = {}
    /\ UNCHANGED <<snap, silent, erased, hard, peak,
                   setup, now>>

-----------------------------------------------------------------------------
Request(p) ==
    \/ \E key \in Keys \cup {NoKey}, bytes \in setup.sizes : Write(p, key, bytes)
    \/ \E before \in 2..head_seq + 1 : Delete(p, before)
    \/ Update(p) \/ Checkpoint(p)
Serve(p) ==
    \/ Gate(p) \/ Refuse(p) \/ Admit(p) \/ Stage(p) \/ Publish(p) \/ Count(p)
    \/ Record(p)
    \/ DeleteEnqueue(p) \/ DeleteApply(p) \/ Return(p) \/ Capture(p)
Read ==
    \/ \E from \in 0..head_seq + 1 : Diff(from)
    \/ SampleHead \/ SampleEarliest \/ SampleEvict \/ Walk
Next ==
    \/ \E p \in Procs : Request(p) \/ Serve(p)
    \/ \E p \in Threads : Pass(p)
    \/ Read \/ Tick \/ StepBack \/ Crash

Spec == Init /\ [][Next]_vars

-----------------------------------------------------------------------------
(* Properties.                                                             *)

\* A diff passes over nothing in silence: a record the cursor passes is
\* delivered, lies in the gap of a tombstone, or was deleted on request -- when
\* the stamps are in order and no other pass moved the floors or the front
\* between the reads of the diff.
NoSilentLoss == \A s \in silent : ~s.clean

\* The contract of DESIGN.md without these two conditions.
NeverSilent == silent = {}

\* A record below a TTL or byte floor that was committed is never live again: no
\* relaxed cap, no clock that steps back, no crash between the watermark
\* and the reclaim brings it back (R7).
NoResurrection ==
    \A s \in Live(Topic) : s <= hard /\ s <= head_seq => s < earliest_seq(Topic)

\* The byte gauge is exact: it counts the records of the index, staged ones
\* included, and the reservations that are about to be staged; none is leaked or
\* released twice.
Reservations == {p \in Procs : pc[p] = Do("stage")}
GaugeExact ==
    setup.quota > 0 =>
      total_bytes = FoldLeft(LAMBDA n, p : n + op[p].bytes, BytesIn(Topic),
                             SetToSeq(Reservations))

\* A key is appended once per window: of two writes acknowledged with the same
\* key and different seqs, one is answered after the other, when the window of
\* the other has passed.
Outlasts(a, b) == a.at <= b.at /\ b.at - a.from > setup.window
KeyedOnce ==
    \A a, b \in answers :
        (/\ a.answer = "ok" /\ b.answer = "ok" /\ a.key = b.key
         /\ a.key # NoKey /\ a.seq # b.seq)
        => Outlasts(a, b) \/ Outlasts(b, a)

\* An eviction outlives the cap that caused it: once the caps are lifted, no
\* pass raises the floor again, so the floor must still be where it was.
EvictedStayGone == ~Bounded(config) => LossFloor(floors) >= peak
=============================================================================
