------------------------------ MODULE Routing ------------------------------
(***************************************************************************)
(* The catalog of topics and routers and the derived forwarding between    *)
(* topics (engine/mod.rs, engine/router.rs), driven by the ready set of    *)
(* sched.rs, by reads of a destination and by recovery.                    *)
(*                                                                         *)
(* A forwarded record has no WAL frame: after a restart the destination is *)
(* derived again from the source log and the cursor of the router.  A      *)
(* thread that forwards holds the router's advance lock, reads the router, *)
(* walks the source, appends to the destination and only then moves the    *)
(* cursor; the requests that change the catalog run between these steps.   *)
(* A write of a topic is one step here: TopicLog models its pipeline.      *)
(***************************************************************************)
EXTENDS Integers, Sequences, FiniteSets, SequencesExt

CONSTANTS
    Names, Routers,     \* topic names, router names
    Worker, Reader,     \* the background worker, a reader of a destination
    Clients,            \* threads that write and change the catalog
    NoProc,             \* the owner of a free lock
    MAX_ROUTER_HOPS, ROUTER_BATCH,
    Setups              \* the topology and the requests of a behaviour

\* topics, routers: the catalog at the start; clients: the threads in use;
\* written: the topics they write to;
\* filter: routers forward tagged records only; exactly_once: their guarantee;
\* cap: cap_records of a destination with discard = "reject", 0 for none;
\* allow_cycle, max_topics, max_routers; puts: the routers a client may put;
\* racing: retention may run in the middle of a pass; bound: how often each
\* thing happens.
Bounds == {"writes", "reads", "trims", "deletes", "topic_puts", "topic_deletes",
           "router_puts", "router_deletes", "snapshots", "failures", "crashes"}
Setup == [topics : SUBSET Names, routers : [Routers -> Seq(Names)],
          clients : SUBSET Clients, written : SUBSET Names,
          filter : BOOLEAN, exactly_once : BOOLEAN, allow_cycle : BOOLEAN, cap : Nat,
          racing : BOOLEAN, max_topics : Nat, max_routers : Nat, puts : SUBSET (Routers \X Seq(Names)),
          bound : [Bounds -> Nat]]
ASSUME SetupsAreSetups == Setups \subseteq Setup

VARIABLES
    setup, left,    \* the setup, and what is left of its bounds
    topics,         \* name -> topic or Absent
    topic_count, next_topic_id, create_lock,
    graph,          \* the routers, their cursors and forwarded_total
    advance_locks,  \* owner of each router's advance lock
    ready, sched_dirty,     \* the ready set, and the flag of each topic
    pc, req,        \* where each thread is, and its request
    adv, jobs,      \* of a driver: its advance pass, the routers still to drive
    todo,           \* topics the worker drained
    log, snap       \* the WAL, the last snapshot

catalog == <<topics, topic_count, next_topic_id, graph>>
locks == <<create_lock, advance_locks>>
sched == <<ready, sched_dirty>>
passes == <<adv, jobs, todo>>
disk == <<log, snap>>
vars == <<setup, left, catalog, locks, sched, pc, req, passes, disk>>

Drivers == {Worker, Reader}
Checkpointer == "checkpointer"
Threads == Drivers \cup Clients \cup {Checkpointer}
NoRouter == <<>>
Absent == [id |-> 0, slots |-> <<>>, evict |-> 0, trim |-> 0]
Empty(id) == [Absent EXCEPT !.id = id]
NoReq == [name |-> NoProc, id |-> 0, router |-> NoProc, def |-> NoRouter,
          cursor |-> 0, created |-> FALSE, names |-> <<>>, pos |-> 0, heads |-> {}]
NoAdv == [step |-> "none", router |-> NoProc, def |-> NoRouter, src |-> 0,
          dst |-> 0, head |-> 0, cursor |-> 0, consumed |-> 0, forwarded |-> 0,
          again |-> FALSE]
Use(bound) == left[bound] > 0 /\ left' = [left EXCEPT ![bound] = @ - 1]
Lowest(a, b) == IF a < b THEN a ELSE b
Goto(p, step) == pc' = [pc EXCEPT ![p] = step]
Return(p) == Goto(p, "idle") /\ req' = [req EXCEPT ![p] = NoReq]

-----------------------------------------------------------------------------
(* Topics and the router graph.  A slot names the write it comes from, the *)
(* key of its forwarding (router, source topic id, source seq) and its     *)
(* hops; a hole stands for a source record that was trimmed before it was  *)
(* forwarded.                                                              *)

Record(w, tag) ==
    [w |-> w, tag |-> tag, key |-> <<>>, hops |-> 0, dead |-> FALSE]
Hole == [Record(0, FALSE) EXCEPT !.dead = TRUE]
HeadOf(t) == Len(t.slots)
Extended(t, recs) == [t EXCEPT !.slots = @ \o recs]
\* note_source_trim, once per trimmed record.
Holed(t, n) ==
    [t EXCEPT !.slots = @ \o [i \in 1..n |-> Hole], !.trim = HeadOf(t) + n]
\* Live records above the floors.
Visible(t) == {s \in DOMAIN t.slots : ~t.slots[s].dead /\ s > t.evict /\ s > t.trim}
Present(ts) == {n \in Names : ts[n] # Absent}

Has(g, r) == g.routers[r] # NoRouter
Source(def) == def[1]
Dest(def) == def[2]
routers_touching_topic(g, n) ==
    {r \in Routers : Has(g, r) /\ n \in {Source(g.routers[r]), Dest(g.routers[r])}}
routers_for_source(g, n) == {r \in Routers : Has(g, r) /\ Source(g.routers[r]) = n}
Feeding(g, n) == {r \in Routers : Has(g, r) /\ Dest(g.routers[r]) = n}

\* note_forwarded inserts its entries whether or not the router is there.
note_forwarded(g, r, cursor, count) ==
    [g EXCEPT !.cursor[r] = cursor, !.total[r] = @ + count]
remove(g, rs) ==
    [routers |-> [r \in Routers |-> IF r \in rs THEN NoRouter ELSE g.routers[r]],
     cursor |-> [r \in Routers |-> IF r \in rs THEN 0 ELSE g.cursor[r]],
     total |-> [r \in Routers |-> IF r \in rs THEN 0 ELSE g.total[r]]]

\* The topics reached from a topic over the routers other than r.
Reached(g, r, from) ==
    LET edges == {g.routers[q] : q \in {q \in Routers \ {r} : Has(g, q)}}
        Step(ns) == ns \cup {Dest(e) : e \in {e \in edges : Source(e) \in ns}}
    IN  FoldLeft(LAMBDA ns, n : Step(ns), {from}, SetToSeq(Names))
would_create_cycle(g, r, def) == Source(def) \in Reached(g, r, Dest(def))
Capped(g, r) ==
    /\ setup.max_routers # 0 /\ ~Has(g, r)
    /\ Cardinality({q \in Routers : Has(g, q)}) >= setup.max_routers
\* upsert_capped refuses.
Refused(g, r, def) ==
    Capped(g, r) \/ (~setup.allow_cycle /\ would_create_cycle(g, r, def))

-----------------------------------------------------------------------------
(* What one pass of advance_router forwards, consumes and defers.          *)

router_idempotency_key(r, src, s) == <<r, src.id, s>>
Forwarded(src, r, s) ==
    [src.slots[s] EXCEPT !.key = router_idempotency_key(r, src, s), !.hops = @ + 1]
\* The destination has no room for one record after `more` pending ones.
Full(t, more) == setup.cap > 0 /\ Cardinality(Visible(t)) + more >= setup.cap
\* The idempotency keys of the destination hold the record's.
Keyed(dst, key) ==
    setup.exactly_once /\ \E i \in Visible(dst) : dst.slots[i].key = key
\* Reclaimed, deleted, at the hop cap or not matched: consumed, not forwarded.
Passed(t, s) ==
    \/ s <= t.evict \/ t.slots[s].dead
    \/ t.slots[s].hops >= MAX_ROUTER_HOPS
    \/ setup.filter /\ ~t.slots[s].tag
Nothing == [out |-> <<>>, consumed |-> 0, forwarded |-> 0, deferred |-> FALSE]
Consume(acc) == [acc EXCEPT !.consumed = @ + 1]
Forward(acc, rec) ==
    [Consume(acc) EXCEPT !.out = Append(@, rec), !.forwarded = @ + 1]
\* Mutant: a full destination consumes the record.
VisitDrop(src, dst, r, acc, s) ==
    IF acc.deferred THEN acc
    ELSE IF Passed(src, s) \/ Full(dst, Len(acc.out)) THEN Consume(acc)
    ELSE IF Keyed(dst, router_idempotency_key(r, src, s))
         THEN [Consume(acc) EXCEPT !.forwarded = @ + 1]
    ELSE Forward(acc, Forwarded(src, r, s))
Visit(src, dst, r, acc, s) ==
    IF acc.deferred THEN acc
    ELSE IF Passed(src, s) THEN Consume(acc)
    ELSE IF Keyed(dst, router_idempotency_key(r, src, s))
         THEN [Consume(acc) EXCEPT !.forwarded = @ + 1]
    ELSE IF Full(dst, Len(acc.out)) THEN [acc EXCEPT !.deferred = TRUE]
    ELSE Forward(acc, Forwarded(src, r, s))
Walk(src, dst, r, cursor, last) ==
    FoldLeft(LAMBDA acc, s : Visit(src, dst, r, acc, s), Nothing,
             [i \in 1..last - cursor |-> cursor + i])

\* The same pass on a recovered catalog, up to the head of the source.
AdvanceFully(c, r) ==
    IF ~Has(c.graph, r) THEN c ELSE
    LET def == c.graph.routers[r]
        src == c.topics[Source(def)]
        dst == c.topics[Dest(def)]
        cursor == c.graph.cursor[r]
        lost == IF src.evict > cursor THEN src.evict - cursor ELSE 0
        holed == IF lost > 0 THEN Holed(dst, lost) ELSE dst
        w == Walk(src, holed, r, cursor + lost, HeadOf(src))
    IN  IF src = Absent \/ dst = Absent \/ cursor >= HeadOf(src) THEN c
        ELSE [topics |-> [c.topics EXCEPT ![Dest(def)] = Extended(holed, w.out)],
              graph |-> note_forwarded(c.graph, r, cursor + lost + w.consumed,
                                       lost + w.forwarded)]
\* Router after router, as many rounds as the longest way of a record.
reforward_routers_on_recovery(c) ==
    LET Round(x) == FoldLeft(AdvanceFully, x, SetToSeq(Routers))
    IN  FoldLeft(LAMBDA x, i : Round(x), c, [i \in 1..MAX_ROUTER_HOPS |-> i])

-----------------------------------------------------------------------------
(* Recovery: the snapshot, the frames after its position, the routers.     *)

\* What a frame of a topic does to it.
Replayed(t, f) ==
    CASE f.kind = "append" ->
           IF f.seq = HeadOf(t) + 1 THEN Extended(t, <<f.rec>>) ELSE t
      [] f.kind = "delete" ->
           [t EXCEPT !.slots = [s \in DOMAIN @ |->
                                  [@[s] EXCEPT !.dead = @ \/ s = f.seq]]]
      [] f.kind = "evict" -> [t EXCEPT !.evict = IF @ < f.floor THEN f.floor ELSE @]
\* A frame names its topic by id.
OnTopic(c, f) ==
    [c EXCEPT !.topics = [n \in Names |-> IF @[n] # Absent /\ @[n].id = f.id
                                          THEN Replayed(@[n], f) ELSE @[n]]]
replay_frame(c, f) ==
    CASE f.kind = "topic" /\ c.topics[f.name] = Absent ->
           [c EXCEPT !.topics[f.name] = Empty(f.id)]
      [] f.kind = "tombstone" ->
           [topics |-> [c.topics EXCEPT ![f.name] = Absent],
            graph |-> remove(c.graph, routers_touching_topic(c.graph, f.name))]
      [] f.kind \in {"append", "delete", "evict"} -> OnTopic(c, f)
      [] f.kind = "router" ->
           LET g == [c.graph EXCEPT !.routers[f.name] = f.def]
           IN  [c EXCEPT !.graph = IF Has(c.graph, f.name) THEN g
                                   ELSE note_forwarded(g, f.name, f.cursor, 0)]
      [] f.kind = "unrouter" -> [c EXCEPT !.graph = remove(@, {f.name})]
      [] OTHER -> c
Behind(l, pos) == SubSeq(l, pos + 1, Len(l))
Recovered ==
    reforward_routers_on_recovery(
      FoldLeft(replay_frame, [topics |-> snap.topics, graph |-> snap.graph],
               Behind(log, snap.pos)))
\* The id allocator stays ahead of the snapshot's and of every replayed id.
NextId ==
    FoldLeft(LAMBDA n, f : IF f.kind = "topic" /\ f.id >= n THEN f.id + 1 ELSE n,
             snap.next, Behind(log, snap.pos))

-----------------------------------------------------------------------------
NoTopics == [n \in Names |-> Absent]
NoGraph == [routers |-> [r \in Routers |-> NoRouter],
            cursor |-> [r \in Routers |-> 0], total |-> [r \in Routers |-> 0]]
TopicFrame(id, n) == [kind |-> "topic", id |-> id, name |-> n]
RouterFrame(r, def, cursor) ==
    [kind |-> "router", name |-> r, def |-> def, cursor |-> cursor]
\* The frames that made the catalog of the start.
FirstFrames(s) ==
    LET names == SetToSeq(s.topics)
        rs == SetToSeq({r \in Routers : s.routers[r] # NoRouter})
    IN  [i \in 1..Len(names) |-> TopicFrame(i, names[i])]
        \o [i \in 1..Len(rs) |-> RouterFrame(rs[i], s.routers[rs[i]], 0)]
Init ==
    /\ setup \in Setups /\ left = setup.bound
    /\ log = FirstFrames(setup)
    /\ snap = [pos |-> 0, topics |-> NoTopics, graph |-> NoGraph, next |-> 1]
    /\ LET c == FoldLeft(replay_frame, [topics |-> NoTopics, graph |-> NoGraph], log)
       IN  topics = c.topics /\ graph = c.graph
    /\ topic_count = Cardinality(setup.topics)
    /\ next_topic_id = Cardinality(setup.topics) + 1
    /\ create_lock = NoProc /\ advance_locks = [r \in Routers |-> NoProc]
    /\ ready = {} /\ sched_dirty = [n \in Names |-> FALSE]
    /\ pc = [p \in Threads |-> "idle"] /\ req = [p \in Threads |-> NoReq]
    /\ adv = [p \in Drivers |-> NoAdv] /\ jobs = [p \in Drivers |-> {}]
    /\ todo = {}

-----------------------------------------------------------------------------
(* Writes and deletes of records, retention, and the wake-up of a source.  *)

Wrote == Cardinality({i \in DOMAIN log : log[i].kind = "append"})
Idle(p) == p \in setup.clients /\ pc[p] = "idle"
\* A committed append; the wake-up follows it.
Write(p, n, tag) ==
    /\ Idle(p) /\ topics[n] # Absent /\ Use("writes")
    /\ LET rec == Record(Wrote + 1, tag) IN
       /\ topics' = [topics EXCEPT ![n] = Extended(@, <<rec>>)]
       /\ log' = Append(log, [kind |-> "append", id |-> topics[n].id, rec |-> rec,
                              seq |-> HeadOf(topics[n]) + 1])
    /\ req' = [req EXCEPT ![p].name = n]
    /\ Goto(p, "mark")
    /\ UNCHANGED <<setup, topic_count, next_topic_id, graph, locks, sched, passes,
                   snap>>
\* mark_dirty_fast: the thread that raises the flag enqueues the name.
Mark(p) ==
    /\ pc[p] = "mark"
    /\ sched_dirty' = [sched_dirty EXCEPT ![req[p].name] = TRUE]
    /\ IF sched_dirty[req[p].name] THEN Return(p) ELSE Goto(p, "push") /\ UNCHANGED req
    /\ UNCHANGED <<setup, left, catalog, locks, ready, passes, disk>>
Push(p) ==
    /\ pc[p] = "push"
    /\ ready' = ready \cup {req[p].name}
    /\ Return(p)
    /\ UNCHANGED <<setup, left, catalog, locks, sched_dirty, passes, disk>>
\* The same in one step, by a driver.
mark_dirty_fast(ns) ==
    /\ ready' = ready \cup {n \in ns : ~sched_dirty[n]}
    /\ sched_dirty' = [n \in Names |-> sched_dirty[n] \/ n \in ns]

\* A delete of one record of a topic.
Delete(n, s) ==
    /\ s \in Visible(topics[n]) /\ Use("deletes")
    /\ topics' = [topics EXCEPT ![n].slots[s].dead = TRUE]
    /\ log' = Append(log, [kind |-> "delete", id |-> topics[n].id, seq |-> s])
    /\ UNCHANGED <<setup, topic_count, next_topic_id, graph, locks, sched, pc, req,
                   passes, snap>>
\* A retention pass over a source that evicts all of it, with its watermark.
Trim(n) ==
    /\ Feeding(graph, n) = {} /\ topics[n].evict < HeadOf(topics[n]) /\ Use("trims")
    /\ setup.racing \/ \A p \in Drivers : adv[p].step # "walk"
    /\ topics' = [topics EXCEPT ![n].evict = HeadOf(topics[n])]
    /\ log' = Append(log, [kind |-> "evict", id |-> topics[n].id,
                           floor |-> HeadOf(topics[n])])
    /\ UNCHANGED <<setup, topic_count, next_topic_id, graph, locks, sched, pc, req,
                   passes, snap>>

-----------------------------------------------------------------------------
(* advance_router, driven by the worker and by a reader.                   *)

Frozen == pc[Checkpointer] = "frozen"
Done(p, r) == jobs' = [jobs EXCEPT ![p] = @ \ {r}]
Driving(p, r) ==
    pc[p] = "drive" /\ adv[p] = NoAdv /\ r \in jobs[p]
    /\ advance_locks[r] = NoProc /\ ~Frozen
\* The router or one of its topics is gone, or nothing is left to forward.
Useless(r) ==
    LET def == graph.routers[r] IN
    Has(graph, r) => \/ Absent \in {topics[Source(def)], topics[Dest(def)]}
                     \/ graph.cursor[r] >= HeadOf(topics[Source(def)])
AdvanceNone(p, r) ==
    /\ Driving(p, r) /\ Useless(r) /\ Done(p, r)
    /\ UNCHANGED <<setup, left, catalog, locks, sched, pc, req, adv, todo, disk>>
\* The watermark of the source cannot be hardened: the pass ends.
AdvanceUnhardened(p, r) ==
    /\ Driving(p, r) /\ ~Useless(r) /\ Use("failures") /\ Done(p, r)
    /\ UNCHANGED <<setup, catalog, locks, sched, pc, req, adv, todo, disk>>
\* The lock, the router and its cursor, the head, and the records that the
\* source trimmed past the cursor: holes in the destination.
AdvanceBegin(p, r) ==
    /\ Driving(p, r) /\ ~Useless(r)
    /\ advance_locks' = [advance_locks EXCEPT ![r] = p]
    /\ LET def == graph.routers[r]
           src == topics[Source(def)]
           cursor == graph.cursor[r]
           lost == IF src.evict > cursor THEN src.evict - cursor ELSE 0
       IN  /\ adv' = [adv EXCEPT ![p] =
                        [NoAdv EXCEPT !.step = "walk", !.router = r, !.def = def,
                           !.src = src.id, !.dst = topics[Dest(def)].id,
                           !.head = HeadOf(src), !.cursor = cursor + lost]]
           /\ IF lost = 0 THEN UNCHANGED <<topics, graph>>
              ELSE /\ topics' = [topics EXCEPT ![Dest(def)] = Holed(@, lost)]
                   /\ graph' = note_forwarded(graph, r, cursor + lost, lost)
    /\ UNCHANGED <<setup, left, topic_count, next_topic_id, create_lock, sched, pc,
                   req, jobs, todo, disk>>

\* The topics of the pass are still those of the registry.
Held(a) == topics[Source(a.def)].id = a.src /\ topics[Dest(a.def)].id = a.dst
BatchEnd(a) == Lowest(a.head, a.cursor + ROUTER_BATCH)
WalkOf(a) == Walk(topics[Source(a.def)], topics[Dest(a.def)], a.router, a.cursor,
                  BatchEnd(a))
\* The walk over at most ROUTER_BATCH records, and derived_append.
AdvanceWalk(p) ==
    LET a == adv[p]
        w == WalkOf(a)
    IN
    /\ a.step = "walk" /\ Held(a)
    /\ topics' = [topics EXCEPT ![Dest(a.def)] = Extended(@, w.out)]
    /\ mark_dirty_fast(IF w.out = <<>> THEN {} ELSE {Dest(a.def)})
    /\ adv' = [adv EXCEPT ![p] =
                 [a EXCEPT !.step = "note", !.consumed = w.consumed,
                           !.forwarded = w.forwarded,
                           !.again = w.deferred \/ BatchEnd(a) < a.head]]
    /\ UNCHANGED <<setup, left, topic_count, next_topic_id, graph, locks, pc, req,
                   jobs, todo, disk>>
\* A pass whose topics were deleted appends to what nobody can read.
AdvanceOrphan(p, consumed) ==
    /\ adv[p].step = "walk" /\ ~Held(adv[p])
    /\ consumed <= BatchEnd(adv[p]) - adv[p].cursor
    /\ adv' = [adv EXCEPT ![p].step = "note", ![p].consumed = consumed,
                          ![p].forwarded = consumed]
    /\ UNCHANGED <<setup, left, catalog, locks, sched, pc, req, jobs, todo, disk>>
Unlock(p) == advance_locks' = [advance_locks EXCEPT ![adv[p].router] = NoProc]
\* The byte quota refuses the derived append: the cursor stays.
AdvanceThrottled(p) ==
    LET a == adv[p] IN
    /\ a.step = "walk" /\ Held(a) /\ WalkOf(a).out # <<>> /\ Use("failures")
    /\ mark_dirty_fast({Source(a.def)})
    /\ Unlock(p) /\ Done(p, a.router)
    /\ adv' = [adv EXCEPT ![p] = NoAdv]
    /\ UNCHANGED <<setup, catalog, create_lock, pc, req, todo, disk>>
\* Mutant: a source that is still behind is not marked again.
AdvanceNoteOnce(p) ==
    LET a == adv[p] IN
    /\ a.step = "note"
    /\ graph' = IF a.consumed = 0 THEN graph
                ELSE note_forwarded(graph, a.router, a.cursor + a.consumed, a.forwarded)
    /\ Unlock(p) /\ adv' = [adv EXCEPT ![p] = NoAdv]
    /\ IF p = Reader /\ a.consumed > 0 THEN UNCHANGED jobs ELSE Done(p, a.router)
    /\ UNCHANGED <<setup, left, topics, topic_count, next_topic_id, create_lock, sched,
                   pc, req, todo, disk>>
\* Mutant: a reader drives each router once.
AdvanceNoteLeave(p) ==
    LET a == adv[p] IN
    /\ a.step = "note"
    /\ graph' = IF a.consumed = 0 THEN graph
                ELSE note_forwarded(graph, a.router, a.cursor + a.consumed, a.forwarded)
    /\ mark_dirty_fast(IF a.again THEN {Source(a.def)} ELSE {})
    /\ Unlock(p) /\ adv' = [adv EXCEPT ![p] = NoAdv] /\ Done(p, a.router)
    /\ UNCHANGED <<setup, left, topics, topic_count, next_topic_id, create_lock, pc,
                   req, todo, disk>>
\* The cursor moves past what was consumed; a source still behind is marked
\* again; a reader drives the router until a pass consumes nothing.
AdvanceNote(p) ==
    LET a == adv[p] IN
    /\ a.step = "note"
    /\ graph' = IF a.consumed = 0 THEN graph
                ELSE note_forwarded(graph, a.router, a.cursor + a.consumed, a.forwarded)
    /\ mark_dirty_fast(IF a.again THEN {Source(a.def)} ELSE {})
    /\ Unlock(p) /\ adv' = [adv EXCEPT ![p] = NoAdv]
    /\ IF p = Reader /\ a.consumed > 0 THEN UNCHANGED jobs ELSE Done(p, a.router)
    /\ UNCHANGED <<setup, left, topics, topic_count, next_topic_id, create_lock, pc,
                   req, todo, disk>>

\* drain_router_sources: take the ready set, clear the flags, then drive the
\* routers of each topic.
Drain ==
    /\ pc[Worker] = "idle" /\ ready # {}
    /\ todo' = ready /\ ready' = {} /\ Goto(Worker, "clear")
    /\ UNCHANGED <<setup, left, catalog, locks, sched_dirty, req, adv, jobs, disk>>
Clear ==
    /\ pc[Worker] = "clear" /\ Goto(Worker, "next")
    /\ sched_dirty' = [n \in Names |->
                         sched_dirty[n] /\ (n \notin todo \/ topics[n] = Absent)]
    /\ UNCHANGED <<setup, left, catalog, locks, ready, req, passes, disk>>
DriveSource(n) ==
    /\ pc[Worker] = "next" /\ n \in todo
    /\ todo' = todo \ {n}
    /\ jobs' = [jobs EXCEPT ![Worker] = routers_for_source(graph, n)]
    /\ Goto(Worker, "drive")
    /\ UNCHANGED <<setup, left, catalog, locks, sched, req, adv, disk>>
Driven ==
    /\ pc[Worker] = "drive" /\ jobs[Worker] = {}
    /\ Goto(Worker, IF todo = {} THEN "idle" ELSE "next")
    /\ UNCHANGED <<setup, left, catalog, locks, sched, req, passes, disk>>
\* catch_up_dest before a read of a topic, and the read.
CatchUp(n) ==
    /\ pc[Reader] = "idle" /\ topics[n] # Absent /\ Use("reads")
    /\ jobs' = [jobs EXCEPT ![Reader] = Feeding(graph, n)]
    /\ req' = [req EXCEPT ![Reader].heads =
                 {<<r, HeadOf(topics[Source(graph.routers[r])])>> :
                    r \in Feeding(graph, n)}]
    /\ Goto(Reader, "drive")
    /\ UNCHANGED <<setup, catalog, locks, sched, adv, todo, disk>>
CaughtUp ==
    /\ pc[Reader] = "drive" /\ jobs[Reader] = {} /\ Goto(Reader, "read")
    /\ UNCHANGED <<setup, left, catalog, locks, sched, req, passes, disk>>
Read ==
    /\ pc[Reader] = "read" /\ Return(Reader)
    /\ UNCHANGED <<setup, left, catalog, locks, sched, passes, disk>>

-----------------------------------------------------------------------------
(* put_topic: an update logs a frame for the topic it found; a create      *)
(* holds the create lock, reserves a slot and an id, logs, then inserts.   *)
(* put_router creates the missing topics of its router the same way.       *)

Release(p) == create_lock' = IF create_lock = p THEN NoProc ELSE create_lock
\* The topic of the request is there: back to put_router, or done.
TopicDone(p) ==
    IF req[p].def = NoRouter THEN Return(p) ELSE Goto(p, "ensure") /\ UNCHANGED req
\* An error: a router that this request created is removed again.
Fail(p) ==
    /\ graph' = IF req[p].created THEN remove(graph, {req[p].router}) ELSE graph
    /\ Return(p)
PutTopic(p, n) ==
    /\ Idle(p) /\ Use("topic_puts")
    /\ req' = [req EXCEPT ![p].name = n] /\ Goto(p, "put")
    /\ UNCHANGED <<setup, catalog, locks, sched, passes, disk>>
FindTopic(p) ==
    /\ pc[p] = "put"
    /\ Goto(p, IF topics[req[p].name] = Absent THEN "create" ELSE "update")
    /\ req' = [req EXCEPT ![p].id = topics[req[p].name].id]
    /\ UNCHANGED <<setup, left, catalog, locks, sched, passes, disk>>
UpdateTopic(p) ==
    /\ pc[p] = "update"
    /\ log' = Append(log, TopicFrame(req[p].id, req[p].name))
    /\ Release(p) /\ TopicDone(p)
    /\ UNCHANGED <<setup, left, catalog, advance_locks, sched, passes, snap>>
ReserveTopic(p) ==
    /\ pc[p] = "create" /\ create_lock = NoProc
    /\ LET t == topics[req[p].name] IN
       \/ /\ t # Absent
          /\ create_lock' = p /\ Goto(p, "update")
          /\ req' = [req EXCEPT ![p].id = t.id]
          /\ UNCHANGED <<topic_count, next_topic_id, graph>>
       \/ /\ t = Absent /\ setup.max_topics # 0 /\ topic_count >= setup.max_topics
          /\ Fail(p)
          /\ UNCHANGED <<create_lock, topic_count, next_topic_id>>
       \/ /\ t = Absent /\ (setup.max_topics = 0 \/ topic_count < setup.max_topics)
          /\ create_lock' = p /\ Goto(p, "log")
          /\ topic_count' = topic_count + 1
          /\ next_topic_id' = next_topic_id + 1
          /\ req' = [req EXCEPT ![p].id = next_topic_id]
          /\ UNCHANGED graph
    /\ UNCHANGED <<setup, left, topics, advance_locks, sched, passes, disk>>
LogTopic(p) ==
    /\ pc[p] = "log"
    /\ log' = Append(log, TopicFrame(req[p].id, req[p].name))
    /\ Goto(p, "insert")
    /\ UNCHANGED <<setup, left, catalog, locks, sched, req, passes, snap>>
InsertTopic(p) ==
    /\ pc[p] = "insert"
    /\ topics' = [topics EXCEPT ![req[p].name] = Empty(req[p].id)]
    /\ sched_dirty' = [sched_dirty EXCEPT ![req[p].name] = FALSE]
    /\ Release(p) /\ TopicDone(p)
    /\ UNCHANGED <<setup, left, topic_count, next_topic_id, graph, advance_locks,
                   ready, passes, disk>>

\* put_router: the checks that refuse it and the head of the source, then the
\* insert with the cap and cycle checks, the topics, the cursor read back, and
\* the frame.
FansIn(r, def) == \E q \in Feeding(graph, Dest(def)) \ {r} :
                    Source(graph.routers[q]) # Source(def)
Repoints(r, def) == Has(graph, r) /\ graph.routers[r] # def
PutRouter(p, r, def) ==
    /\ Idle(p) /\ Use("router_puts") /\ ~FansIn(r, def) /\ ~Repoints(r, def)
    /\ req' = [req EXCEPT ![p].router = r, ![p].def = def,
                          ![p].cursor = HeadOf(topics[Source(def)])]
    /\ Goto(p, "upsert")
    /\ UNCHANGED <<setup, catalog, locks, sched, passes, disk>>
\* Mutant: the cycle check is not made under the lock of the insert.
UpsertUnchecked(p) ==
    LET r == req[p].router
        g == [graph EXCEPT !.routers[r] = req[p].def]
    IN
    /\ pc[p] = "upsert"
    /\ graph' = IF Has(graph, r) THEN g ELSE note_forwarded(g, r, req[p].cursor, 0)
    /\ req' = [req EXCEPT ![p].created = ~Has(graph, r), ![p].names = req[p].def]
    /\ Goto(p, "ensure")
    /\ UNCHANGED <<setup, left, topics, topic_count, next_topic_id, locks, sched,
                   passes, disk>>
upsert_capped(p) ==
    LET r == req[p].router
        g == [graph EXCEPT !.routers[r] = req[p].def]
    IN
    /\ pc[p] = "upsert"
    /\ \/ /\ Refused(graph, r, req[p].def)
          /\ Return(p) /\ UNCHANGED graph
       \/ /\ ~Refused(graph, r, req[p].def)
          /\ graph' = IF Has(graph, r) THEN g
                      ELSE note_forwarded(g, r, req[p].cursor, 0)
          /\ req' = [req EXCEPT ![p].created = ~Has(graph, r), ![p].names = req[p].def]
          /\ Goto(p, "ensure")
    /\ UNCHANGED <<setup, left, topics, topic_count, next_topic_id, locks, sched,
                   passes, disk>>
ensure_router_topics(p) ==
    /\ pc[p] = "ensure"
    /\ IF req[p].names = <<>>
       THEN /\ Goto(p, "log_router")
            /\ req' = [req EXCEPT ![p].cursor = graph.cursor[req[p].router]]
       ELSE LET n == Head(req[p].names) IN
            /\ Goto(p, IF topics[n] = Absent THEN "put" ELSE "ensure")
            /\ req' = [req EXCEPT ![p].name = n, ![p].names = Tail(@)]
    /\ UNCHANGED <<setup, left, catalog, locks, sched, passes, disk>>
LogRouter(p) ==
    /\ pc[p] = "log_router"
    /\ log' = Append(log, RouterFrame(req[p].router, req[p].def, req[p].cursor))
    /\ Return(p)
    /\ UNCHANGED <<setup, left, catalog, locks, sched, passes, snap>>

\* delete_router and delete_topic log first and remove then.
DeleteRouter(p, r) ==
    /\ Idle(p) /\ Has(graph, r) /\ Use("router_deletes")
    /\ req' = [req EXCEPT ![p].router = r] /\ Goto(p, "unlog")
    /\ UNCHANGED <<setup, catalog, locks, sched, passes, disk>>
UnlogRouter(p) ==
    /\ pc[p] = "unlog"
    /\ log' = Append(log, [kind |-> "unrouter", name |-> req[p].router])
    /\ Goto(p, "remove")
    /\ UNCHANGED <<setup, left, catalog, locks, sched, req, passes, snap>>
RemoveRouter(p) ==
    /\ pc[p] = "remove"
    /\ graph' = remove(graph, {req[p].router}) /\ Return(p)
    /\ UNCHANGED <<setup, left, topics, topic_count, next_topic_id, locks, sched,
                   passes, disk>>
DeleteTopic(p, n) ==
    /\ Idle(p) /\ topics[n] # Absent /\ Use("topic_deletes")
    /\ req' = [req EXCEPT ![p].name = n,
                          ![p].names = SetToSeq(routers_touching_topic(graph, n))]
    /\ Goto(p, "tombstone")
    /\ UNCHANGED <<setup, catalog, locks, sched, passes, disk>>
Tombstone(p) ==
    /\ pc[p] = "tombstone"
    /\ log' = Append(log, [kind |-> "tombstone", name |-> req[p].name])
    /\ Goto(p, "cascade")
    /\ UNCHANGED <<setup, left, catalog, locks, sched, req, passes, snap>>
LogCascade(p) ==
    /\ pc[p] = "cascade" /\ req[p].names # <<>>
    /\ log' = Append(log, [kind |-> "unrouter", name |-> Head(req[p].names)])
    /\ req' = [req EXCEPT ![p].names = Tail(@)]
    /\ UNCHANGED <<setup, left, catalog, locks, sched, pc, passes, snap>>
RemoveTopic(p) ==
    LET n == req[p].name IN
    /\ pc[p] = "cascade" /\ req[p].names = <<>>
    /\ topics' = [topics EXCEPT ![n] = Absent]
    /\ topic_count' = IF topics[n] = Absent THEN topic_count ELSE topic_count - 1
    /\ graph' = remove(graph, routers_touching_topic(graph, n))
    /\ Return(p)
    /\ UNCHANGED <<setup, left, next_topic_id, locks, sched, passes, disk>>
\* Mutant: a router whose frame failed stays.
LogFailsKept(p) ==
    /\ pc[p] \in {"update", "log", "log_router", "unlog", "tombstone"}
    /\ Use("failures")
    /\ topic_count' = IF pc[p] = "log" THEN topic_count - 1 ELSE topic_count
    /\ Return(p) /\ Release(p)
    /\ UNCHANGED <<setup, topics, next_topic_id, graph, advance_locks, sched, passes,
                   disk>>
\* The frame of a request cannot be made durable.
LogFails(p) ==
    /\ \/ pc[p] \in {"update", "log", "log_router", "unlog", "tombstone"}
       \/ pc[p] = "cascade" /\ req[p].names # <<>>
    /\ Use("failures")
    /\ topic_count' = IF pc[p] = "log" THEN topic_count - 1 ELSE topic_count
    /\ Fail(p) /\ Release(p)
    /\ UNCHANGED <<setup, topics, next_topic_id, advance_locks, sched, passes, disk>>

-----------------------------------------------------------------------------
(* Checkpoints and crashes.                                                *)

\* The barrier and the position, before the router freeze and the capture.
Position ==
    /\ pc[Checkpointer] = "idle" /\ Use("snapshots")
    /\ req' = [req EXCEPT ![Checkpointer].pos = Len(log)]
    /\ Goto(Checkpointer, "freeze")
    /\ UNCHANGED <<setup, catalog, locks, sched, passes, disk>>
\* Mutant: a pass may run while the routers are captured.
FreezeAnyway ==
    /\ pc[Checkpointer] = "freeze"
    /\ Goto(Checkpointer, "frozen")
    /\ UNCHANGED <<setup, left, catalog, locks, sched, req, passes, disk>>
Freeze ==
    /\ pc[Checkpointer] = "freeze" /\ \A p \in Drivers : adv[p] = NoAdv
    /\ Goto(Checkpointer, "frozen")
    /\ UNCHANGED <<setup, left, catalog, locks, sched, req, passes, disk>>
capture ==
    /\ pc[Checkpointer] = "frozen"
    /\ snap' = [pos |-> req[Checkpointer].pos, topics |-> topics, next |-> next_topic_id,
                graph |-> remove(graph, {r \in Routers : ~Has(graph, r)})]
    /\ Return(Checkpointer)
    /\ UNCHANGED <<setup, left, catalog, locks, sched, passes, log>>
Crash ==
    /\ Use("crashes")
    /\ topics' = Recovered.topics /\ graph' = Recovered.graph
    /\ topic_count' = Cardinality(Present(topics')) /\ next_topic_id' = NextId
    /\ create_lock' = NoProc /\ advance_locks' = [r \in Routers |-> NoProc]
    /\ ready' = {} /\ sched_dirty' = [n \in Names |-> FALSE]
    /\ pc' = [p \in Threads |-> "idle"] /\ req' = [p \in Threads |-> NoReq]
    /\ adv' = [p \in Drivers |-> NoAdv] /\ jobs' = [p \in Drivers |-> {}]
    /\ todo' = {}
    /\ UNCHANGED <<setup, disk>>

-----------------------------------------------------------------------------
AdvanceStep(p) ==
    \/ AdvanceWalk(p) \/ AdvanceNote(p)
    \/ \E c \in 0..ROUTER_BATCH : AdvanceOrphan(p, c)
Advance(p) ==
    AdvanceStep(p) \/ \E r \in Routers : AdvanceNone(p, r) \/ AdvanceBegin(p, r)
WorkerStep == Drain \/ Clear \/ Driven \/ \E n \in Names : DriveSource(n)
WakeStep(p) == Mark(p) \/ Push(p)
CatalogStep(p) ==
    \/ FindTopic(p) \/ UpdateTopic(p) \/ ReserveTopic(p) \/ LogTopic(p) \/ InsertTopic(p)
    \/ upsert_capped(p) \/ ensure_router_topics(p) \/ LogRouter(p)
    \/ UnlogRouter(p) \/ RemoveRouter(p) \/ Tombstone(p) \/ LogCascade(p)
    \/ RemoveTopic(p)
Requests(p) ==
    \/ \E n \in Names : PutTopic(p, n) \/ DeleteTopic(p, n)
    \/ \E n \in setup.written, tag \in {TRUE, ~setup.filter} : Write(p, n, tag)
    \/ \E r \in Routers : DeleteRouter(p, r)
    \/ \E put \in setup.puts : PutRouter(p, put[1], put[2])
Next ==
    \/ \E p \in Clients : Requests(p) \/ WakeStep(p) \/ CatalogStep(p) \/ LogFails(p)
    \/ \E p \in Drivers :
         Advance(p) \/ AdvanceThrottled(p) \/ \E r \in Routers : AdvanceUnhardened(p, r)
    \/ WorkerStep
    \/ CaughtUp \/ Read \/ \E n \in Names : CatchUp(n)
    \/ \E n \in Names : Trim(n) \/ \E s \in DOMAIN topics[n].slots : Delete(n, s)
    \/ Position \/ Freeze \/ capture \/ Crash

\* Threads that hold a lock or a wake-up go on, the worker loops, and a
\* checkpoint that froze the routers ends.
Fairness ==
    /\ \A p \in Drivers : WF_vars(Advance(p))
    /\ WF_vars(WorkerStep)
    /\ \A p \in Clients : WF_vars(WakeStep(p))
    /\ WF_vars(Freeze \/ capture)
Spec == Init /\ [][Next]_vars /\ Fairness

-----------------------------------------------------------------------------
(* Properties                                                              *)

Fixed == setup.puts = {}
\* The source seqs of what a router put into its destination, in order.
Sources(r) ==
    LET recs == SelectSeq(topics[Dest(graph.routers[r])].slots, 
                          LAMBDA x : x.key # <<>> /\ x.key[1] = r)
    IN  [i \in DOMAIN recs |-> recs[i].key[3]]
Whole(r) == Has(graph, r) /\ {Source(graph.routers[r]), Dest(graph.routers[r])}
                             \subseteq Present(topics)

\* Nothing is lost or reordered on the way (mod.rs "the cursor advances ONLY
\* by the committed count"): a destination holds the records of a router in
\* source order, each once, and every source record that the cursor passed is
\* there, unless it was deleted, trimmed, not matched or at the hop cap, across
\* batches, back-pressure, failed appends, checkpoints and restarts.
Mirror ==
    Fixed => \A r \in {r \in Routers : Whole(r)} :
      LET srcs == Sources(r)
          src == topics[Source(graph.routers[r])]
      IN  /\ \A i, j \in DOMAIN srcs : i < j => srcs[i] < srcs[j]
          /\ \A s \in 1..Lowest(graph.cursor[r], HeadOf(src)) :
               (\E i \in DOMAIN srcs : srcs[i] = s) \/ Passed(src, s)

\* Nothing failed so far.
Unfailed == left.failures = setup.bound.failures
\* catch_up_dest makes a read see the writes before it ("an immediate read after
\* a source write is read-your-writes consistent"): when it returns, the routers
\* that feed the topic are past the heads their sources had when it began,
\* unless the destination rejects or a pass failed.
ReadYourWrites ==
    (pc[Reader] = "read" /\ Unfailed /\ setup.cap = 0) =>
      \A h \in req[Reader].heads : ~Whole(h[1]) \/ graph.cursor[h[1]] >= h[2]

\* No routers close a cycle unless allow_cycle was asked for, also when two
\* requests put the two halves at once.
NoCycle ==
    ~setup.allow_cycle =>
      \A r \in Routers : Has(graph, r) => ~would_create_cycle(graph, r, graph.routers[r])

Restarts == left'.crashes < left.crashes
\* A cursor into a destination stays valid across a restart: what is derived
\* again puts the same record at every seq that was there before, or a hole
\* where the source has trimmed it since.
RestartKeepsSeqs ==
    [][Restarts =>
         \A n \in Present(topics) \cap Present(topics') :
           /\ HeadOf(topics'[n]) >= HeadOf(topics[n])
           /\ \A s \in DOMAIN topics[n].slots :
                LET a == topics[n].slots[s]
                    b == topics'[n].slots[s]
                IN  b.w = 0 \/ (a.w = b.w /\ a.key = b.key)]_vars

Quiet == \A p \in Clients : pc[p] \in {"idle", "mark", "push"}
Defined == [n \in Names |-> topics[n].id]
\* When no request is under way, a restart finds the topics, with their ids,
\* and the routers that clients were told of: a create that failed leaves
\* nothing, a create or delete that was acknowledged is kept.
RestartKeepsCatalog ==
    [][(Restarts /\ Quiet) =>
         Defined' = Defined /\ graph'.routers = graph.routers]_vars

\* The routers are at the heads of their sources, or held back by a full
\* destination.
Settled ==
    \A r \in {r \in Routers : Whole(r)} :
      \/ graph.cursor[r] >= HeadOf(topics[Source(graph.routers[r])])
      \/ Full(topics[Dest(graph.routers[r])], 0)
\* No wake-up is lost between the flag, the ready set and the worker: while
\* hardening and quota do not fail, every record is forwarded in the end, also
\* past a batch, along a chain and around a cycle, where the hop cap ends it.
Forwards == <>[](Settled \/ ~Unfailed)
=============================================================================
