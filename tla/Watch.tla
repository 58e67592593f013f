-------------------------------- MODULE Watch --------------------------------
(***************************************************************************)
(* Watching topics: the sessions and SSE streams of http/watch.rs, the     *)
(* WebSocket of http/ws.rs and the frames they share                       *)
(* (engine/broadcast.rs, Engine::diff_shared_frames).                      *)
(*                                                                         *)
(* A session holds the authoritative cursors, and every stream opened on   *)
(* it moves them.  A stream is a future that yields frames; the client     *)
(* takes them from the connection, or loses the connection with all that   *)
(* is in it and comes back with the id of the last frame it processed.     *)
(* What a diff samples without a lock is Retention's.                      *)
(***************************************************************************)
EXTENDS Limits, SequencesExt, FiniteSetsExt

CONSTANTS
    Streams, Socks,     \* SSE streams and WebSockets (in Conns)
    LIMIT,              \* records per diff
    RING_CAP,           \* seqs kept in the broadcast cache
    OUT_CAP,            \* frames a connection holds
    SESSION_TTL,
    NoConn

VARIABLES
    topic,      \* each topic: up, head, the records a reader is not shown
                \* (deleted, expired, its own), the eviction floor
    cache,      \* BroadcastCache of each topic
    now,
    sess,       \* the sessions, SessionStore's map and count
    store,
    conn,       \* the locals of a connection's loop
    subs,       \* the subscriptions of a WebSocket, and its `changed` permit
    permit,
    out,        \* the frames in a connection
    at,         \* the connection the client of a session reads from
    client,     \* what the client has processed, and its last id
    asked,      \* history: the last subscribe to a topic, what was sent since
    excused     \* history: sessions the properties make an exception for

topics == <<topic, cache, now>>
sessions == <<sess, store>>
sockets == <<subs, permit, asked>>
clients == <<at, client, excused>>
watchVars == <<topics, sessions, conn, sockets, out, clients>>

Top == 99
NoRewind == [n \in Names |-> Top]
Shown(n) == (1..topic[n].head) \ topic[n].hidden

-----------------------------------------------------------------------------
(* BroadcastCache: entries by seq and variant.  A projection is whether    *)
(* the tags are included.                                                  *)

FrameVariant(tags) == tags
CachedAt(n, s, v) == {e \in cache[n] : e.seq = s /\ e.variant = v}
\* A new seq beyond the cap drops the lowest one.
insert_serialized(entries, new) ==
    LET all == entries \cup new
        seqs == {e.seq : e \in all}
        kept == {s \in seqs : Cardinality({t \in seqs : t > s}) < RING_CAP}
    IN  {e \in all : e.seq \in kept}
\* The frames of a batch: what is cached under the variant, else what the
\* request projects.
frames(n, seqs, v, tags) ==
    {[seq |-> s, variant |-> v, body |-> tags] :
       s \in {t \in ToSet(seqs) : CachedAt(n, t, v) = {}}}

-----------------------------------------------------------------------------
(* diff_shared_frames.                                                     *)

NoTomb == [from |-> 0, to |-> 0]
TombOf(n, from) ==
    LET t == topic[n]
    IN  IF from > t.head THEN [from |-> 0, to |-> t.head]
        ELSE IF from + 1 < t.floor THEN [from |-> from, to |-> t.floor - 1]
        ELSE NoTomb
\* Whether the diff has a tombstone, which may end at seq 0.
HasTomb(n, from) == from > topic[n].head \/ from + 1 < topic[n].floor
StartOf(n, from) ==
    IF from > topic[n].head THEN topic[n].floor - 1 ELSE Max({from, topic[n].floor - 1})
Diff(n, from) ==
    LET start == StartOf(n, from)
        shown == SetToSortSeq({s \in Shown(n) : s > start}, <)
        full == Len(shown) >= LIMIT
        next == IF full THEN shown[LIMIT] ELSE Max({start, topic[n].head})
    IN  [seqs |-> IF full THEN SubSeq(shown, 1, LIMIT) ELSE shown,
         next |-> next, caught |-> next = topic[n].head, from |-> from,
         has |-> HasTomb(n, from), tomb |-> TombOf(n, from)]
NoDiff == [seqs |-> <<>>, next |-> 0, caught |-> FALSE, from |-> 0,
           has |-> FALSE, tomb |-> NoTomb]

\* The writers: a record is published and wakes the waiters of its topic,
\* retention moves the floor, the topic is deleted.
writers == <<sessions, conn, sockets, out, clients, setup, limits, flag, notified, waits>>
PublishRecord ==
    /\ Use("publishes")
    /\ \E n \in setup.topics, shown \in BOOLEAN :
         /\ topic[n].up
         /\ topic' = [topic EXCEPT ![n].head = @ + 1,
              ![n].hidden = IF shown THEN @ ELSE @ \cup {topic[n].head + 1}]
         /\ WakeAll(TopicOf(n))
    /\ UNCHANGED <<cache, now, writers>>
TrimTopic ==
    /\ Use("trims")
    /\ \E n \in setup.topics :
         /\ topic[n].up /\ topic[n].floor <= topic[n].head
         /\ topic' = [topic EXCEPT ![n].floor = @ + 1]
    /\ UNCHANGED <<cache, now, writers, woken>>
DeleteTopic ==
    /\ Use("deletions")
    /\ \E n \in setup.topics : topic[n].up /\ topic' = [topic EXCEPT ![n].up = FALSE]
    /\ UNCHANGED <<cache, now, writers, woken>>
Tick ==
    /\ Use("ticks") /\ now' = now + 1
    /\ UNCHANGED <<topic, cache, writers, woken>>

-----------------------------------------------------------------------------
(* SessionStore.                                                           *)

Expired(v) == sess[v].active = 0 /\ now - sess[v].last > SESSION_TTL
\* The sessions gc_expired removes.  A session that another request has
\* looked up and not yet opened is excused.
gc_expired(c) ==
    LET reaped == {v \in store.map : Expired(v)}
    IN  /\ store' = [store EXCEPT !.map = @ \ reaped,
                                  !.count = @ - Cardinality(reaped)]
        /\ excused' = excused \cup {<<"reaped", v>> : v \in {u \in reaped :
             \E s \in Streams \ {c} : conn[s].wid = u /\ pc[s] \in {"slot", "open"}}}

\* POST /v0/watch: expired sessions go, the cursors are seeded, a slot is
\* reserved by compare-exchange, the session is inserted.
CreateSession(v) ==
    /\ sess[v].step = "none"
    /\ \A n \in setup.topics : topic[n].up
    /\ gc_expired(NoConn)
    /\ \E f \in setup.from :
         sess' = [sess EXCEPT ![v] = [step |-> "seeded", active |-> 0, last |-> now,
                                      cursor |-> [n \in setup.topics |-> f],
                                      start |-> f]]
    /\ UNCHANGED <<topics, conn, sockets, out, at, client, shared>>
ReserveSession(v) ==
    /\ sess[v].step = "seeded"
    /\ LET full == setup.max_sessions # 0 /\ store.count >= setup.max_sessions
       IN  /\ sess' = [sess EXCEPT ![v].step = IF full THEN "refused" ELSE "reserved"]
           /\ store' = IF full THEN store ELSE [store EXCEPT !.count = @ + 1]
    /\ UNCHANGED <<topics, conn, sockets, out, clients, shared>>
InsertSession(v) ==
    /\ sess[v].step = "reserved"
    /\ sess' = [sess EXCEPT ![v].step = "made"]
    /\ store' = [store EXCEPT !.map = @ \cup {v}]
    /\ UNCHANGED <<topics, conn, sockets, out, clients, shared>>

-----------------------------------------------------------------------------
(* GET /v0/watch/:wid.                                                     *)

NewConn(v, leid) ==
    [wid |-> v, leid |-> leid, todo |-> {}, seen |-> {}, cur |-> "", d |-> NoDiff,
     deleted |-> {}, was |-> {}, snap |-> <<>>]
Local(c, r) == conn' = [conn EXCEPT ![c] = r]
Cursor(s) == sess[conn[s].wid].cursor
\* A frame: the records or the gap it reports, and the cursors as its id.
Frame(kind, n, seqs, gap, id) ==
    [kind |-> kind, n |-> n, seqs |-> seqs, gap |-> gap, id |-> id]
\* A frame is yielded when the connection takes it; nobody reads the frames
\* of a connection that the client has lost.
Yield(s, frame) ==
    /\ Len(out[s]) < OUT_CAP
    /\ out' = IF at[conn[s].wid] = s THEN [out EXCEPT ![s] = Append(@, frame)] ELSE out

\* The session is looked up.  The client names the last frame it processed;
\* one that has processed none has no id to send, and is excused.
StreamGet(s) ==
    /\ pc[s] = "none" /\ s \in setup.conns
    /\ \E v \in store.map :
         /\ at[v] = NoConn
         /\ setup.overlap \/ \A z \in Streams : conn[z].wid = v => pc[z] = "over"
         /\ at' = [at EXCEPT ![v] = s]
         /\ Local(s, NewConn(v, client[v].last))
         /\ excused' = IF client[v].last = NoRewind /\ \E z \in Streams : conn[z].wid = v
                       THEN excused \cup {<<"blind", v>>} ELSE excused
    /\ Goto(s, "slot")
    /\ UNCHANGED <<topics, sessions, sockets, out, client, setup, left, live, slot, signals>>

open_on(s) ==
    /\ sess' = [sess EXCEPT ![conn[s].wid].active = @ + 1, ![conn[s].wid].last = now]
    /\ UNCHANGED <<store, excused>>
opening == <<topics, conn, sockets, out, at, client, setup, left, live, slot, signals>>
\* Mutant: expired sessions go before the stream counts.
StreamOpenLate(s) ==
    /\ \/ pc[s] = "open" /\ Goto(s, "gc") /\ gc_expired(s) /\ UNCHANGED sess
       \/ pc[s] = "gc" /\ Goto(s, "rewind") /\ open_on(s)
    /\ UNCHANGED opening
\* With the slot held the stream counts on its session, then expired
\* sessions go.
StreamOpen(s) ==
    /\ \/ pc[s] = "open" /\ Goto(s, "gc") /\ open_on(s)
       \/ pc[s] = "gc" /\ Goto(s, "rewind") /\ gc_expired(s) /\ UNCHANGED sess
    /\ UNCHANGED opening

\* Mutant: Last-Event-ID is ignored.
StreamRewindNot(s) ==
    /\ pc[s] = "rewind" /\ Goto(s, "woken")
    /\ UNCHANGED <<topics, sessions, conn, sockets, out, clients, setup, left, live, slot, signals>>
\* Last-Event-ID: no cursor is moved forward.
StreamRewind(s) ==
    /\ pc[s] = "rewind" /\ Goto(s, "woken")
    /\ sess' = [sess EXCEPT ![conn[s].wid].cursor =
                   [n \in DOMAIN @ |-> Min({@[n], conn[s].leid[n]})]]
    /\ UNCHANGED <<topics, store, conn, sockets, out, clients, setup, left, live, slot, signals>>

\* The future is dropped: its slot, and StreamHandle restarts the idle time.
EndStream(s) ==
    /\ DropGuard(s) /\ Forget(s) /\ Goto(s, "over")
    /\ sess' = [sess EXCEPT ![conn[s].wid].active = @ - 1, ![conn[s].wid].last = now]
    /\ UNCHANGED <<topics, store, conn, sockets, clients, setup, flag, notified>>
loop == <<topics, sockets, clients, setup, left, live, slot, flag, notified>>

\* Mutant: the flag is not looked at.
StreamTurnOn(s) ==
    /\ pc[s] = "woken"
    /\ Forget(s) /\ Goto(s, "topic")
    /\ Local(s, [conn[s] EXCEPT !.todo = setup.topics \ conn[s].deleted, !.seen = {}])
    /\ UNCHANGED <<loop, sessions, out>>
\* One turn of the loop: after the shutdown a last frame and the end.
StreamTurn(s) ==
    /\ pc[s] = "woken"
    /\ \/ /\ flag /\ Yield(s, Frame("error", "", {}, {}, Cursor(s)))
          /\ EndStream(s) /\ UNCHANGED left
       \/ /\ ~flag /\ Forget(s) /\ Goto(s, "topic")
          /\ Local(s, [conn[s] EXCEPT !.todo = setup.topics \ conn[s].deleted, !.seen = {}])
          /\ UNCHANGED <<loop, sessions, out>>

\* The next topic of the turn; a deleted one is reported once.
StreamTopic(s) ==
    /\ pc[s] = "topic" /\ conn[s].todo # {}
    /\ \E n \in conn[s].todo :
         IF topic[n].up
         THEN /\ Local(s, [conn[s] EXCEPT !.todo = @ \ {n}, !.seen = @ \cup {n}, !.cur = n])
              /\ Goto(s, "diff") /\ UNCHANGED out
         ELSE /\ Local(s, [conn[s] EXCEPT !.todo = @ \ {n}, !.deleted = @ \cup {n}])
              /\ Yield(s, Frame("deleted", n, {}, {}, Cursor(s))) /\ UNCHANGED pc
    /\ UNCHANGED <<loop, sessions, waits, woken>>
\* The turn is over: the end if every topic is deleted, else the waiters
\* are registered.
StreamDrained(s) ==
    /\ pc[s] = "topic" /\ conn[s].todo = {}
    /\ \/ conn[s].deleted = setup.topics /\ EndStream(s) /\ UNCHANGED <<left, out>>
       \/ /\ conn[s].deleted # setup.topics
          /\ Register(s, {TopicOf(n) : n \in conn[s].seen}) /\ Goto(s, "enable")
          /\ UNCHANGED <<loop, sessions, conn, out, woken>>

\* One diff from the session's cursor.  A topic that is gone, or whose
\* retention cannot be made durable, is reported as deleted.
StreamDiff(s) ==
    LET n == conn[s].cur
        d == Diff(n, Cursor(s)[n])
    IN  /\ pc[s] = "diff"
        /\ \/ /\ topic[n].up /\ UNCHANGED <<left, out>>
              /\ Local(s, [conn[s] EXCEPT !.d = d]) /\ Goto(s, "tomb")
              /\ cache' = [cache EXCEPT ![n] =
                             insert_serialized(@, frames(n, d.seqs, FrameVariant(TRUE), TRUE))]
           \/ /\ IF topic[n].up THEN Use("failures") ELSE UNCHANGED left
              /\ Local(s, [conn[s] EXCEPT !.deleted = @ \cup {n}])
              /\ Yield(s, Frame("deleted", n, {}, {}, Cursor(s)))
              /\ Goto(s, "topic") /\ UNCHANGED cache
        /\ UNCHANGED <<topic, now, sockets, clients, setup, live, slot, signals, sessions>>

MoveCursor(s, to) == sess' = [sess EXCEPT ![conn[s].wid].cursor[conn[s].cur] = to]
Seen(s) == [conn[s] EXCEPT !.was = @ \ {conn[s].cur}]
Moved(s, to) == [Cursor(s) EXCEPT ![conn[s].cur] = to]
streaming == <<loop, store, waits, woken>>
\* A tombstone comes first, and moves the cursor.
StreamTomb(s) ==
    LET d == conn[s].d
    IN  /\ pc[s] = "tomb" /\ Goto(s, "records")
        /\ IF d.has
           THEN /\ MoveCursor(s, d.tomb.to) /\ Local(s, Seen(s))
                /\ Yield(s, Frame("tombstone", conn[s].cur, {}, (d.tomb.from + 1)..d.tomb.to,
                                  Moved(s, d.tomb.to)))
           ELSE UNCHANGED <<sess, conn, out>>
        /\ UNCHANGED streaming
\* The records, and past everything examined.
StreamRecords(s) ==
    LET d == conn[s].d
    IN  /\ pc[s] = "records" /\ Goto(s, "caught")
        /\ \/ /\ d.seqs # <<>> /\ MoveCursor(s, d.next) /\ Local(s, Seen(s))
              /\ Yield(s, Frame("record", conn[s].cur, ToSet(d.seqs), {}, Moved(s, d.next)))
           \/ /\ d.seqs = <<>> /\ UNCHANGED <<conn, out>>
              /\ IF d.has THEN UNCHANGED sess ELSE MoveCursor(s, d.next)
        /\ UNCHANGED streaming
\* At the head: caught-up once, and the next topic; else the next batch.
StreamCaughtUp(s) ==
    LET n == conn[s].cur
    IN  /\ pc[s] = "caught"
        /\ \/ ~conn[s].d.caught /\ Goto(s, "diff") /\ UNCHANGED <<conn, out>>
           \/ /\ conn[s].d.caught /\ Goto(s, "topic")
              /\ Local(s, [conn[s] EXCEPT !.was = @ \cup {n}])
              /\ IF n \in conn[s].was THEN UNCHANGED out
                 ELSE Yield(s, Frame("caught-up", n, {}, {}, Cursor(s)))
        /\ UNCHANGED <<streaming, sess>>

\* A notification, or the heartbeat.
StreamWake(s) ==
    /\ pc[s] = "parked" /\ Goto(s, "woken")
    /\ (s \in woken /\ UNCHANGED left) \/ Use("heartbeats")
    /\ UNCHANGED <<topics, sessions, conn, sockets, out, clients, setup, live, slot, signals>>
\* The server finds the connection broken where it yields or waits.
StreamBroken(s) ==
    /\ pc[s] \in {"topic", "records", "caught", "parked"} /\ at[conn[s].wid] # s
    /\ EndStream(s) /\ UNCHANGED <<left, out>>

\* The client of a session: it processes a frame, loses the connection with
\* what is in it, or finds it closed.
ClientReads(v) ==
    LET s == at[v]
        f == Head(out[s])
    IN  /\ s # NoConn /\ out[s] # <<>>
        /\ out' = [out EXCEPT ![s] = Tail(@)]
        /\ client' = [client EXCEPT ![v].last = [n \in Names |->
                                       IF n \in DOMAIN f.id THEN f.id[n] ELSE Top],
             ![v].got = IF f.seqs = {} /\ f.gap = {} THEN @
                        ELSE [@ EXCEPT ![f.n] = @ \cup f.seqs \cup f.gap]]
        /\ UNCHANGED <<topics, sessions, conn, sockets, at, excused, shared>>
ClientBreaks(v) ==
    /\ at[v] # NoConn /\ Use("breaks")
    /\ out' = [out EXCEPT ![at[v]] = <<>>]
    /\ at' = [at EXCEPT ![v] = NoConn]
    /\ UNCHANGED <<topics, sessions, conn, sockets, client, excused, setup, limits, signals>>
ClientEnds(v) ==
    /\ at[v] # NoConn /\ out[at[v]] = <<>> /\ pc[at[v]] = "over"
    /\ at' = [at EXCEPT ![v] = NoConn]
    /\ UNCHANGED <<topics, sessions, conn, sockets, out, client, excused, shared>>

-----------------------------------------------------------------------------
(* GET /v0/ws: the reader of commands and the delivery loop of a socket.   *)

Subscribed(k) == DOMAIN subs[k]
Without(f, n) == [m \in DOMAIN f \ {n} |-> f[m]]
With(f, n, v) == [m \in DOMAIN f \cup {n} |-> IF m = n THEN v ELSE f[m]]
Room(k) == Len(out[k]) < OUT_CAP
\* send_json: waits for room in the outbound channel.
Send(k, kind) == Room(k) /\ out' = [out EXCEPT ![k] = Append(@, Frame(kind, "", {}, {}, <<>>))]

SockConnect(k) ==
    /\ pc[k] = "none" /\ k \in setup.conns /\ ~InflightFull(k)
    /\ Goto(k, "slot")
    /\ UNCHANGED <<watchVars, setup, left, live, slot, signals>>

\* A command of the client, whose answer takes its place in the channel.
\* A subscription replaces the one the topic had.
command == <<topics, sessions, conn, clients, setup, limits, signals>>
SockSubscribe(k) ==
    /\ pc[k] \notin {"none", "slot", "over"} /\ Use("commands")
    /\ \E n \in setup.topics, f \in setup.from, tags \in BOOLEAN :
         /\ topic[n].up /\ (n \in DOMAIN asked[k] => setup.retune)
         /\ subs' = [subs EXCEPT ![k] = With(@, n, [cursor |-> f, tags |-> tags, was |-> FALSE])]
         /\ asked' = [asked EXCEPT ![k] = With(@, n, [from |-> f, sent |-> {}])]
    /\ permit' = permit \cup {k} /\ Send(k, "subscribed")
    /\ UNCHANGED command
SockUnsubscribe(k) ==
    /\ pc[k] \notin {"none", "slot", "over"} /\ Use("commands")
    /\ \E n \in Subscribed(k) : subs' = [subs EXCEPT ![k] = Without(@, n)]
    /\ permit' = permit \cup {k} /\ Send(k, "unsubscribed")
    /\ UNCHANGED <<command, asked>>
\* The writer hands a message to the client.
SockReads(k) ==
    /\ out[k] # <<>> /\ out' = [out EXCEPT ![k] = Tail(@)]
    /\ UNCHANGED <<topics, sessions, conn, sockets, clients, shared>>
\* The client closes: the delivery loop is aborted, the slot dropped.
SockClose(k) ==
    /\ pc[k] \notin {"none", "slot", "over"} /\ Use("breaks")
    /\ DropGuard(k) /\ Forget(k) /\ Goto(k, "over")
    /\ out' = [out EXCEPT ![k] = <<>>] /\ permit' = permit \ {k}
    /\ subs' = [subs EXCEPT ![k] = <<>>] /\ asked' = [asked EXCEPT ![k] = <<>>]
    /\ UNCHANGED <<topics, sessions, conn, clients, setup, flag, notified>>

delivery == <<topic, now, sessions, clients, setup, left, live, slot, flag, notified>>
\* One turn of the delivery loop, on a copy of the subscriptions; after the
\* shutdown a last message.
SockTurn(k) ==
    /\ pc[k] \in {"open", "woken"} /\ Forget(k)
    /\ \/ flag /\ Send(k, "error") /\ Goto(k, "ended") /\ UNCHANGED conn
       \/ /\ ~flag /\ Goto(k, "resolve") /\ UNCHANGED out
          /\ Local(k, [conn[k] EXCEPT !.snap = subs[k], !.todo = Subscribed(k), !.seen = {}])
    /\ UNCHANGED <<delivery, cache, sockets>>
\* The topics of the copy; one that is gone leaves the subscriptions.
SockResolve(k) ==
    /\ pc[k] = "resolve" /\ conn[k].todo # {}
    /\ \E n \in conn[k].todo :
         IF topic[n].up
         THEN /\ Local(k, [conn[k] EXCEPT !.todo = @ \ {n}, !.seen = @ \cup {n}])
              /\ UNCHANGED <<subs, out>>
         ELSE /\ Local(k, [conn[k] EXCEPT !.todo = @ \ {n}])
              /\ subs' = [subs EXCEPT ![k] = Without(@, n)]
              /\ Send(k, "deleted")
    /\ UNCHANGED <<delivery, cache, permit, asked, pc, waits, woken>>
\* The waiters are registered before the topics are drained.
SockArm(k) ==
    /\ pc[k] = "resolve" /\ conn[k].todo = {}
    /\ Local(k, [conn[k] EXCEPT !.todo = conn[k].seen])
    /\ Register(k, {TopicOf(n) : n \in conn[k].seen}) /\ Goto(k, "topic")
    /\ UNCHANGED <<delivery, cache, sockets, out, woken>>
SockTopic(k) ==
    /\ pc[k] = "topic"
    /\ IF conn[k].todo = {} THEN Goto(k, "enable") /\ UNCHANGED conn
       ELSE /\ \E n \in conn[k].todo :
                 Local(k, [conn[k] EXCEPT !.todo = @ \ {n}, !.cur = n])
            /\ Goto(k, "diff")
    /\ UNCHANGED <<delivery, cache, sockets, out, waits, woken>>

\* One diff from the subscription as it is now, framed for the copy's
\* variant.
SockDiff(k) ==
    LET n == conn[k].cur
        sub == subs[k][n]
        d == Diff(n, sub.cursor)
        v == FrameVariant(conn[k].snap[n].tags)
    IN  /\ pc[k] = "diff"
        /\ IF n \notin Subscribed(k)
           THEN Goto(k, "topic") /\ UNCHANGED <<cache, conn, subs, out, left>>
           ELSE \/ /\ topic[n].up /\ Goto(k, "tomb") /\ UNCHANGED <<subs, out, left>>
                   /\ Local(k, [conn[k] EXCEPT !.d = d])
                   /\ cache' = [cache EXCEPT ![n] =
                                  insert_serialized(@, frames(n, d.seqs, v, sub.tags))]
                \/ /\ IF topic[n].up THEN Use("failures") ELSE UNCHANGED left
                   /\ subs' = [subs EXCEPT ![k] = Without(@, n)]
                   /\ Send(k, "deleted") /\ Goto(k, "topic") /\ UNCHANGED <<cache, conn>>
        /\ UNCHANGED <<topic, now, sessions, clients, setup, live, slot, flag, notified,
                       permit, asked, waits, woken>>

\* The stored subscription, if there still is one.
Store(k, to, told, was) ==
    LET n == conn[k].cur
    IN  IF n \notin Subscribed(k) THEN UNCHANGED <<subs, asked>>
        ELSE /\ subs' = [subs EXCEPT ![k][n].cursor = to, ![k][n].was = @ /\ was]
             /\ asked' = [asked EXCEPT ![k][n].sent = @ \cup told]
SockTomb(k) ==
    LET d == conn[k].d
    IN  /\ pc[k] = "tomb" /\ Goto(k, "records")
        /\ IF d.has
           THEN /\ Send(k, "tombstone")
                /\ Store(k, d.tomb.to, (d.tomb.from + 1)..d.tomb.to, FALSE)
           ELSE UNCHANGED <<subs, asked, out>>
        /\ UNCHANGED <<delivery, cache, conn, permit, waits, woken>>
SockRecords(k) ==
    LET d == conn[k].d
    IN  /\ pc[k] = "records" /\ Goto(k, "caught")
        /\ Store(k, d.next, ToSet(d.seqs), d.seqs = <<>>)
        /\ IF d.seqs = <<>> THEN UNCHANGED out ELSE Send(k, "record")
        /\ UNCHANGED <<delivery, cache, conn, permit, waits, woken>>
SockCaughtUp(k) ==
    LET n == conn[k].cur
        first == n \in Subscribed(k) /\ ~subs[k][n].was
    IN  /\ pc[k] = "caught"
        /\ IF ~conn[k].d.caught THEN Goto(k, "diff") /\ UNCHANGED <<subs, out>>
           ELSE /\ Goto(k, "topic")
                /\ IF first THEN Send(k, "caught_up") /\ subs' = [subs EXCEPT ![k][n].was = TRUE]
                   ELSE UNCHANGED <<subs, out>>
        /\ UNCHANGED <<delivery, cache, conn, asked, permit, waits, woken>>
\* A notification, the permit of a changed subscription, or 30 seconds.
SockWake(k) ==
    /\ pc[k] = "parked" /\ Goto(k, "woken")
    /\ (k \in woken \cup permit /\ UNCHANGED left) \/ Use("heartbeats")
    /\ permit' = permit \ {k}
    /\ UNCHANGED <<topics, sessions, conn, subs, asked, out, clients, setup, live, slot, signals>>

WatchInit ==
    /\ topic = [n \in Names |-> [up |-> TRUE, head |-> 0, hidden |-> {}, floor |-> 1]]
    /\ cache = [n \in Names |-> {}] /\ now = 0
    /\ sess = [v \in Wids |-> [step |-> "none", active |-> 0, last |-> 0, start |-> 0,
                               cursor |-> [n \in setup.topics |-> 0]]]
    /\ store = [map |-> {}, count |-> 0]
    /\ conn = [c \in Streams \cup Socks |-> NewConn(NoConn, NoRewind)]
    /\ subs = [k \in Socks |-> <<>>] /\ permit = {}
    /\ asked = [k \in Socks |-> <<>>]
    /\ out = [c \in Streams \cup Socks |-> <<>>]
    /\ at = [v \in Wids |-> NoConn]
    /\ client = [v \in Wids |-> [last |-> NoRewind, got |-> [n \in Names |-> {}]]]
    /\ excused = {}

StreamStep(s) ==
    StreamOpen(s) \/ StreamRewind(s) \/ StreamTurn(s) \/ StreamTopic(s)
    \/ StreamDrained(s) \/ StreamDiff(s) \/ StreamTomb(s) \/ StreamRecords(s)
    \/ StreamCaughtUp(s) \/ StreamWake(s)
SockStep(k) ==
    SockTurn(k) \/ SockResolve(k) \/ SockArm(k) \/ SockTopic(k) \/ SockDiff(k)
    \/ SockTomb(k) \/ SockRecords(k) \/ SockCaughtUp(k) \/ SockWake(k)
WatchNext ==
    \/ PublishRecord \/ TrimTopic \/ DeleteTopic \/ Tick
    \/ \E v \in setup.wids : CreateSession(v) \/ ReserveSession(v) \/ InsertSession(v)
                           \/ ClientReads(v) \/ ClientBreaks(v) \/ ClientEnds(v)
    \/ \E s \in Streams : StreamGet(s) \/ StreamStep(s) \/ StreamBroken(s)
    \/ \E k \in Socks : SockConnect(k) \/ SockSubscribe(k) \/ SockUnsubscribe(k)
                        \/ SockReads(k) \/ SockClose(k) \/ SockStep(k)

-----------------------------------------------------------------------------
(* Properties.                                                             *)

\* What lies between where the client of a session started and the id it
\* holds has been processed: each record was delivered to it, was in a gap it
\* was told of, or is not shown to it.
ClientWhole(v) ==
    \A n \in setup.topics : client[v].last[n] # Top =>
        \A s \in (sess[v].start + 1)..client[v].last[n] :
            s \in client[v].got[n] \cup topic[n].hidden
\* The same for the subscription of a socket and what was sent for it.
SubWhole(k) ==
    \A n \in Subscribed(k) : \A s \in (asked[k][n].from + 1)..subs[k][n].cursor :
        s \in asked[k][n].sent \cup topic[n].hidden
\* A consumer that comes back misses nothing silently, wherever its
\* connection broke: the cursors of a session and of a subscription run only
\* over what was delivered.  A client that comes back before it has an id is
\* excepted.
DeliveredWhole ==
    /\ \A v \in Wids : <<"blind", v>> \in excused \/ ClientWhole(v)
    /\ setup.retune \/ \A k \in Socks : SubWhole(k)

\* A stream that waits while it should act has a wake-up pending: every
\* stream after the shutdown was triggered; a socket when a subscription has
\* records or has changed.
NoMissedWake ==
    \A c \in Conns : pc[c] = "parked" =>
        /\ notified => c \in woken
        /\ c \in Socks =>
             \/ c \in woken \cup permit
             \/ \A n \in Subscribed(c) : ~topic[n].up \/ subs[c][n].cursor >= topic[n].head


\* The count of sessions is exact and within its cap, and a session with an
\* open stream is in the registry, unless it was reaped by another request
\* between the look-up and the opening of the stream.
SessionsHold ==
    /\ store.count = Cardinality(store.map)
                     + Cardinality({v \in Wids : sess[v].step = "reserved"})
    /\ setup.max_sessions # 0 => store.count <= setup.max_sessions
    /\ \A v \in Wids : sess[v].active > 0 => v \in store.map \/ <<"reaped", v>> \in excused

\* The same with no exception: "A session with an open stream is never
\* reclaimed" (docs/API.md).
OpenNeverReclaimed == \A v \in Wids : sess[v].active > 0 => v \in store.map

\* A client is told that a topic is deleted only if it is: "Diff only fails
\* with topic_not_found here" (http/watch.rs).
DeletedIsDeleted ==
    \A s \in Streams : \A n \in conn[s].deleted : ~topic[n].up
=============================================================================
