------------------------------- MODULE MCFront -------------------------------
(* Small instances of Front.                                               *)
EXTENDS Front

CONSTANTS p1, p2, w1, s1, s2, x1, k1, k2, t1, t2, t3, v1, v2

MCKeyOf == [c \in Conns \cup Pollers |-> IF c \in {s2, x1} THEN k2 ELSE k1]
\* The second poller asks for a longer lease.
MCLeaseAsked == [p \in Claimers |-> IF p = p2 THEN 2 ELSE 1]

None == [b \in Bounds |-> 0]
Fixed == [conns |-> {}, wids |-> {}, max_sse |-> 0, max_sse_key |-> 0,
          max_inflight |-> 0, max_sessions |-> 0, jitter |-> TRUE, topics |-> {t1}, from |-> {0},
          overlap |-> FALSE, retune |-> FALSE, bound |-> None]

\* Claims that meet in cohorts; leaders and joiners go away.
Cohorts == [Fixed EXCEPT !.bound = [None EXCEPT !["claims"] = 4, !["cancels"] = 1]]
Lapsed == [Fixed EXCEPT !.bound = [None EXCEPT !["claims"] = 3, !["expiries"] = 1]]
\* The same without a window.
Greedy == [Fixed EXCEPT !.jitter = FALSE, !.conns = {w1}, !.bound = [None EXCEPT
             !["claims"] = 2, !["cancels"] = 1, !["expiries"] = 1]]
\* More claims of a key than it may have under way.
Throttled == [Greedy EXCEPT !.max_inflight = 1]
\* A /work connection and a poller.
Working == [Fixed EXCEPT !.conns = {w1}, !.bound = [None EXCEPT !["claims"] = 1,
              !["acks"] = 1, !["breaks"] = 1, !["polls"] = 1, !["appends"] = 1]]
\* The queue is deleted, and the server stops.
Stopping == [Fixed EXCEPT !.conns = {w1}, !.topics = {}, !.bound = [None EXCEPT
              !["claims"] = 1, !["stops"] = 1, !["appends"] = 1, !["deletions"] = 1]]
MCCohorts == {Cohorts}
MCWorking == {Working}

\* A client that loses its connections and comes back.
Resumed == [Fixed EXCEPT !.conns = {s1, s2}, !.wids = {v1}, !.bound = [None EXCEPT
              !["publishes"] = 2, !["breaks"] = 1]]
\* The same when records are evicted, or were never there.
Trimmed == [Fixed EXCEPT !.conns = {s1, s2}, !.wids = {v1}, !.bound = [None EXCEPT
              !["publishes"] = 2, !["trims"] = 1, !["breaks"] = 1]]
Ahead == [Trimmed EXCEPT !.conns = {s1, x1}, !.from = {2}, !.bound["trims"] = 0,
            !.bound["breaks"] = 0]
\* Two topics, one is deleted.
Dropped == [Fixed EXCEPT !.conns = {s1}, !.wids = {v1}, !.topics = {t1, t2},
             !.bound = [None EXCEPT !["publishes"] = 1, !["deletions"] = 2,
                                    !["failures"] = 1, !["heartbeats"] = 1]]
Unwatched == [Dropped EXCEPT !.conns = {x1}, !.wids = {}, !.bound["deletions"] = 1,
                !.bound["commands"] = 1]
\* Sessions expire while streams open; the caps are reached.
Reaped == [Fixed EXCEPT !.conns = {s1, s2}, !.wids = {v1, v2}, !.max_sessions = 1,
             !.max_sse = 1, !.bound = [None EXCEPT !["ticks"] = 2, !["breaks"] = 1]]
MCReaped == {Reaped}
Capped == [Fixed EXCEPT !.conns = {s1, w1, x1}, !.wids = {v1}, !.max_sse = 2,
             !.max_sse_key = 1, !.bound = [None EXCEPT !["breaks"] = 1, !["stops"] = 1]]
\* A socket that subscribes and unsubscribes while records come.
Sockets == [Fixed EXCEPT !.conns = {x1}, !.bound = [None EXCEPT
              !["publishes"] = 2, !["commands"] = 2, !["trims"] = 1]]
\* A socket and a stream share the frames.
Shared == [Fixed EXCEPT !.conns = {s1, x1}, !.wids = {v1}, !.bound = [None EXCEPT
             !["publishes"] = 1, !["commands"] = 1]]
\* The server stops.
Stopped == [Fixed EXCEPT !.conns = {s1}, !.wids = {v1}, !.bound = [None EXCEPT
             !["publishes"] = 1, !["stops"] = 1]]
MCSound == {Cohorts, Lapsed, Greedy, Throttled, Working, Stopping, Resumed, Trimmed,
            Ahead, Dropped, Unwatched, Reaped, Capped, Sockets, Shared, Stopped}

\* A client comes back while its old stream still runs.
Overlapping == [Resumed EXCEPT !.overlap = TRUE]
MCOverlapping == {Overlapping}
\* A subscription is replaced while it is delivered.
Retuned == [Sockets EXCEPT !.retune = TRUE]
MCRetuned == {Retuned}
\* Retention cannot be made durable.
Failing == [Dropped EXCEPT !.conns = {s1}, !.bound = [None EXCEPT !["failures"] = 1]]
MCFailing == {Failing}
=============================================================================
