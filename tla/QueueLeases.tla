---------------------------- MODULE QueueLeases ----------------------------
(***************************************************************************)
(* The lease projection of one queue topic (src/engine/queue.rs): claim    *)
(* passes, ack, nack, extend, the release of a /work connection, lease     *)
(* expiry and dead-lettering, run by concurrent request threads.           *)
(*                                                                         *)
(* The projection is guarded by the queue mutex.  A claim pass holds the   *)
(* mutex, and the read lock of the index, over its whole loop; the model   *)
(* takes one step per iteration.  Everything the code does off the mutex   *)
(* (the dead-letter append, the durable deletes, the lease frames) is a    *)
(* step of its own, so that other requests run in between.                 *)
(*                                                                         *)
(* Time is relative: a lease carries the ticks left until its deadline and *)
(* a delayed nack the ticks left until it is ready.  A request reads the   *)
(* clock before it gets the mutex; its lag is the ticks lost in between.   *)
(***************************************************************************)
EXTENDS Integers, Sequences, FiniteSets, Functions

CONSTANTS
    MaxSeq,         \* bound: the jobs are 1..MaxSeq
    Nodes,          \* worker identities
    Conns,          \* ids of /work connections
    NoConn,         \* the connection of a poll claim
    Procs,          \* request threads
    NoProc,         \* the owner of a free queue mutex
    Cohorts,        \* the claimer cohorts a pass may serve
    LeaseTtl,       \* ticks a lease lasts
    NackDelays,     \* the delays a nack may ask for (0: none)
    MaxLag,         \* bound on the lag of a request's clock reading
    MaxDeliveries,  \* max_deliveries of the topic (0: no limit)
    HasDeadLetter,  \* whether the topic names a dead-letter topic
    FsyncClass,     \* whether the jobs log has the fsync durability class
    LeasesDurable,  \* leases_durable of the topic
    MaxLeaseId,     \* bound on the lease ids handed out
    MaxFaults,      \* bound on the WAL failures and lost frames
    MaxExtends      \* bound on the extend requests

Jobs == 1..MaxSeq
LeaseIds == 1..MaxLeaseId
Lags == 0..MaxLag
Claimer == [node : Nodes, conn : Conns \cup {NoConn}, max : 1..MaxSeq]

ASSUME BoundsAreNat ==
    /\ MaxSeq \in Nat /\ MaxLeaseId \in Nat /\ MaxFaults \in Nat
    /\ MaxExtends \in Nat /\ LeaseTtl \in Nat /\ MaxDeliveries \in Nat
    /\ MaxLag \in Nat
ASSUME DelaysAreNat == NackDelays \subseteq Nat
ASSUME SwitchesAreBoolean ==
    /\ HasDeadLetter \in BOOLEAN
    /\ FsyncClass \in BOOLEAN
    /\ LeasesDurable \in BOOLEAN
ASSUME NoProcIsNoProc == NoProc \notin Procs
ASSUME CohortsAreNonempty ==
    \A c \in Cohorts : c \in Seq(Claimer) /\ Len(c) > 0

VARIABLES
    head,           \* highest published job seq
    live,           \* published jobs present in the index and not deleted
    leases,         \* seq -> [node, id, ttl, conn]
    deliveries,     \* seq -> deliveries so far (0: no entry)
    reclaim,        \* the reclaim freelist (heap and in_reclaim)
    delayed,        \* delayed nacks: set of [seq, left]
    claim_cursor,   \* next never-leased seq
    dead_lettered,  \* jobs diverted to the dead-letter topic
    next_lease_id,  \* lease id allocator
    lock,           \* owner of the queue mutex across a claim pass
    seen_head,      \* head_seq as the running claim pass read it
    pass_ttl,       \* ticks to the deadline of the leases it hands out
    cohort,         \* its claimers
    remaining,      \* the demand left of each claimer
    rr,             \* the claimer to serve next
    pc,             \* where each request thread is
    diverted,       \* to_dead_letter of each thread's pass
    slots,          \* diverted jobs whose dead-letter copy was built
    acking,         \* seq -> [node, id, token] of the jobs still to delete
    cur,            \* the job each thread is deleting
    events,         \* lease events each thread has still to log
    gone,           \* jobs with a Delete frame in the WAL
    lease_log,      \* Lease frames in the WAL
    copies,         \* dead-letter records appended, per source job
    acked,          \* jobs whose ack deleted them
    issued,         \* seq -> id of the last lease handed out (0: none)
    faults,         \* failures so far
    extends         \* extend requests so far

allocators == <<claim_cursor, dead_lettered, next_lease_id>>
projection == <<leases, deliveries, reclaim, delayed, allocators>>
jobslog == <<head, live, gone, copies>>
transit == <<diverted, slots, acking, cur>>
threads == <<pc, transit, events>>
pass == <<seen_head, pass_ttl, cohort, remaining, rr>>
mutex == <<lock, pass>>
history == <<acked, issued>>
budget == <<faults, extends>>
vars == <<projection, jobslog, threads, mutex, history, budget, lease_log>>

Lease == [node : Nodes, id : LeaseIds, ttl : Int, conn : Conns \cup {NoConn}]
Pending == [node : Nodes, id : LeaseIds, token : LeaseIds \cup {0}]
Event == [event : {"claimed", "released", "extended", "acked"}, seq : Jobs,
          node : Nodes, id : LeaseIds, deliveries : Nat]
Pcs == {"idle", "claim", "dl_slots", "dl_append", "dl_delete", "dl_apply",
        "ack_delete", "ack_apply", "ack_requeue", "ack_log", "log",
        "nack_log", "settle"}

Init ==
    /\ head = 0 /\ live = {} /\ gone = {}
    /\ leases = [s \in {} |-> 0]
    /\ deliveries = [s \in Jobs |-> 0]
    /\ reclaim = {} /\ delayed = {}
    /\ claim_cursor = 1 /\ dead_lettered = 0 /\ next_lease_id = 1
    /\ lock = NoProc /\ seen_head = 0 /\ pass_ttl = 0
    /\ cohort = <<>> /\ remaining = <<>> /\ rr = 1
    /\ pc = [p \in Procs |-> "idle"]
    /\ diverted = [p \in Procs |-> {}]
    /\ slots = [p \in Procs |-> {}]
    /\ acking = [p \in Procs |-> [s \in {} |-> 0]]
    /\ cur = [p \in Procs |-> 0]
    /\ events = [p \in Procs |-> <<>>]
    /\ lease_log = <<>>
    /\ copies = [s \in Jobs |-> 0]
    /\ acked = {}
    /\ issued = [s \in Jobs |-> 0]
    /\ faults = 0 /\ extends = 0

-----------------------------------------------------------------------------
(* sweep_expired: due delayed nacks, unless leased, then expired leases.   *)

Expired(lag) == {s \in DOMAIN leases : leases[s].ttl + lag < 0}
Due(lag) == {d \in delayed : d.left + lag <= 0}
Unexpired(lag) == DOMAIN leases \ Expired(lag)
\* Mutant: expired leases are dropped without being reclaimed.
SweptDueOnly(lag) ==
    reclaim \cup ({d.seq : d \in Due(lag)} \ DOMAIN leases)
SweptReclaim(lag) ==
    reclaim \cup Expired(lag)
            \cup ({d.seq : d \in Due(lag)} \ DOMAIN leases)

\* Mutant: a reclaimed seq keeps its expired lease.
SweepKeepingLeases(lag) ==
    /\ reclaim' = SweptReclaim(lag)
    /\ delayed' = delayed \ Due(lag)
    /\ UNCHANGED leases
Sweep(lag) ==
    /\ reclaim' = SweptReclaim(lag)
    /\ leases' = Restrict(leases, Unexpired(lag))
    /\ delayed' = delayed \ Due(lag)

(* The index is write-locked by a delete, so no delete lands in a pass.    *)
IndexFree == lock = NoProc

Fault == faults < MaxFaults /\ faults' = faults + 1

-----------------------------------------------------------------------------
(* The jobs log around the projection.                                     *)

\* A write to the queue topic publishes one more job.
Publish ==
    /\ head < MaxSeq
    /\ head' = head + 1
    /\ live' = live \cup {head + 1}
    /\ UNCHANGED <<projection, gone, copies, threads, history, budget, mutex,
                   lease_log>>

\* The delete API or a retention pass removes a job, leased or not.
RemoveJob(s) ==
    /\ IndexFree
    /\ s \in live
    /\ live' = live \ {s}
    /\ gone' = gone \cup {s}
    /\ UNCHANGED <<projection, head, copies, threads, history, budget, mutex,
                   lease_log>>

\* The clock advances by one tick; a deadline MaxLag + 1 ticks past is past
\* for every later reading of the clock.
Later(left) == IF left + MaxLag < 0 THEN left ELSE left - 1
WithTtl(l, ttl) ==
    [node |-> l.node, id |-> l.id, ttl |-> ttl, conn |-> l.conn]
Tick ==
    /\ leases' = [s \in DOMAIN leases |->
                     WithTtl(leases[s], Later(leases[s].ttl))]
    /\ delayed' = {[seq |-> d.seq, left |-> Later(d.left)] : d \in delayed}
    /\ pass_ttl' = Later(pass_ttl)
    /\ UNCHANGED <<deliveries, reclaim, allocators, jobslog, threads, history,
                   budget, lock, seen_head, cohort, remaining, rr, lease_log>>

-----------------------------------------------------------------------------
(* run_claim_cohort: sweep, then hand out jobs round-robin.                *)

ClaimBegin(p, claimers, lag) ==
    /\ pc[p] = "idle" /\ lock = NoProc
    /\ Sweep(lag)
    /\ lock' = p
    /\ seen_head' = head
    /\ pass_ttl' = LeaseTtl - lag
    /\ cohort' = claimers
    /\ remaining' = [i \in DOMAIN claimers |-> claimers[i].max]
    /\ rr' = 1
    /\ pc' = [pc EXCEPT ![p] = "claim"]
    /\ UNCHANGED <<deliveries, allocators, jobslog, transit, events, history,
                   budget, lease_log>>

\* The next claimer that still wants jobs, searching circularly from rr.
Wanting == {i \in DOMAIN remaining : remaining[i] > 0}
Following(i) == IF i = Len(remaining) THEN 1 ELSE i + 1
Distance(i) == IF i >= rr THEN i - rr
               ELSE i + Len(remaining) - rr
Served == {i \in Wanting : \A j \in Wanting : Distance(i) <= Distance(j)}

\* next_claimable looks at the lowest reclaimed seq, else at the cursor.
Candidates == IF reclaim # {} THEN {s \in reclaim : \A t \in reclaim : s <= t}
              ELSE {s \in {claim_cursor} : s <= seen_head}
\* Mutant: the cursor moves even when the freelist served the job.
PopBoth(s) == reclaim' = reclaim \ {s} /\ claim_cursor' = claim_cursor + 1
Pop(s) ==
    /\ reclaim' = reclaim \ {s}
    /\ claim_cursor' = IF reclaim # {} THEN claim_cursor ELSE claim_cursor + 1

Claimable(s) == s \notin DOMAIN leases /\ s \in live
PastLimit(s) == MaxDeliveries > 0 /\ deliveries[s] + 1 > MaxDeliveries
                /\ HasDeadLetter

InPass(p) == lock = p /\ pc[p] = "claim" /\ Wanting # {}

\* A leased or dead candidate is dropped.
ClaimSkip(p) ==
    /\ InPass(p)
    /\ \E s \in Candidates : ~Claimable(s) /\ Pop(s)
    /\ UNCHANGED <<leases, deliveries, delayed, dead_lettered, next_lease_id,
                   jobslog, threads, history, budget, mutex, lease_log>>

\* A job delivered max_deliveries times is diverted to the dead-letter topic.
ClaimDivert(p) ==
    /\ InPass(p)
    /\ \E s \in Candidates :
         /\ Claimable(s) /\ PastLimit(s) /\ Pop(s)
         /\ deliveries' = [deliveries EXCEPT ![s] = 0]
         /\ diverted' = [diverted EXCEPT ![p] = @ \cup {s}]
    /\ dead_lettered' = dead_lettered + 1
    /\ UNCHANGED <<leases, delayed, next_lease_id, jobslog, pc, slots, acking,
                   cur, events, history, budget, mutex, lease_log>>

\* Job s goes to claimer i of the cohort.
LeaseTo(p, s, i) ==
    /\ deliveries' = [deliveries EXCEPT ![s] = @ + 1]
    /\ leases' = [t \in DOMAIN leases \cup {s} |->
           IF t = s THEN [node |-> cohort[i].node, id |-> next_lease_id,
                          ttl |-> pass_ttl, conn |-> cohort[i].conn]
           ELSE leases[t]]
    /\ issued' = [issued EXCEPT ![s] = next_lease_id]
    /\ remaining' = [remaining EXCEPT ![i] = @ - 1]
    /\ rr' = Following(i)
    /\ events' = IF ~LeasesDurable THEN events ELSE
           [events EXCEPT ![p] = Append(@,
              [event |-> "claimed", seq |-> s, node |-> cohort[i].node,
               id |-> next_lease_id, deliveries |-> deliveries[s] + 1])]

\* Any other claimable job is leased to the claimer whose turn it is.
ClaimLease(p) ==
    /\ InPass(p)
    /\ next_lease_id <= MaxLeaseId
    /\ \E s \in Candidates, i \in Served :
         Claimable(s) /\ ~PastLimit(s) /\ Pop(s) /\ LeaseTo(p, s, i)
    /\ next_lease_id' = next_lease_id + 1
    /\ UNCHANGED <<delayed, dead_lettered, jobslog, pc, transit, acked,
                   budget, lock, seen_head, pass_ttl, cohort, lease_log>>

\* Once the diverted jobs are dealt with, the claims are logged.
AfterDeadLetter(p) == IF events[p] # <<>> THEN "log" ELSE "idle"

\* The variables of the pass go out of scope.
PassReset ==
    /\ seen_head' = 0 /\ pass_ttl' = 0
    /\ cohort' = <<>> /\ remaining' = <<>> /\ rr' = 1

\* Demand met or nothing left: release the locks.
ClaimEnd(p) ==
    /\ lock = p /\ pc[p] = "claim"
    /\ Wanting = {} \/ Candidates = {}
    /\ lock' = NoProc /\ PassReset
    /\ pc' = [pc EXCEPT ![p] = IF diverted[p] # {} THEN "dl_slots"
                               ELSE AfterDeadLetter(p)]
    /\ UNCHANGED <<projection, jobslog, transit, events, history, budget,
                   lease_log>>

-----------------------------------------------------------------------------
(* dead_letter_jobs: copy the diverted jobs, then delete them.             *)

\* Build the copies of the diverted jobs that are still live.
DeadLetterSlots(p) ==
    /\ pc[p] = "dl_slots"
    /\ slots' = [slots EXCEPT ![p] = diverted[p] \cap live]
    /\ pc' = [pc EXCEPT ![p] = "dl_append"]
    /\ UNCHANGED <<projection, jobslog, diverted, acking, cur, events,
                   history, budget, mutex, lease_log>>

\* Mutant: the result of the append is not looked at.
DeadLetterAppendLost(p) ==
    /\ pc[p] = "dl_append"
    /\ slots' = [slots EXCEPT ![p] = {}]
    /\ pc' = [pc EXCEPT ![p] = "dl_delete"]
    /\ UNCHANGED <<projection, jobslog, diverted, acking, cur, events, history,
                   budget, mutex, lease_log>>
\* durable_append of the copies to the dead-letter topic.
DeadLetterAppend(p) ==
    /\ pc[p] = "dl_append"
    /\ copies' = [s \in Jobs |-> IF s \in slots[p] THEN copies[s] + 1
                                 ELSE copies[s]]
    /\ slots' = [slots EXCEPT ![p] = {}]
    /\ pc' = [pc EXCEPT ![p] = "dl_delete"]
    /\ UNCHANGED <<projection, head, live, gone, diverted, acking, cur,
                   events, history, budget, mutex, lease_log>>

\* The dead-letter topic is missing or the append failed: requeue_diverted.
DeadLetterFail(p) ==
    /\ pc[p] \in {"dl_slots", "dl_append"} /\ lock = NoProc /\ Fault
    /\ reclaim' = reclaim \cup diverted[p]
    /\ dead_lettered' = IF dead_lettered >= Cardinality(diverted[p])
                        THEN dead_lettered - Cardinality(diverted[p]) ELSE 0
    /\ diverted' = [diverted EXCEPT ![p] = {}]
    /\ slots' = [slots EXCEPT ![p] = {}]
    /\ pc' = [pc EXCEPT ![p] = AfterDeadLetter(p)]
    /\ UNCHANGED <<leases, deliveries, delayed, claim_cursor, next_lease_id,
                   jobslog, acking, cur, events, history, extends, mutex,
                   lease_log>>

\* delete_one_seq, fsync class: the Delete frame is committed first.
DeadLetterCommit(p) ==
    /\ pc[p] = "dl_delete" /\ FsyncClass
    /\ \E s \in diverted[p] :
         /\ gone' = gone \cup {s}
         /\ cur' = [cur EXCEPT ![p] = s]
    /\ pc' = [pc EXCEPT ![p] = "dl_apply"]
    /\ UNCHANGED <<projection, head, live, copies, diverted, slots, acking,
                   events, history, budget, mutex, lease_log>>

\* The commit failed: the job goes back to the freelist.
DeadLetterCommitFail(p) ==
    /\ pc[p] = "dl_delete" /\ FsyncClass /\ lock = NoProc /\ Fault
    /\ \E s \in diverted[p] :
         /\ reclaim' = reclaim \cup {s}
         /\ diverted' = [diverted EXCEPT ![p] = @ \ {s}]
    /\ UNCHANGED <<leases, deliveries, delayed, allocators, jobslog, pc,
                   slots, acking, cur, events, history, extends, mutex,
                   lease_log>>

DeadLetterApply(p) ==
    /\ pc[p] = "dl_apply" /\ IndexFree
    /\ live' = live \ {cur[p]}
    /\ diverted' = [diverted EXCEPT ![p] = @ \ {cur[p]}]
    /\ cur' = [cur EXCEPT ![p] = 0]
    /\ pc' = [pc EXCEPT ![p] = "dl_delete"]
    /\ UNCHANGED <<projection, head, gone, copies, slots, acking, events,
                   history, budget, mutex, lease_log>>

\* delete_one_seq, other classes: memory first, the frame may be lost.
DeadLetterDelete(p) ==
    /\ pc[p] = "dl_delete" /\ ~FsyncClass /\ IndexFree
    /\ \E s \in diverted[p] :
         /\ live' = live \ {s}
         /\ diverted' = [diverted EXCEPT ![p] = @ \ {s}]
         /\ \/ gone' = gone \cup {s} /\ UNCHANGED faults
            \/ Fault /\ UNCHANGED gone
    /\ UNCHANGED <<projection, head, copies, pc, slots, acking, cur, events,
                   history, extends, mutex, lease_log>>

DeadLetterDone(p) ==
    /\ pc[p] = "dl_delete" /\ diverted[p] = {}
    /\ pc' = [pc EXCEPT ![p] = AfterDeadLetter(p)]
    /\ UNCHANGED <<projection, jobslog, transit, events, history, budget,
                   mutex, lease_log>>

-----------------------------------------------------------------------------
(* Requests of a worker: the seqs asked for, each with the lease token it  *)
(* presents (0: none).  A seq that is not leased is skipped, so asking for *)
(* leased ones covers every request; one that matches no lease only sweeps *)
(* (Counters).                                                             *)

Tokens == 0..(next_lease_id - 1)
Asks == UNION {[S -> Tokens] : S \in SUBSET DOMAIN leases}

\* Mutant: the token is not compared.
AnyToken(token, held) == TRUE
lease_token_ok(token, held) == token = 0 \/ token = held

\* Mutant: a lease that just expired still counts as held.
HeldOrExpired(n, ask, lag) ==
    {s \in DOMAIN ask :
        leases[s].node = n /\ lease_token_ok(ask[s], leases[s].id)}
\* The seqs of ask that n holds, with the right token, after the sweep.
Held(n, ask, lag) ==
    {s \in DOMAIN ask \cap Unexpired(lag) :
        leases[s].node = n /\ lease_token_ok(ask[s], leases[s].id)}

\* One event per seq, in the order of the request.
Orders(S) == Injection(1..Cardinality(S), S)
EventOf(kind, s) ==
    [event |-> kind, seq |-> s, node |-> leases[s].node, id |-> leases[s].id,
     deliveries |-> 0]
Emit(p, kind, S) ==
    IF ~LeasesDurable THEN UNCHANGED events
    ELSE \E order \in Orders(S) :
           events' = [events EXCEPT ![p] =
                        [i \in DOMAIN order |-> EventOf(kind, order[i])]]

\* ack_fenced, under the mutex: the leases are dropped before the deletes.
AckBegin(p, n, ask, lag) ==
    /\ pc[p] = "idle" /\ lock = NoProc
    /\ Held(n, ask, lag) # {}
    /\ LET mine == Held(n, ask, lag) IN
       /\ reclaim' = SweptReclaim(lag)
       /\ delayed' = delayed \ Due(lag)
       /\ leases' = Restrict(leases, Unexpired(lag) \ mine)
       /\ deliveries' = [s \in Jobs |-> IF s \in mine THEN 0
                                        ELSE deliveries[s]]
       /\ acking' = [acking EXCEPT ![p] = [s \in mine |->
              [node |-> n, id |-> leases[s].id, token |-> ask[s]]]]
    /\ pc' = [pc EXCEPT ![p] = "ack_delete"]
    /\ UNCHANGED <<allocators, jobslog, diverted, slots, cur, events, history,
                   budget, mutex, lease_log>>

\* delete_one_seq, fsync class: commit the Delete frame of the next job.
AckCommit(p) ==
    /\ pc[p] = "ack_delete" /\ FsyncClass
    /\ \E s \in DOMAIN acking[p] :
         /\ gone' = gone \cup {s}
         /\ cur' = [cur EXCEPT ![p] = s]
    /\ pc' = [pc EXCEPT ![p] = "ack_apply"]
    /\ UNCHANGED <<projection, head, live, copies, diverted, slots, acking,
                   events, history, budget, mutex, lease_log>>

\* The commit failed: the request will fail.
AckFail(p) ==
    /\ pc[p] = "ack_delete" /\ FsyncClass
    /\ DOMAIN acking[p] # {} /\ Fault
    /\ pc' = [pc EXCEPT ![p] = "ack_requeue"]
    /\ UNCHANGED <<projection, jobslog, transit, events, history, extends,
                   mutex, lease_log>>

\* reclaim_seq of every job of the request that is not deleted yet.
AckRequeue(p) ==
    /\ pc[p] = "ack_requeue" /\ lock = NoProc
    /\ \E s \in DOMAIN acking[p] :
         /\ reclaim' = reclaim \cup {s}
         /\ acking' = [acking EXCEPT ![p] = Restrict(@, DOMAIN @ \ {s})]
         /\ pc' = [pc EXCEPT ![p] = IF DOMAIN acking[p] = {s} THEN "idle"
                                    ELSE "ack_requeue"]
    /\ UNCHANGED <<leases, deliveries, delayed, allocators, jobslog, diverted,
                   slots, cur, events, history, budget, mutex, lease_log>>

\* The acked job leaves the index and its Acked event is next to be logged.
Acknowledge(p, s) ==
    /\ live' = live \ {s}
    /\ acked' = acked \cup {s}
    /\ acking' = [acking EXCEPT ![p] = Restrict(@, DOMAIN @ \ {s})]
    /\ events' = IF ~LeasesDurable THEN events ELSE
           [events EXCEPT ![p] = <<[event |-> "acked", seq |-> s,
               node |-> acking[p][s].node, id |-> acking[p][s].id,
               deliveries |-> 0]>>]
    /\ pc' = [pc EXCEPT ![p] = IF LeasesDurable THEN "ack_log"
                               ELSE "ack_delete"]

AckApply(p) ==
    /\ pc[p] = "ack_apply" /\ IndexFree
    /\ Acknowledge(p, cur[p])
    /\ cur' = [cur EXCEPT ![p] = 0]
    /\ UNCHANGED <<projection, head, gone, copies, diverted, slots, issued,
                   budget, mutex, lease_log>>

\* delete_one_seq, other classes: memory first, the frame may be lost.
AckDelete(p) ==
    /\ pc[p] = "ack_delete" /\ ~FsyncClass /\ IndexFree
    /\ \E s \in DOMAIN acking[p] :
         /\ Acknowledge(p, s)
         /\ \/ gone' = gone \cup {s} /\ UNCHANGED faults
            \/ Fault /\ UNCHANGED gone
    /\ UNCHANGED <<projection, head, copies, diverted, slots, cur, issued,
                   extends, mutex, lease_log>>

AckDone(p) ==
    /\ pc[p] = "ack_delete" /\ DOMAIN acking[p] = {}
    /\ pc' = [pc EXCEPT ![p] = "settle"]
    /\ UNCHANGED <<projection, jobslog, transit, events, history, budget,
                   mutex, lease_log>>

\* nack_fenced: back to the freelist, or delayed.
Nack(p, n, ask, delay, lag) ==
    /\ pc[p] = "idle" /\ lock = NoProc
    /\ Held(n, ask, lag) # {}
    /\ LET mine == Held(n, ask, lag)
           later == IF delay > 0 THEN mine ELSE {}
       IN
       /\ reclaim' = SweptReclaim(lag) \cup (mine \ later)
       /\ delayed' = (delayed \ Due(lag)) \cup
                       {[seq |-> s, left |-> delay - lag] : s \in later}
       /\ leases' = Restrict(leases, Unexpired(lag) \ mine)
       /\ Emit(p, "released", mine)
    /\ pc' = [pc EXCEPT ![p] = IF LeasesDurable THEN "nack_log" ELSE "settle"]
    /\ UNCHANGED <<deliveries, allocators, jobslog, transit, history, budget,
                   mutex, lease_log>>

\* extend_fenced: a lease the sweep expired can no longer be extended.
Extend(p, n, ask, lag) ==
    /\ pc[p] = "idle" /\ lock = NoProc
    /\ extends < MaxExtends /\ extends' = extends + 1
    /\ Held(n, ask, lag) # {}
    /\ LET mine == Held(n, ask, lag) IN
       /\ reclaim' = SweptReclaim(lag)
       /\ delayed' = delayed \ Due(lag)
       /\ leases' = [s \in Unexpired(lag) |->
              IF s \in mine THEN WithTtl(leases[s], LeaseTtl - lag)
              ELSE leases[s]]
       /\ Emit(p, "extended", mine)
    /\ pc' = [pc EXCEPT ![p] = IF LeasesDurable THEN "log" ELSE "idle"]
    /\ UNCHANGED <<deliveries, allocators, jobslog, transit, history, faults,
                   mutex, lease_log>>

\* release_work_conn: the leases of a closed connection, with no sweep.
ReleaseConn(p, c) ==
    /\ pc[p] = "idle" /\ lock = NoProc
    /\ LET held == {s \in DOMAIN leases : leases[s].conn = c} IN
       /\ held # {}
       /\ leases' = Restrict(leases, DOMAIN leases \ held)
       /\ reclaim' = reclaim \cup held
       /\ Emit(p, "released", held)
    /\ pc' = [pc EXCEPT ![p] = IF LeasesDurable THEN "log" ELSE "idle"]
    /\ UNCHANGED <<deliveries, delayed, allocators, jobslog, transit, history,
                   budget, mutex, lease_log>>

\* log_lease_event: each event is one durable frame, or is lost.
LogEvent(p) ==
    /\ pc[p] \in {"log", "nack_log", "ack_log"} /\ events[p] # <<>>
    /\ \/ lease_log' = Append(lease_log, Head(events[p])) /\ UNCHANGED faults
       \/ Fault /\ UNCHANGED lease_log
    /\ events' = [events EXCEPT ![p] = Tail(@)]
    /\ pc' = [pc EXCEPT ![p] = IF Len(events[p]) > 1 THEN pc[p]
                               ELSE IF pc[p] = "ack_log" THEN "ack_delete"
                               ELSE IF pc[p] = "nack_log" THEN "settle"
                               ELSE "idle"]
    /\ UNCHANGED <<projection, jobslog, transit, history, extends, mutex>>

\* queue_ready_inflight: ack and nack end with a sweep for their counters.
Settle(p, lag) ==
    /\ pc[p] = "settle" /\ lock = NoProc
    /\ Sweep(lag)
    /\ pc' = [pc EXCEPT ![p] = "idle"]
    /\ UNCHANGED <<deliveries, allocators, jobslog, transit, events, history,
                   budget, mutex, lease_log>>

\* queue_counters of a state request.
Counters(lag) ==
    /\ lock = NoProc
    /\ Sweep(lag)
    /\ UNCHANGED <<deliveries, allocators, jobslog, threads, history, budget,
                   mutex, lease_log>>

-----------------------------------------------------------------------------
Requests(p) ==
    \E lag \in Lags :
        \/ \E c \in Cohorts : ClaimBegin(p, c, lag)
        \/ \E n \in Nodes, ask \in Asks :
             \/ AckBegin(p, n, ask, lag)
             \/ \E delay \in NackDelays : Nack(p, n, ask, delay, lag)
             \/ Extend(p, n, ask, lag)

ClaimPass(p) == ClaimSkip(p) \/ ClaimDivert(p) \/ ClaimLease(p) \/ ClaimEnd(p)

DeadLetter(p) ==
    \/ DeadLetterSlots(p) \/ DeadLetterAppend(p) \/ DeadLetterFail(p)
    \/ DeadLetterCommit(p) \/ DeadLetterCommitFail(p) \/ DeadLetterApply(p)
    \/ DeadLetterDelete(p) \/ DeadLetterDone(p)

Ack(p) ==
    \/ AckCommit(p) \/ AckFail(p) \/ AckRequeue(p) \/ AckApply(p)
    \/ AckDelete(p) \/ AckDone(p)

Finish(p) ==
    ClaimPass(p) \/ DeadLetter(p) \/ Ack(p) \/ LogEvent(p)
    \/ \E lag \in Lags : Settle(p, lag)

Next ==
    \/ Publish
    \/ Tick
    \/ \E lag \in Lags : Counters(lag)
    \/ \E s \in Jobs : RemoveJob(s)
    \/ \E p \in Procs, c \in Conns : ReleaseConn(p, c)
    \/ \E p \in Procs : Requests(p) \/ Finish(p)

Spec == Init /\ [][Next]_vars

-----------------------------------------------------------------------------
(* Properties.                                                             *)

Waiting == {d.seq : d \in delayed}
Transit(p) == diverted[p] \cup DOMAIN acking[p]
InTransit == UNION {Transit(p) : p \in Procs}
Places == DOMAIN leases \cup reclaim \cup Waiting \cup InTransit

LogTypes ==
    /\ head \in 0..MaxSeq /\ live \subseteq 1..head /\ gone \subseteq Jobs
    /\ copies \in [Jobs -> Nat]
LeaseTypes ==
    /\ DOMAIN leases \subseteq Jobs /\ leases \in [DOMAIN leases -> Lease]
    /\ reclaim \subseteq Jobs /\ delayed \subseteq [seq : Jobs, left : Int]
    /\ deliveries \in [Jobs -> Nat]
AllocatorTypes ==
    /\ claim_cursor \in 1..(MaxSeq + 1)
    /\ dead_lettered \in Nat
    /\ next_lease_id \in 1..(MaxLeaseId + 1)
PassTypes ==
    /\ lock \in Procs \cup {NoProc}
    /\ seen_head \in 0..head /\ pass_ttl \in Int /\ rr \in Int
    /\ cohort \in Seq(Claimer) /\ remaining \in [DOMAIN cohort -> Int]
ThreadTypes ==
    /\ pc \in [Procs -> Pcs]
    /\ diverted \in [Procs -> SUBSET Jobs] /\ slots \in [Procs -> SUBSET Jobs]
    /\ acking \in [Procs -> UNION {[S -> Pending] : S \in SUBSET Jobs}]
    /\ cur \in [Procs -> Jobs \cup {0}]
EventTypes == events \in [Procs -> Seq(Event)] /\ lease_log \in Seq(Event)
HistoryTypes ==
    /\ acked \subseteq Jobs /\ issued \in [Jobs -> LeaseIds \cup {0}]
    /\ faults \in 0..MaxFaults /\ extends \in 0..MaxExtends

\* The types of the projection, the jobs log and the threads.
TypeOK ==
    /\ LogTypes /\ LeaseTypes /\ AllocatorTypes /\ PassTypes
    /\ ThreadTypes /\ EventTypes /\ HistoryTypes

\* A job behind the claim cursor is in at most one place: leased, on the
\* reclaim freelist, delayed, or in the hands of one ack or dead-letter
\* request.  A job in two places would be handed to two workers.
OnePlace ==
    /\ DOMAIN leases \cap reclaim = {}
    /\ Waiting \cap (DOMAIN leases \cup reclaim) = {}
    /\ \A d, e \in delayed : d.seq = e.seq => d = e
    /\ InTransit \cap (DOMAIN leases \cup reclaim \cup Waiting) = {}
    /\ \A p \in Procs : diverted[p] \cap DOMAIN acking[p] = {}
    /\ \A p, q \in Procs : p # q => Transit(p) \cap Transit(q) = {}
    /\ \A s \in Places : s < claim_cursor

\* No live job is lost to the projection: next_claimable will find it, or a
\* lease, a delay or a running request will give it back.  The requeues on a
\* failed ack delete and a failed dead-letter append exist for this.
NoJobStranded == \A s \in live : s >= claim_cursor \/ s \in Places

\* A job whose ack deleted it is never live or leased again.
AckedNeverRedelivered == acked \cap (live \cup DOMAIN leases) = {}

\* Fencing: the ack that is deleting a job holds the last lease handed out for
\* it, under the token it presented; nobody was leased the job meanwhile.
AckHoldsLastLease ==
    /\ \A s \in DOMAIN leases : leases[s].id = issued[s]
    /\ \A p \in Procs : \A s \in DOMAIN acking[p] :
         /\ acking[p][s].id = issued[s]
         /\ acking[p][s].token \in {0, issued[s]}

\* Dead-lettering deletes no live job before its copy was appended.
DeadLetterKeepsACopy ==
    \A p \in Procs : pc[p] \in {"dl_delete", "dl_apply"} =>
        \A s \in diverted[p] \cap live : copies[s] > 0

\* Fairness: the clock runs, claim polls keep coming, and every request runs
\* to its end (the mutex is eventually fair).  Nobody has to ack.
Fairness ==
    /\ WF_vars(Tick)
    /\ WF_vars(\E p \in Procs, c \in Cohorts, lag \in Lags :
                   ClaimBegin(p, c, lag))
    /\ \A p \in Procs : SF_vars(Finish(p))
FairSpec == Spec /\ Fairness

\* With a delivery limit and a dead-letter topic every job leaves the queue,
\* whatever its workers do: acked, removed or dead-lettered.
EveryJobSettles == \A s \in Jobs : s \in live ~> s \notin live
=============================================================================
