------------------------------- MODULE Claims -------------------------------
(***************************************************************************)
(* Claims of one queue topic as the front end serves them (http/queue.rs): *)
(* the coordinator that gathers concurrent claims into cohorts, and the    *)
(* /work connections that claim for themselves and give their leases back  *)
(* when they close.                                                        *)
(*                                                                         *)
(* A claim is a future: the client can go away, and then it is dropped at  *)
(* the await where it stands.  The batched pass runs on the blocking pool  *)
(* and goes on without it.  The queue is reduced to who holds each job;    *)
(* QueueLeases models it.                                                  *)
(***************************************************************************)
EXTENDS Limits, SequencesExt, FiniteSetsExt

CONSTANTS
    Pollers, Workers,   \* POST /claim clients; /work connections (in Conns)
    Jobs,               \* the seqs of the queue
    WORK_MAX,           \* max of a /work connection
    LeaseAsked,         \* the lease_ms each claimer asks for
    Queue               \* the topic, one of Names

Claimers == Pollers \cup Workers

VARIABLES
    up,             \* the topic exists
    jobs,           \* each job: where it is, the claim it is leased to, the
                    \* lease_ms it got
    forming,        \* the entry of the topic in ClaimCoordinator::forming
    cohorts,        \* every FormingCohort made (an Arc each)
    call,           \* the claim future of each claimer
    passes,         \* the passes on the blocking pool
    replies,        \* the oneshots that were sent to or dropped
    orphaned,       \* history: cohorts whose leader was dropped in its sleep
    late            \* history: connections closed with a claim under way

claiming == <<forming, cohorts, call, passes, replies>>
claimHistory == <<orphaned, late>>
claimVars == <<up, jobs, claiming, claimHistory>>

\* A claim: the claimer and how often it has claimed.
Request(p) == <<p, call[p].n>>
Idle(n) == [step |-> "idle", n |-> n, want |-> 0, cohort |-> 0,
            drained |-> <<>>, got |-> {}]
\* The future of a claim is still there, at one of these steps.
Waits(req, steps) == call[req[1]].n = req[2] /\ call[req[1]].step \in steps
Step(p, step) == call' = [call EXCEPT ![p].step = step]
Free == [at |-> "ready", to |-> <<>>, ms |-> 0]
LeasedTo(p) == {j \in Jobs : jobs[j].at = "leased" /\ jobs[j].to[1] = p}

-----------------------------------------------------------------------------
(* The batched pass.                                                       *)

\* Whose turn it is: one job each, round after round.
Turns(rs) ==
    LET round(k) == SelectSeq(rs, LAMBDA r : r.want >= k)
        rounds == Max({rs[i].want : i \in DOMAIN rs} \cup {0})
    IN  FlattenSeq([k \in 1..rounds |-> [i \in DOMAIN round(k) |-> round(k)[i].req]])

\* claim_cohort under the queue lock, for the whole cohort and with one
\* lease_ms; on a deleted topic it fails.
RunPass(t) ==
    LET free == SetToSortSeq({j \in Jobs : jobs[j].at = "ready"}, <)
        turns == Turns(t.reqs)
        n == Min({Len(free), Len(turns)})
        leased == [i \in 1..n |-> <<free[i], turns[i]>>]
        done(ok) == passes' = (passes \ {t}) \cup
            (IF Waits(t.leader, {"pass"})
             THEN {[t EXCEPT !.state = IF ok THEN "ok" ELSE "err",
                             !.out = IF ok THEN ToSet(leased) ELSE {}]}
             ELSE {})
    IN  /\ t \in passes /\ t.state = "running"
        /\ IF up
           THEN /\ jobs' = [j \in Jobs |->
                     IF \E i \in 1..n : free[i] = j
                     THEN [at |-> "leased", ms |-> t.ms,
                           to |-> turns[CHOOSE i \in 1..n : free[i] = j]]
                     ELSE jobs[j]]
                /\ done(TRUE)
           ELSE done(FALSE) /\ UNCHANGED jobs
        /\ UNCHANGED <<up, forming, cohorts, call, replies, claimHistory, shared>>

Spawn(p, reqs) ==
    passes' = passes \cup {[leader |-> Request(p), reqs |-> reqs,
                            ms |-> LeaseAsked[p], state |-> "running", out |-> {}]}

-----------------------------------------------------------------------------
(* ClaimCoordinator::claim_coalesced and run_claim.                        *)

\* run_claim: without a window it is a pass for one.
Begin(p, want) ==
    LET fresh == [Idle(call[p].n + 1) EXCEPT !.want = want]
        req == [req |-> <<p, fresh.n>>, want |-> want]
    IN  IF ~up THEN call' = [call EXCEPT ![p] = [fresh EXCEPT !.step = "failed"]]
                    /\ UNCHANGED passes
        ELSE IF setup.jitter
        THEN call' = [call EXCEPT ![p] = [fresh EXCEPT !.step = "entry"]]
             /\ UNCHANGED passes
        ELSE /\ call' = [call EXCEPT ![p] =
                   [fresh EXCEPT !.step = "pass", !.drained = <<req>>]]
             /\ passes' = passes \cup
                  {[leader |-> req.req, reqs |-> <<req>>, ms |-> LeaseAsked[p],
                    state |-> "running", out |-> {}]}

\* The entry of the topic, made if there is none.
EntryOrInsert(p) ==
    /\ call[p].step = "entry"
    /\ LET made == forming = 0
           id == IF made THEN Len(cohorts) + 1 ELSE forming
       IN  /\ forming' = id
           /\ cohorts' = IF made THEN Append(cohorts, [closed |-> FALSE, reqs |-> <<>>])
                                 ELSE cohorts
           /\ call' = [call EXCEPT ![p].step = "join", ![p].cohort = id]
    /\ UNCHANGED <<up, jobs, passes, replies, claimHistory, shared>>

Pending(p) == [req |-> Request(p), want |-> call[p].want]
\* Mutant: a claim is pushed into the cohort it found, drained or not, and
\* leads only a cohort that is new.
JoinAnyway(p) ==
    /\ call[p].step = "join"
    /\ LET c == cohorts[call[p].cohort]
       IN  /\ cohorts' = [cohorts EXCEPT ![call[p].cohort].reqs = Append(@, Pending(p))]
           /\ Step(p, IF c.reqs = <<>> /\ ~c.closed THEN "sleep" ELSE "await")
    /\ UNCHANGED <<up, jobs, forming, passes, replies, claimHistory, shared>>
\* Under the lock of the cohort: a drained one is left, and retried; the
\* first to push leads.
Join(p) ==
    /\ call[p].step = "join"
    /\ LET c == cohorts[call[p].cohort]
       IN  IF c.closed THEN Step(p, "retry") /\ UNCHANGED cohorts
           ELSE /\ cohorts' = [cohorts EXCEPT ![call[p].cohort].reqs = Append(@, Pending(p))]
                /\ Step(p, IF c.reqs = <<>> THEN "sleep" ELSE "await")
    /\ UNCHANGED <<up, jobs, forming, passes, replies, claimHistory, shared>>

RemoveIfSame(p) == forming' = IF forming = call[p].cohort THEN 0 ELSE forming
Retry(p) ==
    /\ call[p].step = "retry"
    /\ RemoveIfSame(p) /\ Step(p, "entry")
    /\ UNCHANGED <<up, jobs, cohorts, passes, replies, claimHistory, shared>>

\* The window is over: the cohort is closed and drained.
Drain(p) ==
    /\ call[p].step = "sleep"
    /\ call' = [call EXCEPT ![p].step = "drained",
                            ![p].drained = cohorts[call[p].cohort].reqs]
    /\ cohorts' = [cohorts EXCEPT ![call[p].cohort] = [closed |-> TRUE, reqs |-> <<>>]]
    /\ UNCHANGED <<up, jobs, forming, passes, replies, claimHistory, shared>>

SpawnPass(p) ==
    /\ call[p].step = "drained"
    /\ RemoveIfSame(p) /\ Step(p, "pass") /\ Spawn(p, call[p].drained)
    /\ UNCHANGED <<up, jobs, cohorts, replies, claimHistory, shared>>

\* The pass is over: every joiner gets its slice, the leader an error if
\* there was one.
FanOut(p) ==
    /\ call[p].step = "pass"
    /\ \E t \in passes :
         /\ t.leader = Request(p) /\ t.state # "running"
         /\ replies' = replies \cup
              {[req |-> call[p].drained[i].req,
                got |-> {l[1] : l \in {m \in t.out : m[2] = call[p].drained[i].req}}]
                 : i \in {k \in DOMAIN call[p].drained :
                           Waits(call[p].drained[k].req, {"pass", "await"})}}
         /\ Step(p, IF t.state = "ok" THEN "await" ELSE "failed")
         /\ passes' = passes \ {t}
    /\ UNCHANGED <<up, jobs, forming, cohorts, claimHistory, shared>>

Answer(p) ==
    /\ call[p].step = "await"
    /\ \E r \in replies :
         /\ r.req = Request(p)
         /\ call' = [call EXCEPT ![p].step = "done", ![p].got = r.got]
         /\ replies' = replies \ {r}
    /\ UNCHANGED <<up, jobs, forming, cohorts, passes, claimHistory, shared>>

\* The future is dropped at an await.  What it had drained is dropped with
\* it, and every joiner's reply; what it had pushed into a cohort stays.
AtAwait(p) == call[p].step \in {"sleep", "pass", "await"}
Underway(p) ==
    \/ \E i \in DOMAIN cohorts : \E k \in DOMAIN cohorts[i].reqs :
         cohorts[i].reqs[k].req = Request(p)
    \/ \E q \in Claimers : \E k \in DOMAIN call[q].drained :
         call[q].step \in {"drained", "pass"} /\ call[q].drained[k].req = Request(p)
    \/ \E t \in passes : t.state = "running" /\ Request(p) \in {t.reqs[k].req : k \in DOMAIN t.reqs}
DropCall(p) ==
    LET c == call[p]
    IN  /\ call' = [call EXCEPT ![p] = Idle(c.n)]
        /\ orphaned' = IF c.step = "sleep" THEN orphaned \cup {c.cohort} ELSE orphaned
        /\ replies' = {r \in replies : r.req # Request(p)} \cup
             (IF c.step = "pass"
              THEN {[req |-> c.drained[i].req, got |-> {}] :
                      i \in {k \in DOMAIN c.drained : Waits(c.drained[k].req, {"await"})}}
              ELSE {})
        /\ passes' = {t \in passes : t.leader # Request(p) \/ t.state = "running"}

-----------------------------------------------------------------------------
(* POST /claim and the other calls on the queue.                           *)

polling == <<up, jobs, forming, cohorts, setup, pc, slot, signals>>
\* A request beyond the cap of its key is answered 429.
PollClaim(p) ==
    /\ call[p].step = "idle" /\ Use("claims")
    /\ \/ try_acquire_inflight(p) /\ Begin(p, 1)
       \/ InflightFull(p) /\ UNCHANGED <<live, call, passes>>
    /\ UNCHANGED <<polling, replies, claimHistory>>
PollReturn(p) ==
    /\ call[p].step \in {"done", "failed"}
    /\ call' = [call EXCEPT ![p] = Idle(@.n)] /\ DropInflight(p)
    /\ UNCHANGED <<polling, left, passes, replies, claimHistory>>
PollCancel(p) ==
    /\ AtAwait(p) /\ Use("cancels")
    /\ DropCall(p) /\ DropInflight(p)
    /\ UNCHANGED <<polling, late>>

queueCalls == <<claiming, claimHistory, setup, limits>>
\* An append makes a job claimable and wakes the waiters of the topic; an
\* ack, a nack or the end of a lease wakes nobody.
AppendJob ==
    /\ up /\ Use("appends")
    /\ \E j \in Jobs : /\ jobs[j].at = "absent"
                       /\ \A i \in Jobs : i < j => jobs[i].at # "absent"
                       /\ jobs' = [jobs EXCEPT ![j] = Free]
    /\ WakeAll(TopicOf(Queue))
    /\ UNCHANGED <<up, queueCalls, flag, notified, waits>>
AckJob ==
    /\ Use("acks")
    /\ \E j \in Jobs : jobs[j].at = "leased" /\ jobs' = [jobs EXCEPT ![j].at = "acked"]
    /\ UNCHANGED <<up, queueCalls, signals>>
ExpireLease ==
    /\ Use("expiries")
    /\ \E j \in Jobs : jobs[j].at = "leased" /\ jobs' = [jobs EXCEPT ![j] = Free]
    /\ UNCHANGED <<up, queueCalls, signals>>
DeleteQueue ==
    /\ up /\ Use("deletions")
    /\ up' = FALSE /\ jobs' = [j \in Jobs |-> [Free EXCEPT !.at = "absent"]]
    /\ UNCHANGED <<queueCalls, signals>>

-----------------------------------------------------------------------------
(* GET /work.                                                              *)

WorkConnect(w) ==
    /\ pc[w] = "none" /\ w \in setup.conns /\ up /\ ~InflightFull(w)
    /\ Goto(w, "slot")
    /\ UNCHANGED <<claimVars, setup, left, live, slot, signals>>

\* Mutant: the leases stay until they expire.
release_work_conn_none(w) == UNCHANGED jobs
\* WorkConnGuard: every lease of the connection is given back.
release_work_conn(w) ==
    jobs' = [j \in Jobs |-> IF j \in LeasedTo(w) THEN Free ELSE jobs[j]]

\* The stream's future is dropped: the claim it waits for, its slot, then
\* its leases.
EndWork(w) ==
    /\ DropCall(w) /\ DropGuard(w) /\ Forget(w) /\ Goto(w, "over")
    /\ release_work_conn(w)
    /\ late' = IF Underway(w) THEN late \cup {w} ELSE late
    /\ UNCHANGED <<up, forming, cohorts, setup, flag, notified>>

\* One turn of the loop: the shutdown, then a claim for the free depth
\* (work_conn_in_flight).
WorkTurn(w) ==
    /\ pc[w] \in {"open", "woken"} /\ UNCHANGED left
    /\ \/ flag /\ EndWork(w)
       \/ /\ ~flag /\ Forget(w)
          /\ LET deficit == WORK_MAX - Cardinality(LeasedTo(w))
             IN  IF deficit > 0 THEN Begin(w, deficit) /\ Goto(w, "claim")
                 ELSE Goto(w, "register") /\ UNCHANGED <<call, passes>>
          /\ UNCHANGED <<up, jobs, forming, cohorts, replies, claimHistory,
                         setup, live, slot, flag, notified>>
WorkClaimed(w) ==
    /\ pc[w] = "claim" /\ UNCHANGED left
    /\ \/ call[w].step = "failed" /\ EndWork(w)
       \/ /\ call[w].step = "done"
          /\ call' = [call EXCEPT ![w] = Idle(@.n)] /\ Goto(w, "register")
          /\ UNCHANGED <<up, jobs, forming, cohorts, passes, replies, claimHistory,
                         setup, live, slot, signals>>
WorkRegister(w) ==
    /\ pc[w] = "register" /\ UNCHANGED left
    /\ \/ ~up /\ EndWork(w)
       \/ /\ up /\ Register(w, {TopicOf(Queue)}) /\ Goto(w, "enable")
          /\ UNCHANGED <<claimVars, setup, live, slot, flag, notified, woken>>
\* A notification, or WORK_POLL_MS have passed.
WorkWake(w) ==
    /\ pc[w] = "parked" /\ Goto(w, "woken")
    /\ \/ w \in woken /\ UNCHANGED left
       \/ Use("polls")
    /\ UNCHANGED <<claimVars, setup, live, slot, signals>>
\* The client closes the connection.
WorkClose(w) ==
    /\ pc[w] \in {"register", "parked"} \/ (pc[w] = "claim" /\ AtAwait(w))
    /\ Use("breaks") /\ EndWork(w)

ClaimsInit ==
    /\ up = TRUE
    /\ jobs = [j \in Jobs |-> [Free EXCEPT !.at =
                 IF j > Cardinality(Jobs) - setup.bound["appends"] THEN "absent" ELSE "ready"]]
    /\ forming = 0 /\ cohorts = <<>>
    /\ call = [p \in Claimers |-> Idle(0)]
    /\ passes = {} /\ replies = {} /\ orphaned = {} /\ late = {}

ClaimStep(p) ==
    EntryOrInsert(p) \/ Join(p) \/ Retry(p) \/ Drain(p) \/ SpawnPass(p)
    \/ FanOut(p) \/ Answer(p)
WorkStep(w) ==
    WorkTurn(w) \/ WorkClaimed(w) \/ WorkRegister(w) \/ WorkWake(w)
ClaimsNext ==
    \/ \E p \in Claimers : ClaimStep(p)
    \/ \E p \in Pollers : PollClaim(p) \/ PollReturn(p) \/ PollCancel(p)
    \/ \E t \in passes : RunPass(t)
    \/ \E w \in Workers : WorkConnect(w) \/ WorkStep(w) \/ WorkClose(w)
    \/ AppendJob \/ AckJob \/ ExpireLease \/ DeleteQueue

-----------------------------------------------------------------------------
(* Properties.                                                             *)

\* Every claim that has joined a cohort is answered, with jobs or with none,
\* unless the cohort's leader was dropped in its sleep.
Answered ==
    \A p \in Claimers :
        (call[p].step = "await" /\ call[p].cohort \notin orphaned)
          ~> (call[p].step # "await" \/ call[p].cohort \in orphaned)

\* The same with no exception: "the claim waits up to that window"
\* (docs/API.md).
WaitsUpToTheWindow ==
    \A p \in Claimers : (call[p].step = "await") ~> (call[p].step # "await")

\* A /work connection never holds more than max leases, and a closed one
\* none, unless a claim for it was under way when it closed.
WorkHolds ==
    \A w \in Workers :
        /\ Cardinality(LeasedTo(w)) <= WORK_MAX
        /\ (pc[w] = "over" /\ w \notin late) => LeasedTo(w) = {}

\* The same with no exception: the close of a /work connection "immediately
\* releases all of that node's leases" (docs/API.md).
InstantFailover ==
    \A w \in Workers : (pc[w] = "over" /\ ~Underway(w)) => LeasedTo(w) = {}

\* The gauge of a key is exactly its requests under way, however they ended,
\* and never passes its cap.
InflightExact ==
    \A k \in Keys :
        /\ live.inflight[k] =
             Cardinality({p \in Pollers : KeyOf[p] = k /\ call[p].step # "idle"})
        /\ setup.max_inflight # 0 => live.inflight[k] <= setup.max_inflight

\* A job is leased for as long as the claim it was given to asked for:
\* "Lease duration for the jobs claimed by *this* call" (docs/API.md).
LeaseHonoured ==
    \A j \in Jobs : jobs[j].at = "leased" => jobs[j].ms = LeaseAsked[jobs[j].to[1]]
=============================================================================
