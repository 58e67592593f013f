------------------------- MODULE QueueLeasesTypes -------------------------
(* The inductive invariant of QueueLeases, and that every step keeps the   *)
(* types.                                                                  *)
EXTENDS QueueLeases, FiniteSetTheorems, TLAPS

\* The bounds and ranges that arithmetic steps need.
LEMMA Ranges == /\ MaxSeq \in Nat /\ MaxLeaseId \in Nat /\ LeaseTtl \in Nat
                /\ MaxFaults \in Nat /\ MaxExtends \in Nat /\ MaxLag \in Nat
                /\ Jobs = 1..MaxSeq /\ LeaseIds = 1..MaxLeaseId
                /\ Lags \subseteq Nat
  BY BoundsAreNat DEF Jobs, LeaseIds, Lags

\* Every set of jobs is finite.
LEMMA JobSetsAreFinite ==
    ASSUME NEW S \in SUBSET Jobs
    PROVE  IsFiniteSet(S) /\ Cardinality(S) \in Nat
  <1>1. IsFiniteSet(Jobs)
    BY FS_Interval, BoundsAreNat DEF Jobs
  <1> QED
    BY <1>1, FS_Subset, FS_CardinalityType

-----------------------------------------------------------------------------
(* The inductive invariant.                                                *)

\* A thread holds diverted or acked jobs only while it is dealing with them,
\* and the job whose Delete frame it committed is one of them.
ThreadInv ==
    \A p \in Procs :
        /\ diverted[p] # {} => pc[p] \in {"claim", "dl_slots", "dl_append",
                                         "dl_delete", "dl_apply"}
        /\ DOMAIN acking[p] # {} => pc[p] \in {"ack_delete", "ack_apply",
                                              "ack_requeue", "ack_log"}
        /\ pc[p] = "dl_apply" => cur[p] \in diverted[p]
        /\ pc[p] = "ack_apply" => cur[p] \in DOMAIN acking[p]

\* OnePlace, job by job.
PlacesInv ==
    /\ \A s \in reclaim : s \notin DOMAIN leases
    /\ \A d \in delayed : d.seq \notin DOMAIN leases /\ d.seq \notin reclaim
    /\ \A d, e \in delayed : d.seq = e.seq => d = e
    /\ \A p \in Procs : \A s \in Transit(p) :
         s \notin DOMAIN leases /\ s \notin reclaim
         /\ \A d \in delayed : d.seq # s
    /\ \A p, q \in Procs : p # q => Transit(p) \cap Transit(q) = {}

\* What has a place was handed out, and only published jobs were.
CursorInv ==
    /\ claim_cursor <= head + 1
    /\ acked \subseteq 1..head
    /\ \A s \in DOMAIN leases \cup reclaim : s < claim_cursor
    /\ \A d \in delayed : d.seq < claim_cursor
    /\ \A p \in Procs : \A s \in Transit(p) : s < claim_cursor

\* NoJobStranded, job by job.
FoundInv ==
    \A s \in live :
        \/ s >= claim_cursor \/ s \in DOMAIN leases \/ s \in reclaim
        \/ \E d \in delayed : d.seq = s
        \/ \E p \in Procs : s \in Transit(p)

\* DeadLetterKeepsACopy, with the copies that are built but not appended.
CopyInv ==
    \A p \in Procs :
        /\ pc[p] = "dl_append" => diverted[p] \cap live \subseteq slots[p]
        /\ pc[p] \in {"dl_delete", "dl_apply"} =>
             \A s \in diverted[p] \cap live : copies[s] > 0

IInv ==
    /\ TypeOK /\ ThreadInv /\ PlacesInv /\ CursorInv /\ FoundInv
    /\ AckedNeverRedelivered /\ AckHoldsLastLease /\ CopyInv

-----------------------------------------------------------------------------
(* Type correctness.  What an action leaves alone keeps its type.          *)

LEMMA KeepTypes ==
    /\ LogTypes /\ UNCHANGED jobslog => LogTypes'
    /\ LeaseTypes /\ UNCHANGED <<leases, deliveries, reclaim, delayed>>
         => LeaseTypes'
    /\ AllocatorTypes /\ UNCHANGED allocators => AllocatorTypes'
    /\ PassTypes /\ UNCHANGED <<head, mutex>> => PassTypes'
    /\ ThreadTypes /\ UNCHANGED <<pc, transit>> => ThreadTypes'
    /\ EventTypes /\ UNCHANGED <<events, lease_log>> => EventTypes'
    /\ HistoryTypes /\ UNCHANGED <<history, budget>> => HistoryTypes'
  <1>1. LogTypes /\ UNCHANGED jobslog => LogTypes'
    BY DEF LogTypes, jobslog
  <1>2. LeaseTypes /\ UNCHANGED <<leases, deliveries, reclaim, delayed>>
          => LeaseTypes'
    BY DEF LeaseTypes
  <1>3. AllocatorTypes /\ UNCHANGED allocators => AllocatorTypes'
    BY DEF AllocatorTypes, allocators
  <1>4. PassTypes /\ UNCHANGED <<head, mutex>> => PassTypes'
    BY DEF PassTypes, mutex, pass
  <1>5. ThreadTypes /\ UNCHANGED <<pc, transit>> => ThreadTypes'
    BY DEF ThreadTypes, transit
  <1>6. EventTypes /\ UNCHANGED <<events, lease_log>> => EventTypes'
    BY DEF EventTypes
  <1>7. HistoryTypes /\ UNCHANGED <<history, budget>> => HistoryTypes'
    BY DEF HistoryTypes, history, budget
  <1> QED
    BY <1>1, <1>2, <1>3, <1>4, <1>5, <1>6, <1>7

\* The events of a request are well formed and the thread's other events stay.
LEMMA EmitType ==
    ASSUME LeaseTypes, EventTypes, NEW p \in Procs,
           NEW S \in SUBSET DOMAIN leases,
           NEW kind \in {"claimed", "released", "extended", "acked"},
           Emit(p, kind, S)
    PROVE  events' \in [Procs -> Seq(Event)]
  <1>1. CASE ~LeasesDurable
    BY <1>1 DEF Emit, EventTypes
  <1>2. CASE LeasesDurable
    <2>1. PICK order \in Orders(S) :
            events' = [events EXCEPT ![p] =
                        [i \in DOMAIN order |-> EventOf(kind, order[i])]]
      BY <1>2 DEF Emit
    <2>2. Cardinality(S) \in Nat
      BY JobSetsAreFinite DEF LeaseTypes
    <2>3. order \in [1..Cardinality(S) -> S]
      BY DEF Orders, Injection
    <2>4. \A s \in S : EventOf(kind, s) \in Event
      BY DEF EventOf, Event, LeaseTypes, Lease
    <2>5. [i \in DOMAIN order |-> EventOf(kind, order[i])] \in Seq(Event)
      BY <2>2, <2>3, <2>4
    <2> QED
      BY <2>1, <2>5 DEF EventTypes
  <1> QED
    BY <1>1, <1>2, SwitchesAreBoolean

\* A sweep keeps the types of the leases, the freelist and the delays.
LEMMA SweepType ==
    ASSUME LeaseTypes, NEW lag \in Lags
    PROVE  /\ Unexpired(lag) \subseteq DOMAIN leases
           /\ SweptReclaim(lag) \subseteq Jobs
           /\ delayed \ Due(lag) \subseteq [seq : Jobs, left : Int]
  BY DEF LeaseTypes, Unexpired, SweptReclaim, Expired, Due

\* Restricting the leases keeps their type.
LEMMA RestrictType ==
    ASSUME LeaseTypes, NEW S \in SUBSET DOMAIN leases
    PROVE  /\ DOMAIN Restrict(leases, S) = S
           /\ S \subseteq Jobs
           /\ Restrict(leases, S) \in [S -> Lease]
  BY DEF LeaseTypes, Restrict

LEMMA SweepKeepsTypes ==
    ASSUME LeaseTypes, NEW lag \in Lags, Sweep(lag), UNCHANGED deliveries
    PROVE  LeaseTypes'
  BY SweepType, RestrictType DEF Sweep, LeaseTypes

\* The variables of a pass between two passes.
LEMMA EmptyCohort == <<>> \in Seq(Claimer) /\ <<>> \in [DOMAIN <<>> -> Int]
  OBVIOUS

LEMMA TypeInit == Init => TypeOK
  <1> SUFFICES ASSUME Init PROVE TypeOK
    OBVIOUS
  <1>1. \A S : [s \in {} |-> 0] \in [{} -> S]
    OBVIOUS
  <1>2. acking \in [Procs -> UNION {[S -> Pending] : S \in SUBSET Jobs}]
    BY Zenon, <1>1 DEF Init
  <1>3. LeaseTypes
    BY DEF Init, LeaseTypes
  <1>4. PassTypes
    BY EmptyCohort DEF Init, PassTypes
  <1>5. LogTypes
    BY Ranges DEF Init, LogTypes
  <1>6. AllocatorTypes
    BY Ranges DEF Init, AllocatorTypes
  <1>7. ThreadTypes
    BY <1>2 DEF Init, ThreadTypes, Pcs
  <1>8. EventTypes
    BY DEF Init, EventTypes
  <1>9. HistoryTypes
    BY Ranges DEF Init, HistoryTypes
  <1> QED
    BY <1>3, <1>4, <1>5, <1>6, <1>7, <1>8, <1>9 DEF TypeOK

\* Begin, steps and end of a claim pass.
LEMMA TypeClaimBegin ==
    ASSUME TypeOK, NEW p \in Procs, NEW c \in Cohorts, NEW lag \in Lags,
           ClaimBegin(p, c, lag)
    PROVE  TypeOK'
  <1> USE Ranges DEF ClaimBegin
  <1>1. LeaseTypes'
    BY SweepKeepsTypes DEF TypeOK
  <1>2. c \in Seq(Claimer)
    BY CohortsAreNonempty
  <1>3. \A i \in DOMAIN c : c[i] \in Claimer
    BY <1>2
  <1>4. \A i \in DOMAIN c : c[i].max \in Int
    BY <1>3 DEF Claimer
  <1>5. PassTypes'
    BY <1>2, <1>4 DEF TypeOK, PassTypes, LogTypes, jobslog
  <1>6. ThreadTypes'
    BY DEF TypeOK, ThreadTypes, Pcs, transit
  <1> QED
    BY <1>1, <1>5, <1>6, KeepTypes DEF TypeOK

LEMMA TypeClaimPass ==
    ASSUME TypeOK, NEW p \in Procs, ClaimPass(p)
    PROVE  TypeOK'
  <1> USE Ranges
  <1>a. ASSUME NEW s \in Candidates, Pop(s)
        PROVE  s \in Jobs /\ claim_cursor' \in 1..(MaxSeq + 1)
               /\ reclaim' \subseteq Jobs
    <2>1. CASE reclaim # {}
      BY <1>a, <2>1 DEF Candidates, Pop, TypeOK, LeaseTypes, AllocatorTypes
    <2>2. CASE reclaim = {}
      <3>1. s = claim_cursor /\ s <= seen_head
        BY <2>2 DEF Candidates
      <3>2. seen_head \in Int /\ seen_head <= MaxSeq
        BY DEF TypeOK, PassTypes, LogTypes
      <3> QED
        BY <1>a, <2>2, <3>1, <3>2 DEF Pop, TypeOK, LeaseTypes, AllocatorTypes
    <2> QED
      BY <2>1, <2>2
  <1>1. CASE ClaimSkip(p)
    <2>1. LeaseTypes' /\ AllocatorTypes'
      BY <1>1, <1>a DEF ClaimSkip, TypeOK, LeaseTypes, AllocatorTypes
    <2> QED
      BY <1>1, <2>1, KeepTypes DEF ClaimSkip, TypeOK, threads, jobslog
  <1>2. CASE ClaimDivert(p)
    <2>1. LeaseTypes' /\ AllocatorTypes'
      BY <1>2, <1>a DEF ClaimDivert, TypeOK, LeaseTypes, AllocatorTypes
    <2>2. ThreadTypes'
      BY <1>2, <1>a DEF ClaimDivert, TypeOK, ThreadTypes
    <2> QED
      BY <1>2, <2>1, <2>2, KeepTypes DEF ClaimDivert, TypeOK, jobslog
  <1>3. CASE ClaimLease(p)
    <2>1. PICK s \in Candidates, i \in Served : Pop(s) /\ LeaseTo(p, s, i)
      BY <1>3 DEF ClaimLease
    <2>2. i \in DOMAIN cohort
      BY DEF Served, Wanting, TypeOK, PassTypes
    <2>3. i \in Int /\ cohort[i] \in Claimer
      BY <2>2 DEF TypeOK, PassTypes
    <2>4. next_lease_id \in LeaseIds
      BY <1>3 DEF ClaimLease, TypeOK, AllocatorTypes
    <2>5. PassTypes'
      BY <1>3, <2>1, <2>2, <2>3
      DEF TypeOK, PassTypes, Following, LeaseTo, ClaimLease, jobslog
    <2>6. [event |-> "claimed", seq |-> s, node |-> cohort[i].node,
           id |-> next_lease_id, deliveries |-> deliveries[s] + 1] \in Event
      BY <1>a, <2>1, <2>3, <2>4 DEF TypeOK, LeaseTypes, Event, Claimer
    <2>7. EventTypes'
      BY <1>3, <2>1, <2>6 DEF TypeOK, EventTypes, LeaseTo, ClaimLease
    <2>8. [node |-> cohort[i].node, id |-> next_lease_id,
           ttl |-> pass_ttl, conn |-> cohort[i].conn] \in Lease
      BY <2>3, <2>4 DEF TypeOK, PassTypes, Lease, Claimer
    <2>9. LeaseTypes'
      <3>1. s \in Jobs /\ reclaim' \subseteq Jobs
        BY <1>a, <2>1
      <3>2. DOMAIN leases' \subseteq Jobs /\ leases' \in [DOMAIN leases' -> Lease]
        BY <2>1, <2>8, <3>1 DEF TypeOK, LeaseTypes, LeaseTo
      <3>3. deliveries' \in [Jobs -> Nat]
        BY <2>1, <3>1 DEF TypeOK, LeaseTypes, LeaseTo
      <3>4. delayed' \subseteq [seq : Jobs, left : Int]
        BY Zenon, <1>3 DEF TypeOK, LeaseTypes, ClaimLease
      <3> QED
        BY <3>1, <3>2, <3>3, <3>4 DEF LeaseTypes
    <2>10. AllocatorTypes' /\ HistoryTypes'
      BY <1>3, <1>a, <2>1, <2>4
      DEF TypeOK, AllocatorTypes, HistoryTypes, LeaseTo, ClaimLease, budget
    <2> QED
      BY <1>3, <2>5, <2>7, <2>9, <2>10, KeepTypes
      DEF ClaimLease, TypeOK, threads
  <1>4. CASE ClaimEnd(p)
    <2>1. PassTypes'
      BY <1>4, EmptyCohort
      DEF ClaimEnd, PassReset, TypeOK, PassTypes, LogTypes, jobslog
    <2>2. ThreadTypes'
      BY <1>4 DEF ClaimEnd, TypeOK, ThreadTypes, AfterDeadLetter, Pcs, transit
    <2> QED
      BY <1>4, <2>1, <2>2, KeepTypes DEF ClaimEnd, TypeOK, projection
  <1> QED
    BY <1>1, <1>2, <1>3, <1>4 DEF ClaimPass

\* The jobs log and the clock.
LEMMA TypeEnvironment ==
    ASSUME TypeOK, \/ Publish \/ Tick \/ \E lag \in Lags : Counters(lag)
                   \/ \E s \in Jobs : RemoveJob(s)
    PROVE  TypeOK'
  <1> USE Ranges
  <1>1. CASE Publish
    <2>1. LogTypes' /\ PassTypes'
      BY <1>1 DEF Publish, TypeOK, LogTypes, PassTypes, mutex, pass
    <2> QED
      BY <1>1, <2>1, KeepTypes DEF Publish, TypeOK, projection, threads
  <1>2. CASE Tick
    <2>1. \A x \in Int : Later(x) \in Int
      BY DEF Later
    <2>2. LeaseTypes'
      <3>1. \A s \in DOMAIN leases :
              WithTtl(leases[s], Later(leases[s].ttl)) \in Lease
        BY Zenon, <2>1 DEF TypeOK, LeaseTypes, Lease, WithTtl
      <3>2. \A d \in delayed :
              [seq |-> d.seq, left |-> Later(d.left)] \in [seq : Jobs, left : Int]
        BY <2>1 DEF TypeOK, LeaseTypes
      <3> QED
        BY <1>2, <3>1, <3>2 DEF Tick, TypeOK, LeaseTypes
    <2>3. PassTypes'
      BY <1>2, <2>1 DEF Tick, TypeOK, PassTypes, jobslog
    <2> QED
      BY <1>2, <2>2, <2>3, KeepTypes DEF Tick, TypeOK, threads
  <1>3. CASE \E lag \in Lags : Counters(lag)
    <2>1. LeaseTypes'
      BY <1>3, SweepKeepsTypes DEF Counters, TypeOK
    <2> QED
      BY <1>3, <2>1, KeepTypes DEF Counters, TypeOK, threads, jobslog
  <1>4. CASE \E s \in Jobs : RemoveJob(s)
    <2>1. LogTypes' /\ UNCHANGED head
      BY <1>4 DEF RemoveJob, TypeOK, LogTypes
    <2> QED
      BY <1>4, <2>1, KeepTypes DEF RemoveJob, TypeOK, projection, threads
  <1> QED
    BY <1>1, <1>2, <1>3, <1>4

\* The dead-letter steps.
LEMMA TypeDeadLetter ==
    ASSUME TypeOK, NEW p \in Procs, DeadLetter(p)
    PROVE  TypeOK'
  <1> USE Ranges
  <1>1. CASE DeadLetterSlots(p)
    <2>1. ThreadTypes'
      BY <1>1 DEF DeadLetterSlots, TypeOK, ThreadTypes, Pcs
    <2> QED
      BY Zenon, <1>1, <2>1, KeepTypes
      DEF DeadLetterSlots, TypeOK, projection, jobslog
  <1>2. CASE DeadLetterAppend(p)
    <2>1. ThreadTypes'
      BY <1>2 DEF DeadLetterAppend, TypeOK, ThreadTypes, Pcs
    <2>2. LogTypes'
      BY <1>2 DEF DeadLetterAppend, TypeOK, LogTypes
    <2> QED
      BY Zenon, <1>2, <2>1, <2>2, KeepTypes
      DEF DeadLetterAppend, TypeOK, projection
  <1>3. CASE DeadLetterFail(p)
    <2>1. diverted[p] \subseteq Jobs /\ Cardinality(diverted[p]) \in Nat
      BY Zenon, JobSetsAreFinite DEF TypeOK, ThreadTypes
    <2>2. ThreadTypes'
      BY <1>3 DEF DeadLetterFail, TypeOK, ThreadTypes, Pcs, AfterDeadLetter
    <2>3. AllocatorTypes'
      BY <1>3, <2>1 DEF DeadLetterFail, TypeOK, AllocatorTypes
    <2>4. LeaseTypes'
      BY <1>3, <2>1 DEF DeadLetterFail, TypeOK, LeaseTypes
    <2>5. HistoryTypes'
      BY <1>3 DEF DeadLetterFail, Fault, TypeOK, HistoryTypes, history
    <2> QED
      BY <1>3, <2>2, <2>3, <2>4, <2>5, KeepTypes
      DEF DeadLetterFail, TypeOK, jobslog
  <1>4. CASE DeadLetterCommit(p)
    <2>1. ThreadTypes' /\ LogTypes'
      BY <1>4 DEF DeadLetterCommit, TypeOK, ThreadTypes, LogTypes, Pcs
    <2> QED
      BY Zenon, <1>4, <2>1, KeepTypes DEF DeadLetterCommit, TypeOK, projection
  <1>5. CASE DeadLetterCommitFail(p)
    <2>1. ThreadTypes'
      BY <1>5 DEF DeadLetterCommitFail, TypeOK, ThreadTypes
    <2>2. LeaseTypes'
      BY Zenon, <1>5 DEF DeadLetterCommitFail, TypeOK, LeaseTypes, ThreadTypes
    <2>3. HistoryTypes'
      BY <1>5 DEF DeadLetterCommitFail, Fault, TypeOK, HistoryTypes, history
    <2> QED
      BY Zenon, <1>5, <2>1, <2>2, <2>3, KeepTypes
      DEF DeadLetterCommitFail, TypeOK, jobslog
  <1>6. CASE DeadLetterApply(p)
    <2>1. ThreadTypes'
      BY <1>6 DEF DeadLetterApply, TypeOK, ThreadTypes, Pcs
    <2>2. LogTypes'
      BY Zenon, <1>6 DEF DeadLetterApply, TypeOK, LogTypes
    <2> QED
      BY Zenon, <1>6, <2>1, <2>2, KeepTypes
      DEF DeadLetterApply, TypeOK, projection
  <1>7. CASE DeadLetterDelete(p)
    <2>1. ThreadTypes'
      BY <1>7 DEF DeadLetterDelete, TypeOK, ThreadTypes
    <2>2. LogTypes'
      BY Zenon, <1>7 DEF DeadLetterDelete, TypeOK, LogTypes, ThreadTypes
    <2>3. HistoryTypes'
      BY <1>7 DEF DeadLetterDelete, Fault, TypeOK, HistoryTypes, history
    <2> QED
      BY Zenon, <1>7, <2>1, <2>2, <2>3, KeepTypes
      DEF DeadLetterDelete, TypeOK, projection
  <1>8. CASE DeadLetterDone(p)
    <2>1. ThreadTypes'
      BY Zenon, <1>8
      DEF DeadLetterDone, TypeOK, ThreadTypes, AfterDeadLetter, Pcs, transit
    <2> QED
      BY Zenon, <1>8, <2>1, KeepTypes
      DEF DeadLetterDone, TypeOK, projection, jobslog
  <1> QED
    BY <1>1, <1>2, <1>3, <1>4, <1>5, <1>6, <1>7, <1>8 DEF DeadLetter

\* What a request takes is leased and unexpired, under the token presented.
LEMMA HeldType ==
    ASSUME TypeOK, NEW n \in Nodes, NEW ask \in Asks, NEW lag \in Lags
    PROVE  /\ Held(n, ask, lag) \subseteq Unexpired(lag)
           /\ Held(n, ask, lag) \subseteq DOMAIN leases
           /\ Held(n, ask, lag) \subseteq Jobs
           /\ \A s \in Held(n, ask, lag) :
                /\ leases[s].node = n
                /\ ask[s] \in {0, leases[s].id}
  BY SweepType DEF Held, lease_token_ok, TypeOK, LeaseTypes

\* The jobs an ack still has to delete, and an update of them.
LEMMA AckingType ==
    ASSUME ThreadTypes, NEW p \in Procs
    PROVE  /\ DOMAIN acking[p] \subseteq Jobs
           /\ acking[p] \in [DOMAIN acking[p] -> Pending]
           /\ \A S \in SUBSET Jobs : \A f \in [S -> Pending] :
                [acking EXCEPT ![p] = f] \in
                    [Procs -> UNION {[T -> Pending] : T \in SUBSET Jobs}]
  <1>1. PICK S \in SUBSET Jobs : acking[p] \in [S -> Pending]
    BY DEF ThreadTypes
  <1>2. DOMAIN acking[p] = S
    BY <1>1
  <1> QED
    BY Zenon, <1>1, <1>2 DEF ThreadTypes

LEMMA AckingWithout ==
    ASSUME ThreadTypes, NEW p \in Procs, NEW s
    PROVE  [acking EXCEPT ![p] = Restrict(@, DOMAIN @ \ {s})] \in
               [Procs -> UNION {[T -> Pending] : T \in SUBSET Jobs}]
  <1>1. /\ DOMAIN acking[p] \ {s} \in SUBSET Jobs
        /\ Restrict(acking[p], DOMAIN acking[p] \ {s})
             \in [DOMAIN acking[p] \ {s} -> Pending]
    BY AckingType DEF Restrict
  <1> QED
    BY Zenon, <1>1, AckingType

\* The acked job's event, the rest of the request and the log keep their types.
LEMMA AcknowledgeType ==
    ASSUME TypeOK, NEW p \in Procs, NEW s \in DOMAIN acking[p],
           Acknowledge(p, s), UNCHANGED <<head, copies, diverted, slots, lease_log>>,
           cur' \in [Procs -> Jobs \cup {0}], gone' \subseteq Jobs
    PROVE  ThreadTypes' /\ EventTypes' /\ LogTypes'
  <1>1. s \in Jobs /\ acking[p][s] \in Pending
    BY AckingType DEF TypeOK
  <1>2. [event |-> "acked", seq |-> s, node |-> acking[p][s].node,
         id |-> acking[p][s].id, deliveries |-> 0] \in Event
    BY <1>1 DEF Event, Pending
  <1>3. EventTypes'
    BY <1>2 DEF Acknowledge, TypeOK, EventTypes
  <1>4. ThreadTypes'
    BY Zenon, AckingWithout DEF Acknowledge, TypeOK, ThreadTypes, Pcs
  <1>5. LogTypes'
    BY Zenon DEF Acknowledge, TypeOK, LogTypes
  <1> QED
    BY <1>3, <1>4, <1>5

LEMMA TypeAckBegin ==
    ASSUME TypeOK, NEW p \in Procs, NEW n \in Nodes, NEW ask \in Asks,
           NEW lag \in Lags, AckBegin(p, n, ask, lag)
    PROVE  TypeOK'
  <1> USE Ranges
  <1> DEFINE mine == Held(n, ask, lag)
  <1>1. LeaseTypes'
    <2>1. Unexpired(lag) \ mine \in SUBSET DOMAIN leases
      BY SweepType DEF TypeOK
    <2>2. deliveries' \in [Jobs -> Nat]
      BY DEF AckBegin, TypeOK, LeaseTypes
    <2> QED
      BY Zenon, <2>1, <2>2, SweepType, RestrictType
      DEF AckBegin, TypeOK, LeaseTypes
  <1>2. \A s \in mine : [node |-> n, id |-> leases[s].id, token |-> ask[s]]
                          \in Pending
    BY HeldType DEF TypeOK, LeaseTypes, Lease, Pending
  <1>3. [s \in mine |-> [node |-> n, id |-> leases[s].id, token |-> ask[s]]]
          \in [mine -> Pending] /\ mine \in SUBSET Jobs
    BY Zenon, <1>2, HeldType
  <1>4. acking' \in [Procs -> UNION {[T -> Pending] : T \in SUBSET Jobs}]
    BY Zenon, <1>3, AckingType DEF AckBegin, TypeOK
  <1>5. ThreadTypes'
    BY <1>4 DEF AckBegin, TypeOK, ThreadTypes, Pcs
  <1> QED
    BY <1>1, <1>5, KeepTypes DEF AckBegin, TypeOK, jobslog

\* The other steps of an ack.
LEMMA TypeAck ==
    ASSUME TypeOK, ThreadInv, NEW p \in Procs, Ack(p)
    PROVE  TypeOK'
  <1> USE Ranges
  <1>0. DOMAIN acking[p] \subseteq Jobs
    BY AckingType DEF TypeOK
  <1>1. CASE AckCommit(p)
    <2>1. ThreadTypes' /\ LogTypes'
      BY Zenon, <1>0, <1>1 DEF AckCommit, TypeOK, ThreadTypes, LogTypes, Pcs
    <2> QED
      BY <1>1, <2>1, KeepTypes DEF AckCommit, TypeOK, projection
  <1>2. CASE AckFail(p)
    <2>1. ThreadTypes'
      BY <1>2 DEF AckFail, TypeOK, ThreadTypes, Pcs, transit
    <2>2. HistoryTypes'
      BY <1>2 DEF AckFail, Fault, TypeOK, HistoryTypes, history
    <2> QED
      BY Zenon, <1>2, <2>1, <2>2, KeepTypes
      DEF AckFail, TypeOK, projection, jobslog
  <1>3. CASE AckRequeue(p)
    <2>0. PICK s \in DOMAIN acking[p] :
            acking' = [acking EXCEPT ![p] = Restrict(@, DOMAIN @ \ {s})]
      BY Zenon, <1>3 DEF AckRequeue
    <2>1. ThreadTypes'
      BY Zenon, <1>3, <2>0, AckingWithout
      DEF AckRequeue, TypeOK, ThreadTypes, Pcs
    <2>2. LeaseTypes'
      BY Zenon, <1>0, <1>3 DEF AckRequeue, TypeOK, LeaseTypes
    <2> QED
      BY <1>3, <2>1, <2>2, KeepTypes DEF AckRequeue, TypeOK, jobslog
  <1>4. CASE AckApply(p)
    <2>0. cur[p] \in DOMAIN acking[p]
      BY Zenon, <1>4 DEF AckApply, ThreadInv
    <2>1. ThreadTypes' /\ EventTypes' /\ LogTypes'
      BY Zenon, <1>4, <2>0, AcknowledgeType
      DEF AckApply, TypeOK, ThreadTypes, LogTypes
    <2>2. HistoryTypes'
      BY Zenon, <1>0, <1>4, <2>0
      DEF AckApply, Acknowledge, TypeOK, HistoryTypes, budget
    <2> QED
      BY <1>4, <2>1, <2>2, KeepTypes DEF AckApply, TypeOK, projection
  <1>5. CASE AckDelete(p)
    <2>1. PICK s \in DOMAIN acking[p] :
            /\ Acknowledge(p, s)
            /\ \/ gone' = gone \cup {s} /\ UNCHANGED faults
               \/ Fault /\ UNCHANGED gone
      BY Zenon, <1>5 DEF AckDelete
    <2>2. gone' \subseteq Jobs
      BY Zenon, <1>0, <2>1 DEF TypeOK, LogTypes
    <2>3. ThreadTypes' /\ EventTypes' /\ LogTypes'
      BY Zenon, <1>5, <2>1, <2>2, AcknowledgeType
      DEF AckDelete, TypeOK, ThreadTypes
    <2>4. HistoryTypes'
      <3>1. acked' \subseteq Jobs
        BY Zenon, <1>0, <2>1 DEF Acknowledge, TypeOK, HistoryTypes
      <3> QED
        BY <1>5, <2>1, <3>1 DEF AckDelete, Fault, TypeOK, HistoryTypes
    <2> QED
      BY <1>5, <2>3, <2>4, KeepTypes DEF AckDelete, TypeOK, projection
  <1>6. CASE AckDone(p)
    <2>1. ThreadTypes'
      BY Zenon, <1>6 DEF AckDone, TypeOK, ThreadTypes, Pcs, transit
    <2> QED
      BY Zenon, <1>6, <2>1, KeepTypes DEF AckDone, TypeOK, projection, jobslog
  <1> QED
    BY <1>1, <1>2, <1>3, <1>4, <1>5, <1>6 DEF Ack

LEMMA TypeNack ==
    ASSUME TypeOK, NEW p \in Procs, NEW n \in Nodes, NEW ask \in Asks,
           NEW delay \in NackDelays, NEW lag \in Lags,
           Nack(p, n, ask, delay, lag)
    PROVE  TypeOK'
  <1> USE Ranges
  <1> DEFINE mine == Held(n, ask, lag)
             later == IF delay > 0 THEN mine ELSE {}
  <1>1. /\ mine \subseteq Jobs /\ later \subseteq Jobs
        /\ delay - lag \in Int
        /\ Unexpired(lag) \ mine \in SUBSET DOMAIN leases
    BY HeldType, SweepType, DelaysAreNat DEF TypeOK
  <1>2. delayed' \subseteq [seq : Jobs, left : Int]
    <2>1. {[seq |-> s, left |-> delay - lag] : s \in later}
            \subseteq [seq : Jobs, left : Int]
      BY SMTT(30), <1>1
    <2> QED
      BY Zenon, <2>1, SweepType DEF Nack, TypeOK
  <1>3. reclaim' \subseteq Jobs /\ deliveries' \in [Jobs -> Nat]
    BY Zenon, <1>1, SweepType DEF Nack, TypeOK, LeaseTypes
  <1>4. LeaseTypes'
    BY Zenon, <1>1, <1>2, <1>3, RestrictType DEF Nack, TypeOK, LeaseTypes
  <1>5. EventTypes'
    BY ZenonT(30), EmitType, HeldType DEF Nack, TypeOK, EventTypes
  <1>6. ThreadTypes'
    BY SwitchesAreBoolean DEF Nack, TypeOK, ThreadTypes, Pcs, transit
  <1> QED
    BY Zenon, <1>4, <1>5, <1>6, KeepTypes DEF Nack, TypeOK, jobslog

LEMMA TypeExtend ==
    ASSUME TypeOK, NEW p \in Procs, NEW n \in Nodes, NEW ask \in Asks,
           NEW lag \in Lags, Extend(p, n, ask, lag)
    PROVE  TypeOK'
  <1> USE Ranges
  <1>1. \A s \in DOMAIN leases : leases[s] \in Lease
    BY DEF TypeOK, LeaseTypes
  <1>2. \A s \in Unexpired(lag) :
          WithTtl(leases[s], LeaseTtl - lag) \in Lease
    <2>1. LeaseTtl - lag \in Int
      OBVIOUS
    <2>2. Unexpired(lag) \subseteq DOMAIN leases
      BY DEF Unexpired
    <2> QED
      BY Zenon, <1>1, <2>1, <2>2 DEF Lease, WithTtl
  <1>3. LeaseTypes'
    BY Zenon, <1>1, <1>2, SweepType DEF Extend, TypeOK, LeaseTypes
  <1>4. EventTypes'
    BY Zenon, EmitType, HeldType DEF Extend, TypeOK, EventTypes
  <1>5. ThreadTypes'
    BY Zenon, SwitchesAreBoolean DEF Extend, TypeOK, ThreadTypes, Pcs, transit
  <1>6. HistoryTypes'
    BY DEF Extend, TypeOK, HistoryTypes, history
  <1> QED
    BY <1>3, <1>4, <1>5, <1>6, KeepTypes DEF Extend, TypeOK, jobslog

LEMMA TypeReleaseConn ==
    ASSUME TypeOK, NEW p \in Procs, NEW c \in Conns, ReleaseConn(p, c)
    PROVE  TypeOK'
  <1> USE Ranges
  <1> DEFINE held == {s \in DOMAIN leases : leases[s].conn = c}
  <1>1. /\ held \in SUBSET DOMAIN leases /\ held \subseteq Jobs
        /\ DOMAIN leases \ held \in SUBSET DOMAIN leases
    BY DEF TypeOK, LeaseTypes
  <1>2. LeaseTypes'
    BY Zenon, <1>1, RestrictType DEF ReleaseConn, TypeOK, LeaseTypes
  <1>3. EventTypes'
    BY <1>1, EmitType DEF ReleaseConn, TypeOK, EventTypes
  <1>4. ThreadTypes'
    BY SwitchesAreBoolean DEF ReleaseConn, TypeOK, ThreadTypes, Pcs, transit
  <1> QED
    BY <1>2, <1>3, <1>4, KeepTypes DEF ReleaseConn, TypeOK, jobslog

\* Logging and the trailing sweep.
LEMMA TypeLogSettle ==
    ASSUME TypeOK, NEW p \in Procs,
           LogEvent(p) \/ \E lag \in Lags : Settle(p, lag)
    PROVE  TypeOK'
  <1> USE Ranges
  <1>1. CASE LogEvent(p)
    <2>1. events[p] \in Seq(Event) /\ events[p] # <<>>
      BY <1>1 DEF LogEvent, TypeOK, EventTypes
    <2>2. Head(events[p]) \in Event /\ Tail(events[p]) \in Seq(Event)
      BY <2>1
    <2>3. EventTypes'
      <3>1. events' \in [Procs -> Seq(Event)]
        BY <1>1, <2>2 DEF LogEvent, TypeOK, EventTypes
      <3>2. lease_log' \in {lease_log, Append(lease_log, Head(events[p]))}
        BY <1>1 DEF LogEvent
      <3>3. Append(lease_log, Head(events[p])) \in Seq(Event)
        BY <2>2 DEF TypeOK, EventTypes
      <3> QED
        BY Zenon, <3>1, <3>2, <3>3 DEF TypeOK, EventTypes
    <2>4. ThreadTypes'
      BY <1>1 DEF LogEvent, TypeOK, ThreadTypes, Pcs, transit
    <2>5. HistoryTypes'
      BY <1>1 DEF LogEvent, Fault, TypeOK, HistoryTypes, history
    <2> QED
      BY Zenon, <1>1, <2>3, <2>4, <2>5, KeepTypes
      DEF LogEvent, TypeOK, projection, jobslog
  <1>2. CASE \E lag \in Lags : Settle(p, lag)
    <2>1. LeaseTypes'
      BY Zenon, <1>2, SweepKeepsTypes DEF Settle, TypeOK
    <2>2. ThreadTypes'
      BY <1>2 DEF Settle, TypeOK, ThreadTypes, Pcs, transit
    <2> QED
      BY <1>2, <2>1, <2>2, KeepTypes DEF Settle, TypeOK, jobslog
  <1> QED
    BY Zenon, <1>1, <1>2

\* Every step of the queue keeps the types.
LEMMA TypeStep ==
    ASSUME TypeOK, ThreadInv, [Next]_vars
    PROVE  TypeOK'
  <1>1. ASSUME NEW p \in Procs, Requests(p) PROVE TypeOK'
    BY <1>1, TypeClaimBegin, TypeAckBegin, TypeNack, TypeExtend DEF Requests
  <1>2. ASSUME NEW p \in Procs, Finish(p) PROVE TypeOK'
    BY Zenon, <1>2, TypeClaimPass, TypeDeadLetter, TypeAck, TypeLogSettle
    DEF Finish
  <1>3. CASE UNCHANGED vars
    BY <1>3, KeepTypes DEF vars, TypeOK, projection, threads, jobslog
  <1> QED
    BY <1>1, <1>2, <1>3, TypeEnvironment, TypeReleaseConn DEF Next
=============================================================================
