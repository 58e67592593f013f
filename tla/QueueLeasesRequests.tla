------------------------- MODULE QueueLeasesRequests -------------------------
(* The inductive invariant holds initially and implies the properties; the *)
(* sweeps, the requests and the environment keep it.                       *)
EXTENDS QueueLeasesTypes

(* The places of the jobs.                                                 *)

LEMMA TransitDef ==
    ASSUME NEW s
    PROVE  /\ s \in InTransit <=> \E p \in Procs : s \in Transit(p)
           /\ s \in Waiting <=> \E d \in delayed : d.seq = s
  BY DEF InTransit, Waiting

LEMMA IInvImplies ==
    ASSUME IInv
    PROVE  OnePlace /\ NoJobStranded /\ DeadLetterKeepsACopy
  <1>0. ThreadInv /\ PlacesInv /\ CursorInv /\ FoundInv /\ CopyInv
    BY DEF IInv
  <1>1. OnePlace
    <2>1. \A p \in Procs : diverted[p] \cap DOMAIN acking[p] = {}
      BY <1>0 DEF ThreadInv
    <2>2. /\ DOMAIN leases \cap reclaim = {}
          /\ \A d, e \in delayed : d.seq = e.seq => d = e
          /\ \A p, q \in Procs : p # q => Transit(p) \cap Transit(q) = {}
      BY <1>0 DEF PlacesInv
    <2>3. Waiting \cap (DOMAIN leases \cup reclaim) = {}
      BY <1>0, TransitDef DEF PlacesInv
    <2>4. InTransit \cap (DOMAIN leases \cup reclaim \cup Waiting) = {}
      BY <1>0, TransitDef DEF PlacesInv
    <2>5. \A s \in Places : s < claim_cursor
      BY <1>0, TransitDef DEF CursorInv, Places
    <2> QED
      BY <2>1, <2>2, <2>3, <2>4, <2>5 DEF OnePlace
  <1>2. NoJobStranded
    BY <1>0, TransitDef DEF FoundInv, NoJobStranded, Places
  <1>3. DeadLetterKeepsACopy
    BY <1>0 DEF CopyInv, DeadLetterKeepsACopy
  <1> QED
    BY <1>1, <1>2, <1>3

LEMMA IInvInit == Init => IInv
  <1> SUFFICES ASSUME Init PROVE IInv
    OBVIOUS
  <1>1. TypeOK
    BY TypeInit
  <1>2. \A p \in Procs : diverted[p] = {} /\ DOMAIN acking[p] = {}
                         /\ pc[p] = "idle"
    BY DEF Init
  <1>3. DOMAIN leases = {}
    BY DEF Init
  <1>4. ThreadInv
    BY <1>2 DEF ThreadInv
  <1>5. PlacesInv
    BY <1>2, <1>3 DEF Init, PlacesInv, Transit
  <1>6. CursorInv
    BY <1>2, <1>3 DEF Init, CursorInv, Transit
  <1>7. FoundInv /\ CopyInv
    BY <1>2 DEF Init, FoundInv, CopyInv
  <1>8. AckedNeverRedelivered /\ AckHoldsLastLease
    BY <1>2, <1>3 DEF Init, AckedNeverRedelivered, AckHoldsLastLease
  <1> QED
    BY <1>1, <1>4, <1>5, <1>6, <1>7, <1>8 DEF IInv

\* What an action leaves alone.
LEMMA KeepInv ==
    /\ ThreadInv /\ UNCHANGED <<pc, transit>> => ThreadInv'
    /\ PlacesInv /\ UNCHANGED <<leases, reclaim, delayed, diverted, acking>>
         => PlacesInv'
    /\ CursorInv /\ UNCHANGED <<leases, reclaim, delayed, diverted, acking,
                                claim_cursor, head, acked>> => CursorInv'
    /\ FoundInv /\ UNCHANGED <<leases, reclaim, delayed, diverted, acking,
                               claim_cursor, live>> => FoundInv'
    /\ AckedNeverRedelivered /\ UNCHANGED <<acked, live, leases>>
         => AckedNeverRedelivered'
    /\ AckHoldsLastLease /\ UNCHANGED <<leases, acking, issued>>
         => AckHoldsLastLease'
    /\ CopyInv /\ UNCHANGED <<pc, diverted, slots, live, copies>> => CopyInv'
  <1>1. ThreadInv /\ UNCHANGED <<pc, transit>> => ThreadInv'
    BY DEF ThreadInv, transit
  <1>2. PlacesInv /\ UNCHANGED <<leases, reclaim, delayed, diverted, acking>>
         => PlacesInv'
    BY DEF PlacesInv, Transit
  <1>3. CursorInv /\ UNCHANGED <<leases, reclaim, delayed, diverted, acking,
                                claim_cursor, head, acked>> => CursorInv'
    BY DEF CursorInv, Transit
  <1>4. FoundInv /\ UNCHANGED <<leases, reclaim, delayed, diverted, acking,
                               claim_cursor, live>> => FoundInv'
    BY DEF FoundInv, Transit
  <1>5. AckedNeverRedelivered /\ UNCHANGED <<acked, live, leases>>
         => AckedNeverRedelivered'
    BY DEF AckedNeverRedelivered
  <1>6. AckHoldsLastLease /\ UNCHANGED <<leases, acking, issued>>
         => AckHoldsLastLease'
    BY DEF AckHoldsLastLease
  <1>7. CopyInv /\ UNCHANGED <<pc, diverted, slots, live, copies>> => CopyInv'
    BY DEF CopyInv
  <1> QED
    BY <1>1, <1>2, <1>3, <1>4, <1>5, <1>6, <1>7

\* A sweep moves jobs from the delays and the leases to the freelist: the
\* swept projection still has every job in one place.
SweptPlaces(lag) ==
    /\ \A s \in Unexpired(lag) : s \in DOMAIN leases
    /\ \A s \in SweptReclaim(lag) : s \notin Unexpired(lag)
    /\ \A d \in delayed \ Due(lag) :
         d \in delayed /\ d.seq \notin Unexpired(lag)
         /\ d.seq \notin SweptReclaim(lag)
    /\ \A p \in Procs : \A s \in Transit(p) :
         s \notin Unexpired(lag) /\ s \notin SweptReclaim(lag)
         /\ \A d \in delayed \ Due(lag) : d.seq # s
    /\ \A s \in SweptReclaim(lag) : s < claim_cursor
    /\ \A s : \/ s \in DOMAIN leases \/ s \in reclaim
              \/ \E d \in delayed : d.seq = s
         => \/ s \in Unexpired(lag) \/ s \in SweptReclaim(lag)
            \/ \E d \in delayed \ Due(lag) : d.seq = s

LEMMA SweepPlaces ==
    ASSUME PlacesInv, CursorInv, NEW lag \in Lags
    PROVE  SweptPlaces(lag)
  <1>1. /\ Unexpired(lag) = DOMAIN leases \ Expired(lag)
        /\ Expired(lag) \subseteq DOMAIN leases
        /\ Due(lag) \subseteq delayed
    BY DEF Unexpired, Expired, Due
  <1>2. \A s : s \in SweptReclaim(lag) <=>
               \/ s \in reclaim \/ s \in Expired(lag)
               \/ \E d \in Due(lag) : d.seq = s
    BY <1>1 DEF SweptReclaim, PlacesInv
  <1>3. \A s \in SweptReclaim(lag) : s \notin Unexpired(lag)
    BY <1>1, <1>2 DEF PlacesInv
  <1>4. \A d \in delayed \ Due(lag) : d.seq \notin Unexpired(lag)
                                      /\ d.seq \notin SweptReclaim(lag)
    BY <1>1, <1>2 DEF PlacesInv
  <1>5. \A p \in Procs : \A s \in Transit(p) :
          s \notin Unexpired(lag) /\ s \notin SweptReclaim(lag)
          /\ \A d \in delayed \ Due(lag) : d.seq # s
    BY <1>1, <1>2 DEF PlacesInv
  <1>6. \A s \in SweptReclaim(lag) : s < claim_cursor
    BY <1>1, <1>2 DEF CursorInv
  <1> QED
    BY <1>1, <1>2, <1>3, <1>4, <1>5, <1>6 DEF SweptPlaces

\* A sweep that keeps the ids of the leases it leaves.
LEMMA SweepInv ==
    ASSUME IInv, NEW lag \in Lags,
           DOMAIN leases' = Unexpired(lag), reclaim' = SweptReclaim(lag),
           delayed' = delayed \ Due(lag),
           \A s \in Unexpired(lag) : leases'[s].id = leases[s].id,
           UNCHANGED <<claim_cursor, head, live, acked, issued, diverted,
                       acking>>
    PROVE  /\ PlacesInv' /\ CursorInv' /\ FoundInv'
           /\ AckedNeverRedelivered' /\ AckHoldsLastLease'
  <1>1. PlacesInv /\ CursorInv /\ FoundInv /\ AckedNeverRedelivered
        /\ AckHoldsLastLease
    BY DEF IInv
  <1>2. SweptPlaces(lag)
    BY <1>1, SweepPlaces
  <1>3. \A p \in Procs : Transit(p)' = Transit(p)
    BY DEF Transit
  <1>4. PlacesInv'
    BY <1>1, <1>2, <1>3 DEF PlacesInv, SweptPlaces
  <1>5. CursorInv'
    BY <1>1, <1>2, <1>3 DEF CursorInv, SweptPlaces
  <1>6. FoundInv'
    BY <1>1, <1>2, <1>3 DEF FoundInv, SweptPlaces
  <1>7. AckedNeverRedelivered' /\ AckHoldsLastLease'
    BY <1>1, <1>2
    DEF AckedNeverRedelivered, AckHoldsLastLease, SweptPlaces
  <1> QED
    BY <1>4, <1>5, <1>6, <1>7

\* The steps that sweep and change nothing else of the projection.
LEMMA SweepsKeepInv ==
    ASSUME IInv, NEW lag \in Lags,
           \/ Counters(lag)
           \/ \E p \in Procs : Settle(p, lag)
           \/ \E p \in Procs, c \in Cohorts : ClaimBegin(p, c, lag)
    PROVE  /\ ThreadInv' /\ PlacesInv' /\ CursorInv' /\ FoundInv'
           /\ AckedNeverRedelivered' /\ AckHoldsLastLease' /\ CopyInv'
  <1>1. /\ Sweep(lag)
        /\ UNCHANGED <<claim_cursor, head, live, acked, issued, diverted,
                       acking, slots, copies, cur>>
    BY DEF Counters, Settle, ClaimBegin, allocators, jobslog, threads,
           transit, history
  <1>2. /\ PlacesInv' /\ CursorInv' /\ FoundInv'
        /\ AckedNeverRedelivered' /\ AckHoldsLastLease'
    <2>1. /\ DOMAIN leases' = Unexpired(lag) /\ reclaim' = SweptReclaim(lag)
          /\ delayed' = delayed \ Due(lag)
          /\ \A s \in Unexpired(lag) : leases'[s].id = leases[s].id
      BY <1>1 DEF Sweep, Restrict, Unexpired
    <2> QED
      BY <1>1, <2>1, SweepInv
  <1>3. \/ pc' = pc
        \/ \E p \in Procs : pc[p] = "settle" /\ pc' = [pc EXCEPT ![p] = "idle"]
        \/ \E p \in Procs : pc[p] = "idle" /\ pc' = [pc EXCEPT ![p] = "claim"]
    BY DEF Counters, Settle, ClaimBegin, threads
  <1>4. pc \in [Procs -> Pcs]
    BY DEF IInv, TypeOK, ThreadTypes
  <1>5. ThreadInv'
    BY <1>1, <1>3, <1>4 DEF ThreadInv, IInv
  <1>6. CopyInv'
    BY <1>1, <1>3, <1>4 DEF CopyInv, IInv
  <1> QED
    BY <1>2, <1>5, <1>6

LEMMA AckBeginInv ==
    ASSUME IInv, TypeOK', NEW p \in Procs, NEW n \in Nodes, NEW ask \in Asks,
           NEW lag \in Lags, AckBegin(p, n, ask, lag)
    PROVE  IInv'
  <1> DEFINE mine == Held(n, ask, lag)
  <1>1. /\ PlacesInv /\ CursorInv /\ FoundInv /\ ThreadInv /\ CopyInv
        /\ AckedNeverRedelivered /\ AckHoldsLastLease
    BY DEF IInv
  <1>2. SweptPlaces(lag)
    BY <1>1, SweepPlaces
  <1>3. /\ mine \subseteq Unexpired(lag)
        /\ \A s \in mine : lease_token_ok(ask[s], leases[s].id)
    BY DEF Held
  <1>4. /\ DOMAIN leases' = Unexpired(lag) \ mine
        /\ reclaim' = SweptReclaim(lag) /\ delayed' = delayed \ Due(lag)
        /\ \A s \in DOMAIN leases' : leases'[s] = leases[s]
        /\ UNCHANGED <<claim_cursor, head, live, acked, issued, diverted,
                       slots, copies, cur>>
    BY Zenon, <1>2, <1>3
    DEF AckBegin, Restrict, SweptPlaces, allocators, jobslog,
                      history
  <1>5. /\ pc[p] = "idle" /\ pc \in [Procs -> Pcs] /\ DOMAIN acking = Procs
        /\ pc' = [pc EXCEPT ![p] = "ack_delete"]
        /\ acking' = [acking EXCEPT ![p] = [s \in mine |->
               [node |-> n, id |-> leases[s].id, token |-> ask[s]]]]
    BY Zenon DEF AckBegin, IInv, TypeOK, ThreadTypes
  <1>6. diverted[p] = {} /\ DOMAIN acking[p] = {}
    BY Zenon, <1>1, <1>5 DEF ThreadInv
  <1>7. /\ DOMAIN acking'[p] = mine
        /\ \A q \in Procs \ {p} : acking'[q] = acking[q]
    BY Zenon, <1>5
  <1>8. /\ Transit(p)' = mine
        /\ \A q \in Procs \ {p} : Transit(q)' = Transit(q)
    BY <1>4, <1>6, <1>7 DEF Transit
  <1>9. ThreadInv'
    BY Zenon, <1>1, <1>4, <1>5, <1>6, <1>7 DEF ThreadInv
  <1>10. PlacesInv'
    <2>1. \A d, e \in delayed' : d.seq = e.seq => d = e
      BY Zenon, <1>1, <1>2, <1>4 DEF PlacesInv, SweptPlaces
    <2>2. /\ \A s \in reclaim' : s \notin DOMAIN leases'
          /\ \A d \in delayed' : d.seq \notin DOMAIN leases'
                                 /\ d.seq \notin reclaim'
      BY Zenon, <1>2, <1>4 DEF SweptPlaces
    <2>3. ASSUME NEW q \in Procs, NEW s \in Transit(q)'
          PROVE  /\ s \notin DOMAIN leases' /\ s \notin reclaim'
                 /\ \A d \in delayed' : d.seq # s
      BY <1>2, <1>3, <1>4, <1>8 DEF SweptPlaces
    <2>4. \A q \in Procs \ {p} : Transit(q) \cap mine = {}
      BY Zenon, <1>2, <1>3 DEF SweptPlaces
    <2>5. \A q, r \in Procs : q # r => (Transit(q) \cap Transit(r) = {})'
      BY <1>1, <1>8, <2>4 DEF PlacesInv
    <2> QED
      BY Zenon, <2>1, <2>2, <2>3, <2>5 DEF PlacesInv
  <1>11. CursorInv'
    BY ZenonT(30), <1>1, <1>2, <1>3, <1>4, <1>8 DEF CursorInv, SweptPlaces
  <1>12. FoundInv'
    <2>1. ASSUME NEW s \in live, NEW q \in Procs, s \in Transit(q)
          PROVE  s \in Transit(q)'
      BY Zenon, <1>6, <1>8, <2>1 DEF Transit
    <2> QED
      BY <1>1, <1>2, <1>4, <1>8, <2>1 DEF FoundInv, SweptPlaces
  <1>13. AckedNeverRedelivered'
    BY Zenon, <1>1, <1>2, <1>4 DEF AckedNeverRedelivered, SweptPlaces
  <1>14. AckHoldsLastLease'
    <2>1. \A s \in mine : /\ acking'[p][s].id = leases[s].id
                          /\ acking'[p][s].token = ask[s]
      BY Zenon, <1>5
    <2> QED
      BY <1>1, <1>2, <1>3, <1>4, <1>7, <2>1
      DEF AckHoldsLastLease, SweptPlaces, lease_token_ok
  <1>15. CopyInv'
    BY <1>1, <1>4, <1>5 DEF CopyInv
  <1> QED
    BY <1>9, <1>10, <1>11, <1>12, <1>13, <1>14, <1>15 DEF IInv

LEMMA NackInv ==
    ASSUME IInv, TypeOK', NEW p \in Procs, NEW n \in Nodes, NEW ask \in Asks,
           NEW delay \in NackDelays, NEW lag \in Lags,
           Nack(p, n, ask, delay, lag)
    PROVE  IInv'
  <1> DEFINE mine == Held(n, ask, lag)
             later == IF delay > 0 THEN mine ELSE {}
             more == {[seq |-> s, left |-> delay - lag] : s \in later}
  <1>1. /\ PlacesInv /\ CursorInv /\ FoundInv /\ ThreadInv /\ CopyInv
        /\ AckedNeverRedelivered /\ AckHoldsLastLease
    BY DEF IInv
  <1>2. SweptPlaces(lag)
    BY <1>1, SweepPlaces
  <1>3. /\ mine \subseteq Unexpired(lag) /\ later \subseteq mine
        /\ \A d \in more : d.seq \in later
        /\ \A d, e \in more : d.seq = e.seq => d = e
        /\ \A s \in later : \E d \in more : d.seq = s
    <2>1. mine \subseteq Unexpired(lag) /\ later \subseteq mine
      BY DEF Held
    <2> HIDE DEF later, mine
    <2>2. /\ \A d \in more : d.seq \in later
          /\ \A d, e \in more : d.seq = e.seq => d = e
      OBVIOUS
    <2>3. ASSUME NEW s \in later
          PROVE  \E d \in more : d.seq = s
      <3>1. [seq |-> s, left |-> delay - lag] \in more
        BY Zenon
      <3> QED
        BY <3>1
    <2> QED
      BY <2>1, <2>2, <2>3
  <1>4. /\ DOMAIN leases' = Unexpired(lag) \ mine
        /\ reclaim' = SweptReclaim(lag) \cup (mine \ later)
        /\ delayed' = (delayed \ Due(lag)) \cup more
        /\ \A s \in DOMAIN leases' : leases'[s] = leases[s]
        /\ UNCHANGED <<claim_cursor, head, live, acked, issued, diverted,
                       acking, slots, copies, cur>>
    BY <1>2, <1>3 DEF Nack, Restrict, SweptPlaces, allocators, jobslog,
                      history, transit
  <1> HIDE DEF mine, later, more
  <1>5. /\ pc[p] = "idle" /\ pc \in [Procs -> Pcs]
        /\ \/ pc' = [pc EXCEPT ![p] = "nack_log"]
           \/ pc' = [pc EXCEPT ![p] = "settle"]
    BY Zenon, SwitchesAreBoolean DEF Nack, IInv, TypeOK, ThreadTypes
  <1>6. \A q \in Procs : Transit(q)' = Transit(q)
    BY Zenon, <1>4 DEF Transit
  <1>7. ThreadInv'
    BY Zenon, <1>1, <1>4, <1>5 DEF ThreadInv
  <1>8. PlacesInv'
    <2>1. \A d, e \in delayed' : d.seq = e.seq => d = e
      BY Zenon, <1>1, <1>2, <1>3, <1>4 DEF PlacesInv, SweptPlaces
    <2>2. \A s \in reclaim' : s \notin DOMAIN leases'
      BY Zenon, <1>2, <1>3, <1>4 DEF SweptPlaces
    <2>3. \A d \in delayed' : d.seq \notin DOMAIN leases' /\ d.seq \notin reclaim'
      BY Zenon, <1>2, <1>3, <1>4 DEF SweptPlaces
    <2>4. ASSUME NEW q \in Procs, NEW s \in Transit(q)
          PROVE  /\ s \notin DOMAIN leases' /\ s \notin reclaim'
                 /\ \A d \in delayed' : d.seq # s
      BY <1>2, <1>3, <1>4 DEF SweptPlaces
    <2> QED
      BY ZenonT(30), <1>1, <1>6, <2>1, <2>2, <2>3, <2>4 DEF PlacesInv
  <1>9. CursorInv'
    <2>1. \A s \in Unexpired(lag) \cup SweptReclaim(lag) : s < claim_cursor
      BY Zenon, <1>1, <1>2 DEF CursorInv, SweptPlaces
    <2>2. \A d \in delayed' : d.seq < claim_cursor
      BY ZenonT(30), <1>1, <1>2, <1>3, <1>4, <2>1 DEF CursorInv, SweptPlaces
    <2> QED
      BY Zenon, <1>1, <1>3, <1>4, <1>6, <2>1, <2>2 DEF CursorInv
  <1>10. FoundInv'
    <2>1. ASSUME NEW s, \/ s \in Unexpired(lag) \/ s \in SweptReclaim(lag)
                        \/ \E d \in delayed \ Due(lag) : d.seq = s
          PROVE  \/ s \in DOMAIN leases' \/ s \in reclaim'
                 \/ \E d \in delayed' : d.seq = s
      BY ZenonT(30), <1>3, <1>4, <2>1
    <2> QED
      BY <1>1, <1>2, <1>4, <1>6, <2>1 DEF FoundInv, SweptPlaces
  <1>11. AckedNeverRedelivered' /\ AckHoldsLastLease'
    BY <1>1, <1>2, <1>4
    DEF AckedNeverRedelivered, AckHoldsLastLease, SweptPlaces
  <1>12. CopyInv'
    BY Zenon, <1>1, <1>4, <1>5 DEF CopyInv
  <1> QED
    BY <1>7, <1>8, <1>9, <1>10, <1>11, <1>12 DEF IInv

LEMMA ExtendInv ==
    ASSUME IInv, TypeOK', NEW p \in Procs, NEW n \in Nodes, NEW ask \in Asks,
           NEW lag \in Lags, Extend(p, n, ask, lag)
    PROVE  IInv'
  <1>1. /\ ThreadInv /\ CopyInv
    BY DEF IInv
  <1>2. /\ DOMAIN leases' = Unexpired(lag)
        /\ reclaim' = SweptReclaim(lag) /\ delayed' = delayed \ Due(lag)
        /\ UNCHANGED <<claim_cursor, head, live, acked, issued, diverted,
                       acking, slots, copies, cur>>
    BY DEF Extend, allocators, jobslog, history, transit
  <1>3. \A s \in Unexpired(lag) : leases'[s].id = leases[s].id
    BY Zenon DEF Extend, WithTtl
  <1>4. /\ pc[p] = "idle" /\ pc \in [Procs -> Pcs]
        /\ \/ pc' = [pc EXCEPT ![p] = "log"]
           \/ pc' = [pc EXCEPT ![p] = "idle"]
    BY Zenon, SwitchesAreBoolean DEF Extend, IInv, TypeOK, ThreadTypes
  <1>5. ThreadInv' /\ CopyInv'
    BY Zenon, <1>1, <1>2, <1>4 DEF ThreadInv, CopyInv
  <1> QED
    BY Zenon, <1>2, <1>3, <1>5, SweepInv DEF IInv

LEMMA ReleaseConnInv ==
    ASSUME IInv, TypeOK', NEW p \in Procs, NEW c \in Conns, ReleaseConn(p, c)
    PROVE  IInv'
  <1> DEFINE held == {s \in DOMAIN leases : leases[s].conn = c}
  <1>1. /\ PlacesInv /\ CursorInv /\ FoundInv /\ ThreadInv /\ CopyInv
        /\ AckedNeverRedelivered /\ AckHoldsLastLease
    BY DEF IInv
  <1>2. /\ held \subseteq DOMAIN leases
        /\ DOMAIN leases' = DOMAIN leases \ held
        /\ reclaim' = reclaim \cup held
        /\ \A s \in DOMAIN leases' : leases'[s] = leases[s]
        /\ UNCHANGED <<delayed, claim_cursor, head, live, acked, issued,
                       diverted, acking, slots, copies, cur>>
    BY DEF ReleaseConn, Restrict, allocators, jobslog, history, transit
  <1> HIDE DEF held
  <1>3. /\ pc[p] = "idle" /\ pc \in [Procs -> Pcs]
        /\ \/ pc' = [pc EXCEPT ![p] = "log"]
           \/ pc' = [pc EXCEPT ![p] = "idle"]
    BY Zenon, SwitchesAreBoolean DEF ReleaseConn, IInv, TypeOK, ThreadTypes
  <1>4. \A q \in Procs : Transit(q)' = Transit(q)
    BY Zenon, <1>2 DEF Transit
  <1>5. ThreadInv' /\ CopyInv'
    BY Zenon, <1>1, <1>2, <1>3 DEF ThreadInv, CopyInv
  <1>6. PlacesInv'
    <2>1. /\ \A s \in reclaim' : s \notin DOMAIN leases'
          /\ \A d \in delayed' : d.seq \notin DOMAIN leases'
                                 /\ d.seq \notin reclaim'
      BY Zenon, <1>1, <1>2 DEF PlacesInv
    <2>2. \A q \in Procs : \A s \in Transit(q) :
            s \notin DOMAIN leases' /\ s \notin reclaim'
      BY Zenon, <1>1, <1>2 DEF PlacesInv
    <2> QED
      BY <1>1, <1>2, <1>4, <2>1, <2>2 DEF PlacesInv
  <1>7. CursorInv' /\ FoundInv'
    BY Zenon, <1>1, <1>2, <1>4 DEF CursorInv, FoundInv
  <1>8. AckedNeverRedelivered' /\ AckHoldsLastLease'
    BY <1>1, <1>2 DEF AckedNeverRedelivered, AckHoldsLastLease
  <1> QED
    BY <1>5, <1>6, <1>7, <1>8 DEF IInv

\* Steps of the jobs log and of the clock.
LEMMA EnvironmentInv ==
    ASSUME IInv, TypeOK', Publish \/ Tick \/ \E s \in Jobs : RemoveJob(s)
    PROVE  IInv'
  <1>1. /\ PlacesInv /\ CursorInv /\ FoundInv /\ ThreadInv /\ CopyInv
        /\ AckedNeverRedelivered /\ AckHoldsLastLease
        /\ LogTypes /\ LeaseTypes /\ AllocatorTypes /\ ThreadTypes
    BY DEF IInv, TypeOK
  <1>2. CASE Publish
    <2>1. /\ head' = head + 1 /\ live' = live \cup {head + 1}
          /\ head \in Nat /\ claim_cursor \in Int
          /\ UNCHANGED <<projection, gone, copies, threads, history>>
      BY <1>1, <1>2, Ranges DEF Publish, LogTypes, AllocatorTypes
    <2>2. UNCHANGED <<pc, transit, leases, reclaim, delayed, diverted, slots,
                      acking, claim_cursor, acked, issued, copies>>
      BY <2>1 DEF projection, threads, history, transit, allocators
    <2>3. ThreadInv' /\ PlacesInv' /\ AckHoldsLastLease'
      BY ZenonT(30), <1>1, <2>2, KeepInv
    <2>4. CursorInv'
      BY <1>1, <2>1, <2>2 DEF CursorInv, Transit
    <2>5. FoundInv'
      BY <1>1, <2>1, <2>2 DEF CursorInv, FoundInv, Transit
    <2>6. AckedNeverRedelivered'
      BY <1>1, <2>1, <2>2 DEF CursorInv, AckedNeverRedelivered
    <2>7. \A p \in Procs : head + 1 \notin diverted[p]
      BY <1>1, <2>1 DEF CursorInv, Transit
    <2>8. CopyInv'
      BY <1>1, <2>1, <2>2, <2>7 DEF CopyInv
    <2> QED
      BY <2>3, <2>4, <2>5, <2>6, <2>8 DEF IInv
  <1>3. CASE Tick
    <2>1. /\ DOMAIN leases' = DOMAIN leases
          /\ \A s \in DOMAIN leases : leases'[s].id = leases[s].id
      BY Zenon, <1>3 DEF Tick, WithTtl
    <2>2. UNCHANGED <<pc, diverted, slots, acking, cur, reclaim, head, live,
                      claim_cursor, acked, issued, copies>>
      BY <1>3 DEF Tick, allocators, jobslog, threads, transit, history
    <2>3. \A d \in delayed : [seq |-> d.seq, left |-> Later(d.left)].seq = d.seq
      OBVIOUS
    <2> DEFINE Ticked(d) == [seq |-> d.seq, left |-> Later(d.left)]
    <2>4. /\ \A e \in delayed' : \E d \in delayed :
                 e.seq = d.seq /\ e = Ticked(d)
          /\ \A d \in delayed : \E e \in delayed' : e.seq = d.seq
      <3>1. delayed' = {Ticked(d) : d \in delayed}
        BY Zenon, <1>3 DEF Tick
      <3>2. \A d \in delayed : Ticked(d).seq = d.seq
        BY <2>3
      <3> HIDE DEF Ticked
      <3> QED
        BY <3>1, <3>2
    <2> HIDE DEF Ticked
    <2>5. \A q \in Procs : Transit(q)' = Transit(q)
      BY <2>2 DEF Transit
    <2>6. ThreadInv' /\ CopyInv'
      BY ZenonT(30), <1>1, <2>2, KeepInv DEF transit
    <2>7. PlacesInv'
      BY <1>1, <2>1, <2>2, <2>4, <2>5 DEF PlacesInv
    <2>8. CursorInv' /\ FoundInv'
      <3>1. CursorInv'
        BY <1>1, <2>1, <2>2, <2>4, <2>5 DEF CursorInv
      <3>2. FoundInv'
        BY <1>1, <2>1, <2>2, <2>4, <2>5 DEF FoundInv
      <3> QED
        BY <3>1, <3>2
    <2>9. AckedNeverRedelivered' /\ AckHoldsLastLease'
      BY <1>1, <2>1, <2>2 DEF AckedNeverRedelivered, AckHoldsLastLease
    <2> QED
      BY Zenon, <2>6, <2>7, <2>8, <2>9 DEF IInv
  <1>4. CASE \E s \in Jobs : RemoveJob(s)
    <2>1. /\ live' \subseteq live
          /\ UNCHANGED <<projection, head, copies, threads, history>>
      BY <1>4 DEF RemoveJob
    <2>2. UNCHANGED <<pc, transit, leases, reclaim, delayed, diverted, slots,
                      acking, claim_cursor, acked, issued, copies, head>>
      BY <2>1 DEF projection, threads, history, transit, allocators
    <2>3. ThreadInv' /\ PlacesInv' /\ AckHoldsLastLease' /\ CursorInv'
      BY ZenonT(30), <1>1, <2>2, KeepInv
    <2>4. FoundInv' /\ AckedNeverRedelivered' /\ CopyInv'
      BY Zenon, <1>1, <2>1, <2>2
      DEF FoundInv, Transit, AckedNeverRedelivered, CopyInv
    <2> QED
      BY <2>3, <2>4 DEF IInv
  <1> QED
    BY <1>2, <1>3, <1>4
=============================================================================
