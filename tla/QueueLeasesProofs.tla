------------------------- MODULE QueueLeasesProofs -------------------------
(* The claim passes, the dead-lettering and the acks keep the inductive    *)
(* invariant, and the theorems.                                            *)
EXTENDS QueueLeasesRequests

(* A claim pass.  The candidate it pops has no other place.                *)

LEMMA PopFacts ==
    ASSUME IInv, NEW s \in Candidates, Pop(s)
    PROVE  /\ s < claim_cursor' /\ claim_cursor' <= head + 1
           /\ claim_cursor <= claim_cursor'
           /\ claim_cursor \in Int /\ claim_cursor' \in Int /\ s \in Int
           /\ reclaim' = reclaim \ {s}
           /\ s \notin DOMAIN leases /\ \A d \in delayed : d.seq # s
           /\ \A p \in Procs : s \notin Transit(p)
           /\ \A t \in Int : t >= claim_cursor => t >= claim_cursor' \/ t = s
  <1>1. /\ PlacesInv /\ CursorInv
        /\ claim_cursor \in Int /\ seen_head \in 0..head /\ head \in Int
        /\ reclaim \subseteq Int
    BY Ranges DEF IInv, TypeOK, AllocatorTypes, PassTypes, LogTypes, LeaseTypes
  <1>2. CASE reclaim # {}
    <2>1. s \in reclaim /\ claim_cursor' = claim_cursor
          /\ reclaim' = reclaim \ {s}
      BY <1>2 DEF Candidates, Pop
    <2>2. /\ s \notin DOMAIN leases /\ \A d \in delayed : d.seq # s
          /\ \A p \in Procs : s \notin Transit(p)
      BY <1>1, <2>1 DEF PlacesInv
    <2>3. s < claim_cursor /\ claim_cursor <= head + 1
      BY <1>1, <2>1 DEF CursorInv
    <2> QED
      BY <1>1, <2>1, <2>2, <2>3
  <1>3. CASE reclaim = {}
    <2>1. /\ s = claim_cursor /\ s <= seen_head
          /\ claim_cursor' = claim_cursor + 1 /\ reclaim' = reclaim \ {s}
      BY <1>3 DEF Candidates, Pop
    <2>2. ~(s < claim_cursor)
      BY <1>1, <2>1
    <2>3. /\ s \notin DOMAIN leases /\ \A d \in delayed : d.seq # s
          /\ \A p \in Procs : s \notin Transit(p)
      BY <1>1, <2>2 DEF CursorInv
    <2> QED
      BY <1>1, <2>1, <2>3
  <1> QED
    BY <1>2, <1>3

\* What has a place stays behind a cursor that moves up.
LEMMA CursorMoves ==
    ASSUME IInv, claim_cursor <= claim_cursor', claim_cursor' \in Int
    PROVE  /\ \A t \in DOMAIN leases \cup reclaim : t < claim_cursor'
           /\ \A d \in delayed : d.seq < claim_cursor'
           /\ \A q \in Procs : \A t \in Transit(q) : t < claim_cursor'
  <1>1. /\ CursorInv /\ LeaseTypes /\ claim_cursor \in Int
        /\ Jobs \subseteq Int
    BY Ranges DEF IInv, TypeOK, AllocatorTypes
  <1>2. \A q \in Procs : \A t \in Transit(q) : t \in Int
    BY <1>1, AckingType DEF Transit, IInv, TypeOK, ThreadTypes
  <1>3. \A t \in DOMAIN leases \cup reclaim : t < claim_cursor'
    BY <1>1 DEF CursorInv, LeaseTypes
  <1>4. \A d \in delayed : d.seq < claim_cursor'
    BY <1>1 DEF CursorInv, LeaseTypes
  <1>5. \A q \in Procs : \A t \in Transit(q) : t < claim_cursor'
    BY <1>1, <1>2 DEF CursorInv
  <1> QED
    BY <1>3, <1>4, <1>5

LEMMA ClaimSkipInv ==
    ASSUME IInv, TypeOK', NEW p \in Procs, ClaimSkip(p)
    PROVE  IInv'
  <1>1. /\ PlacesInv /\ CursorInv /\ FoundInv /\ ThreadInv /\ CopyInv
        /\ AckedNeverRedelivered /\ AckHoldsLastLease
        /\ live \subseteq Int
    BY DEF IInv, TypeOK, LogTypes
  <1>2. PICK s \in Candidates : ~Claimable(s) /\ Pop(s)
    BY DEF ClaimSkip
  <1>3. /\ s < claim_cursor' /\ claim_cursor' <= head + 1
        /\ claim_cursor <= claim_cursor'
        /\ claim_cursor \in Int /\ claim_cursor' \in Int
        /\ reclaim' = reclaim \ {s}
        /\ s \notin DOMAIN leases
        /\ \A t \in Int : t >= claim_cursor => t >= claim_cursor' \/ t = s
    BY <1>2, PopFacts
  <1>4. s \notin live
    BY <1>2, <1>3 DEF Claimable
  <1>5. UNCHANGED <<leases, delayed, pc, transit, diverted, acking, slots, cur,
                    head, live, copies, acked, issued>>
    BY DEF ClaimSkip, jobslog, threads, transit, history
  <1>6. ThreadInv' /\ AckedNeverRedelivered' /\ AckHoldsLastLease' /\ CopyInv'
    BY <1>1, <1>5, KeepInv
  <1>7. \A q \in Procs : Transit(q)' = Transit(q)
    BY <1>5 DEF Transit
  <1>8. PlacesInv'
    BY <1>1, <1>3, <1>5, <1>7 DEF PlacesInv
  <1>9. CursorInv'
    BY <1>1, <1>3, <1>5, <1>7, CursorMoves DEF CursorInv
  <1>10. FoundInv'
    BY <1>1, <1>3, <1>4, <1>5, <1>7 DEF FoundInv
  <1> QED
    BY <1>6, <1>8, <1>9, <1>10 DEF IInv

LEMMA ClaimDivertInv ==
    ASSUME IInv, TypeOK', NEW p \in Procs, ClaimDivert(p)
    PROVE  IInv'
  <1>1. /\ PlacesInv /\ CursorInv /\ FoundInv /\ ThreadInv /\ CopyInv
        /\ AckedNeverRedelivered /\ AckHoldsLastLease /\ ThreadTypes
        /\ live \subseteq Int
    BY DEF IInv, TypeOK, LogTypes
  <1>2. PICK s \in Candidates :
          Pop(s) /\ diverted' = [diverted EXCEPT ![p] = @ \cup {s}]
    BY Zenon DEF ClaimDivert
  <1>3. /\ s < claim_cursor' /\ claim_cursor' <= head + 1
        /\ claim_cursor <= claim_cursor'
        /\ claim_cursor \in Int /\ claim_cursor' \in Int
        /\ reclaim' = reclaim \ {s}
        /\ s \notin DOMAIN leases /\ \A d \in delayed : d.seq # s
        /\ \A q \in Procs : s \notin Transit(q)
        /\ \A t \in Int : t >= claim_cursor => t >= claim_cursor' \/ t = s
    BY <1>2, PopFacts
  <1>4. /\ pc[p] = "claim"
        /\ UNCHANGED <<leases, delayed, pc, acking, slots, cur, head, live,
                       copies, acked, issued>>
    BY DEF ClaimDivert, InPass, jobslog, history
  <1>5. /\ diverted'[p] = diverted[p] \cup {s}
        /\ \A q \in Procs \ {p} : diverted'[q] = diverted[q]
    BY <1>1, <1>2 DEF ThreadTypes
  <1>6. /\ Transit(p)' = Transit(p) \cup {s}
        /\ \A q \in Procs \ {p} : Transit(q)' = Transit(q)
    BY <1>4, <1>5 DEF Transit
  <1>7. ThreadInv' /\ CopyInv'
    BY <1>1, <1>4, <1>5 DEF ThreadInv, CopyInv
  <1>8. AckedNeverRedelivered' /\ AckHoldsLastLease'
    BY <1>1, <1>4, KeepInv
  <1>9. PlacesInv'
    <2>1. \A q \in Procs : \A t \in Transit(q)' :
            t \notin DOMAIN leases' /\ t \notin reclaim'
            /\ \A d \in delayed' : d.seq # t
      BY <1>1, <1>3, <1>4, <1>6 DEF PlacesInv
    <2>2. \A q, r \in Procs : q # r => (Transit(q) \cap Transit(r) = {})'
      BY <1>1, <1>3, <1>6 DEF PlacesInv
    <2> QED
      BY <1>1, <1>3, <1>4, <2>1, <2>2 DEF PlacesInv
  <1>10. CursorInv'
    BY <1>1, <1>3, <1>4, <1>6, CursorMoves DEF CursorInv
  <1>11. FoundInv'
    BY <1>1, <1>3, <1>4, <1>6 DEF FoundInv
  <1> QED
    BY <1>7, <1>8, <1>9, <1>10, <1>11 DEF IInv

LEMMA ClaimLeaseInv ==
    ASSUME IInv, TypeOK', NEW p \in Procs, ClaimLease(p)
    PROVE  IInv'
  <1>1. /\ PlacesInv /\ CursorInv /\ FoundInv /\ ThreadInv /\ CopyInv
        /\ AckedNeverRedelivered /\ AckHoldsLastLease /\ HistoryTypes
        /\ LeaseTypes /\ ThreadTypes /\ live \subseteq Int
    BY DEF IInv, TypeOK, LogTypes
  <1>2. PICK s \in Candidates : \E i \in Served :
          Claimable(s) /\ Pop(s) /\ LeaseTo(p, s, i)
    BY DEF ClaimLease
  <1>3. /\ s < claim_cursor' /\ claim_cursor' <= head + 1
        /\ claim_cursor <= claim_cursor'
        /\ claim_cursor \in Int /\ claim_cursor' \in Int
        /\ reclaim' = reclaim \ {s}
        /\ s \notin DOMAIN leases /\ \A d \in delayed : d.seq # s
        /\ \A q \in Procs : s \notin Transit(q)
        /\ \A t \in Int : t >= claim_cursor => t >= claim_cursor' \/ t = s
    BY <1>2, PopFacts
  <1>4. s \in live /\ s \in Jobs
    BY <1>2, Ranges DEF Claimable, IInv, TypeOK, LogTypes
  <1>5. UNCHANGED <<delayed, pc, transit, diverted, acking, slots, cur, head,
                    live, copies, acked>>
    BY DEF ClaimLease, jobslog, transit
  <1>6. /\ DOMAIN leases' = DOMAIN leases \cup {s}
        /\ leases'[s].id = next_lease_id
        /\ \A t \in DOMAIN leases : leases'[t] = leases[t]
        /\ issued' = [issued EXCEPT ![s] = next_lease_id]
    BY <1>2, <1>3 DEF LeaseTo
  <1>7. /\ issued'[s] = next_lease_id
        /\ \A t \in Jobs \ {s} : issued'[t] = issued[t]
    BY <1>1, <1>4, <1>6 DEF HistoryTypes
  <1>8. \A q \in Procs : Transit(q)' = Transit(q)
    BY <1>5 DEF Transit
  <1>9. ThreadInv' /\ CopyInv'
    BY <1>1, <1>5, KeepInv
  <1>10. PlacesInv'
    BY <1>1, <1>3, <1>5, <1>6, <1>8 DEF PlacesInv
  <1>11. CursorInv'
    BY <1>1, <1>3, <1>5, <1>6, <1>8, CursorMoves DEF CursorInv
  <1>12. FoundInv'
    BY <1>1, <1>3, <1>5, <1>6, <1>8 DEF FoundInv
  <1>13. AckedNeverRedelivered'
    BY <1>1, <1>4, <1>5, <1>6 DEF AckedNeverRedelivered
  <1>14. AckHoldsLastLease'
    <2>1. \A t \in DOMAIN leases : t \in Jobs \ {s}
      BY <1>1, <1>3 DEF LeaseTypes
    <2>2. \A q \in Procs : \A t \in DOMAIN acking[q] : t \in Jobs \ {s}
      BY <1>1, <1>3 DEF ThreadTypes, Transit
    <2> QED
      BY <1>1, <1>5, <1>6, <1>7, <2>1, <2>2 DEF AckHoldsLastLease
  <1> QED
    BY <1>9, <1>10, <1>11, <1>12, <1>13, <1>14 DEF IInv

LEMMA ClaimEndInv ==
    ASSUME IInv, TypeOK', NEW p \in Procs, ClaimEnd(p)
    PROVE  IInv'
  <1>1. /\ PlacesInv /\ CursorInv /\ FoundInv /\ ThreadInv /\ CopyInv
        /\ AckedNeverRedelivered /\ AckHoldsLastLease /\ ThreadTypes
    BY Zenon DEF IInv, TypeOK
  <1>2. UNCHANGED <<leases, delayed, reclaim, claim_cursor, diverted, acking,
                    slots, cur, head, live, copies, acked, issued>>
    BY DEF ClaimEnd, projection, allocators, jobslog, transit, history
  <1>3. /\ pc[p] = "claim"
        /\ \/ pc' = [pc EXCEPT ![p] = "dl_slots"]
           \/ diverted[p] = {} /\ pc' = [pc EXCEPT ![p] = "log"]
           \/ diverted[p] = {} /\ pc' = [pc EXCEPT ![p] = "idle"]
    BY Zenon DEF ClaimEnd, AfterDeadLetter
  <1>4. PlacesInv' /\ CursorInv' /\ FoundInv' /\ AckedNeverRedelivered'
        /\ AckHoldsLastLease'
    BY Zenon, <1>1, <1>2, KeepInv
  <1>5. ThreadInv' /\ CopyInv'
    BY <1>1, <1>2, <1>3 DEF ThreadInv, CopyInv, ThreadTypes
  <1> QED
    BY <1>4, <1>5 DEF IInv

-----------------------------------------------------------------------------
(* Dead-lettering and acks: jobs leave a thread's hands, for the freelist  *)
(* or because they were deleted.                                           *)

LEMMA LeavesTransit ==
    ASSUME IInv,
           UNCHANGED <<leases, delayed, claim_cursor, head>>,
           acked' \subseteq 1..head,
           \A q \in Procs : Transit(q)' \subseteq Transit(q),
           reclaim \subseteq reclaim',
           \A s \in reclaim' \ reclaim :
               \E q \in Procs : s \in Transit(q) /\ s \notin Transit(q)',
           live' \subseteq live,
           \A q \in Procs : \A s \in Transit(q) \cap live' :
               s \in Transit(q)' \/ s \in reclaim'
    PROVE  PlacesInv' /\ CursorInv' /\ FoundInv'
  <1>1. PlacesInv /\ CursorInv /\ FoundInv
    BY DEF IInv
  <1>2. ASSUME NEW s \in reclaim' \ reclaim
        PROVE  /\ s \notin DOMAIN leases /\ \A d \in delayed : d.seq # s
               /\ s < claim_cursor
               /\ \A r \in Procs : s \notin Transit(r)'
    <2>1. PICK q \in Procs : s \in Transit(q) /\ s \notin Transit(q)'
      BY <1>2
    <2>2. \A r \in Procs : r # q => s \notin Transit(r)
      BY <1>1, <2>1 DEF PlacesInv
    <2>3. \A r \in Procs : s \notin Transit(r)'
      BY <2>1, <2>2
    <2> QED
      BY <1>1, <2>1, <2>3 DEF PlacesInv, CursorInv
  <1>3. PlacesInv'
    <2>1. /\ \A s \in reclaim' : s \notin DOMAIN leases'
          /\ \A d \in delayed' : d.seq \notin DOMAIN leases'
                                 /\ d.seq \notin reclaim'
      BY <1>1, <1>2 DEF PlacesInv
    <2>2. \A q \in Procs : \A s \in Transit(q)' :
            s \notin DOMAIN leases' /\ s \notin reclaim'
            /\ \A d \in delayed' : d.seq # s
      BY <1>1, <1>2 DEF PlacesInv
    <2>3. \A q, r \in Procs : q # r => (Transit(q) \cap Transit(r) = {})'
      BY <1>1 DEF PlacesInv
    <2> QED
      BY <1>1, <2>1, <2>2, <2>3 DEF PlacesInv
  <1>4. CursorInv'
    BY <1>1, <1>2 DEF CursorInv
  <1>5. FoundInv'
    BY <1>1 DEF FoundInv
  <1> QED
    BY <1>3, <1>4, <1>5

\* The steps that keep the diverted jobs where they are.
LEMMA DeadLetterCopyInv ==
    ASSUME IInv, TypeOK', NEW p \in Procs,
           \/ DeadLetterSlots(p) \/ DeadLetterAppend(p)
           \/ DeadLetterCommit(p) \/ DeadLetterDone(p)
    PROVE  IInv'
  <1>1. /\ PlacesInv /\ CursorInv /\ FoundInv /\ ThreadInv /\ CopyInv
        /\ AckedNeverRedelivered /\ AckHoldsLastLease /\ ThreadTypes
        /\ copies \in [Jobs -> Nat]
    BY Zenon DEF IInv, TypeOK, LogTypes
  <1>2. UNCHANGED <<leases, delayed, reclaim, claim_cursor, diverted, acking,
                    head, live, acked, issued>>
    BY DEF DeadLetterSlots, DeadLetterAppend, DeadLetterCommit,
           DeadLetterDone, projection, allocators, jobslog, transit, history
  <1>3. PlacesInv' /\ CursorInv' /\ FoundInv' /\ AckedNeverRedelivered'
        /\ AckHoldsLastLease'
    BY <1>1, <1>2, KeepInv
  <1>4. CASE DeadLetterSlots(p)
    <2>1. ThreadInv'
      BY Zenon, <1>1, <1>2, <1>4 DEF DeadLetterSlots, ThreadInv, ThreadTypes
    <2>2. CopyInv'
      BY Zenon, <1>1, <1>2, <1>4
      DEF DeadLetterSlots, CopyInv, ThreadTypes, jobslog
    <2> QED
      BY Zenon, <1>3, <2>1, <2>2 DEF IInv
  <1>5. CASE DeadLetterAppend(p)
    <2>1. ThreadInv'
      BY <1>1, <1>2, <1>5 DEF DeadLetterAppend, ThreadInv, ThreadTypes
    <2>2. \A s \in Jobs : /\ copies'[s] >= copies[s]
                          /\ s \in slots[p] => copies'[s] > 0
                          /\ copies[s] > 0 => copies'[s] > 0
      BY <1>1, <1>5 DEF DeadLetterAppend
    <2>3. \A q \in Procs : diverted[q] \subseteq Jobs
      BY Zenon, <1>1 DEF ThreadTypes
    <2>4. /\ pc'[p] = "dl_delete" /\ pc[p] = "dl_append"
          /\ \A q \in Procs \ {p} : pc'[q] = pc[q] /\ slots'[q] = slots[q]
      BY <1>1, <1>5 DEF DeadLetterAppend, ThreadTypes
    <2>5. CopyInv'
      BY Zenon, <1>1, <1>2, <2>2, <2>3, <2>4 DEF CopyInv
    <2> QED
      BY <1>3, <2>1, <2>5 DEF IInv
  <1>6. CASE DeadLetterCommit(p)
    <2>1. ThreadInv'
      BY Zenon, <1>1, <1>2, <1>6 DEF DeadLetterCommit, ThreadInv, ThreadTypes
    <2>2. CopyInv'
      BY <1>1, <1>2, <1>6 DEF DeadLetterCommit, CopyInv, ThreadTypes
    <2> QED
      BY <1>3, <2>1, <2>2 DEF IInv
  <1>7. CASE DeadLetterDone(p)
    <2>1. /\ diverted[p] = {} /\ pc[p] = "dl_delete"
          /\ \/ pc' = [pc EXCEPT ![p] = "log"]
             \/ pc' = [pc EXCEPT ![p] = "idle"]
          /\ UNCHANGED <<slots, cur, copies>>
      BY Zenon, <1>7 DEF DeadLetterDone, AfterDeadLetter, transit, jobslog
    <2>2. ThreadInv' /\ CopyInv'
      BY Zenon, <1>1, <1>2, <2>1 DEF ThreadInv, CopyInv, ThreadTypes
    <2> QED
      BY <1>3, <2>2 DEF IInv
  <1> QED
    BY <1>4, <1>5, <1>6, <1>7

\* The steps that give diverted jobs back or delete them.
LEMMA DeadLetterDropInv ==
    ASSUME IInv, TypeOK', NEW p \in Procs,
           \/ DeadLetterFail(p) \/ DeadLetterCommitFail(p)
           \/ DeadLetterApply(p) \/ DeadLetterDelete(p)
    PROVE  IInv'
  <1>1. /\ PlacesInv /\ CursorInv /\ FoundInv /\ ThreadInv /\ CopyInv
        /\ AckedNeverRedelivered /\ AckHoldsLastLease /\ ThreadTypes
    BY DEF IInv, TypeOK
  <1>2. UNCHANGED <<leases, delayed, claim_cursor, acking, head, copies, acked,
                    issued>>
    BY ZenonT(30) DEF DeadLetterFail, DeadLetterCommitFail, DeadLetterApply,
           DeadLetterDelete, projection, allocators, jobslog, history
  <1>3. /\ pc[p] \in {"dl_slots", "dl_append", "dl_delete", "dl_apply"}
        /\ pc[p] = "dl_apply" => cur[p] \in diverted[p]
        /\ DOMAIN acking[p] = {}
        /\ \A q \in Procs : Transit(q) = diverted[q] \cup DOMAIN acking[q]
    BY Zenon, <1>1 DEF DeadLetterFail, DeadLetterCommitFail, DeadLetterApply,
                DeadLetterDelete, ThreadInv, Transit
  \* What each of them does to the diverted jobs of p.
  <1> DEFINE Dropped(D) ==
               /\ D \subseteq diverted[p]
               /\ diverted' = [diverted EXCEPT ![p] = @ \ D]
               /\ \/ reclaim' = reclaim \cup D /\ live' = live
                  \/ reclaim' = reclaim /\ live' = live \ D
  <1>4. \E D : Dropped(D)
    <2>1. CASE DeadLetterFail(p)
      <3>1. Dropped(diverted[p])
        BY Zenon, <1>1, <2>1 DEF DeadLetterFail, ThreadTypes, jobslog
      <3> QED
        BY Zenon, <3>1
    <2>2. CASE DeadLetterCommitFail(p)
      <3>1. PICK s \in diverted[p] :
              /\ reclaim' = reclaim \cup {s}
              /\ diverted' = [diverted EXCEPT ![p] = @ \ {s}]
        BY Zenon, <2>2 DEF DeadLetterCommitFail
      <3>2. Dropped({s})
        BY Zenon, <2>2, <3>1 DEF DeadLetterCommitFail, jobslog
      <3> QED
        BY Zenon, <3>2
    <2>3. CASE DeadLetterApply(p)
      <3>1. Dropped({cur[p]})
        BY Zenon, <1>3, <2>3 DEF DeadLetterApply, projection
      <3> QED
        BY Zenon, <3>1
    <2>4. CASE DeadLetterDelete(p)
      <3>1. PICK s \in diverted[p] :
              /\ live' = live \ {s}
              /\ diverted' = [diverted EXCEPT ![p] = @ \ {s}]
        BY Zenon, <2>4 DEF DeadLetterDelete
      <3>2. Dropped({s})
        BY Zenon, <2>4, <3>1 DEF DeadLetterDelete, projection
      <3> QED
        BY Zenon, <3>2
    <2> QED
      BY <2>1, <2>2, <2>3, <2>4
  <1>5. PICK D : Dropped(D)
    BY Zenon, <1>4
  <1>6. /\ diverted'[p] = diverted[p] \ D
        /\ \A q \in Procs \ {p} : diverted'[q] = diverted[q]
    BY Zenon, <1>1, <1>5 DEF ThreadTypes
  <1>7. /\ Transit(p)' = Transit(p) \ D /\ D \subseteq Transit(p)
        /\ \A q \in Procs \ {p} : Transit(q)' = Transit(q)
    BY ZenonT(30), <1>2, <1>3, <1>5, <1>6 DEF Transit
  <1>8. \A q \in Procs \ {p} : Transit(q) \cap D = {}
    BY <1>1, <1>7 DEF PlacesInv
  <1>9. PlacesInv' /\ CursorInv' /\ FoundInv'
    <2>1. \A q \in Procs : Transit(q)' \subseteq Transit(q)
      BY <1>7
    <2>2. /\ reclaim \subseteq reclaim' /\ live' \subseteq live
          /\ \A s \in reclaim' \ reclaim : s \in D
      BY <1>5
    <2>3. \A s \in reclaim' \ reclaim :
              \E q \in Procs : s \in Transit(q) /\ s \notin Transit(q)'
      BY <1>7, <2>2
    <2>4. \A q \in Procs : \A s \in Transit(q) \cap live' :
               s \in Transit(q)' \/ s \in reclaim'
      BY <1>5, <1>7
    <2>5. acked' \subseteq 1..head
      BY Zenon, <1>1, <1>2 DEF CursorInv
    <2> QED
      BY <1>2, <2>1, <2>2, <2>3, <2>4, <2>5, LeavesTransit
  <1>10. AckedNeverRedelivered' /\ AckHoldsLastLease'
    BY <1>1, <1>2, <1>5 DEF AckedNeverRedelivered, AckHoldsLastLease
  <1>11. /\ \A q \in Procs \ {p} : /\ pc'[q] = pc[q] /\ cur'[q] = cur[q]
                                   /\ slots'[q] = slots[q]
         /\ \/ pc'[p] \in {"log", "idle"} /\ D = diverted[p]
            \/ pc[p] \in {"dl_delete", "dl_apply"} /\ pc'[p] = "dl_delete"
    <2>1. CASE DeadLetterFail(p)
      <3>1. diverted'[p] = {}
        BY <1>1, <2>1 DEF DeadLetterFail, ThreadTypes
      <3>2. D = diverted[p]
        BY Zenon, <1>5, <1>6, <3>1
      <3> QED
        BY Zenon, <1>1, <2>1, <3>2
        DEF DeadLetterFail, ThreadTypes, AfterDeadLetter
    <2> QED
      BY Zenon, <1>1, <2>1 DEF DeadLetterCommitFail, DeadLetterApply,
                        DeadLetterDelete, ThreadTypes
  <1> HIDE DEF Dropped
  <1>12. ThreadInv'
    BY Zenon, <1>1, <1>2, <1>3, <1>6, <1>11 DEF ThreadInv
  <1>13. CopyInv'
    <2>1. live' \subseteq live
      BY <1>5 DEF Dropped
    <2> QED
      BY <1>1, <1>2, <1>6, <1>11, <2>1 DEF CopyInv
  <1> QED
    BY <1>9, <1>10, <1>12, <1>13 DEF IInv

\* The steps of an ack that keep its jobs, and logging.
LEMMA AckKeepInv ==
    ASSUME IInv, TypeOK', NEW p \in Procs,
           AckCommit(p) \/ AckFail(p) \/ AckDone(p) \/ LogEvent(p)
    PROVE  IInv'
  <1>1. /\ PlacesInv /\ CursorInv /\ FoundInv /\ ThreadInv /\ CopyInv
        /\ AckedNeverRedelivered /\ AckHoldsLastLease /\ ThreadTypes
    BY DEF IInv, TypeOK
  <1>2. UNCHANGED <<leases, delayed, reclaim, claim_cursor, diverted, acking,
                    slots, head, live, copies, acked, issued>>
    BY DEF AckCommit, AckFail, AckDone, LogEvent, projection, allocators,
           jobslog, transit, history
  <1>3. PlacesInv' /\ CursorInv' /\ FoundInv' /\ AckedNeverRedelivered'
        /\ AckHoldsLastLease'
    BY <1>1, <1>2, KeepInv
  <1>4. /\ \A q \in Procs \ {p} : pc'[q] = pc[q] /\ cur'[q] = cur[q]
        /\ pc[p] \in {"ack_delete", "log", "nack_log", "ack_log"}
        /\ \/ pc'[p] = "ack_apply" /\ cur'[p] \in DOMAIN acking[p]
           \/ pc[p] = "ack_delete" /\ pc'[p] = "ack_requeue"
           \/ DOMAIN acking[p] = {} /\ pc'[p] = "settle"
           \/ pc'[p] = pc[p]
           \/ pc[p] = "ack_log" /\ pc'[p] = "ack_delete"
           \/ pc[p] \in {"log", "nack_log"} /\ pc'[p] \in {"settle", "idle"}
    <2>1. CASE AckCommit(p)
      BY Zenon, <1>1, <2>1 DEF AckCommit, ThreadTypes
    <2>2. CASE AckFail(p)
      BY Zenon, <1>1, <2>2 DEF AckFail, ThreadTypes, transit
    <2>3. CASE AckDone(p)
      BY Zenon, <1>1, <2>3 DEF AckDone, ThreadTypes, transit
    <2>4. CASE LogEvent(p)
      BY Zenon, <1>1, <2>4 DEF LogEvent, ThreadTypes, transit
    <2> QED
      BY Zenon, <2>1, <2>2, <2>3, <2>4
  <1>5. ThreadInv'
    BY Zenon, <1>1, <1>2, <1>4 DEF ThreadInv
  <1>6. CopyInv'
    BY Zenon, <1>1, <1>2, <1>4 DEF CopyInv
  <1> QED
    BY <1>3, <1>5, <1>6 DEF IInv

\* The steps of an ack that give a job back or delete it.
LEMMA AckDropInv ==
    ASSUME IInv, TypeOK', NEW p \in Procs,
           AckRequeue(p) \/ AckApply(p) \/ AckDelete(p)
    PROVE  IInv'
  <1>1. /\ PlacesInv /\ CursorInv /\ FoundInv /\ ThreadInv /\ CopyInv
        /\ AckedNeverRedelivered /\ AckHoldsLastLease /\ ThreadTypes
        /\ live \subseteq 1..head /\ head \in Nat /\ claim_cursor \in Int
    BY Ranges DEF IInv, TypeOK, LogTypes, AllocatorTypes
  <1>2. UNCHANGED <<leases, delayed, claim_cursor, diverted, slots, head,
                    copies, issued>>
    BY Zenon
    DEF AckRequeue, AckApply, AckDelete, projection, allocators, jobslog,
           history
  \* What each of them does to one job of p.
  <1> DEFINE Dropped(s) ==
               /\ s \in DOMAIN acking[p]
               /\ acking' = [acking EXCEPT ![p] = Restrict(@, DOMAIN @ \ {s})]
               /\ \/ /\ reclaim' = reclaim \cup {s}
                     /\ live' = live /\ acked' = acked
                  \/ /\ reclaim' = reclaim
                     /\ live' = live \ {s} /\ acked' = acked \cup {s}
  <1>3. \E s : Dropped(s)
    <2>1. CASE AckRequeue(p)
      BY Zenon, <2>1 DEF AckRequeue, jobslog, history
    <2>2. CASE AckApply(p)
      <3>1. cur[p] \in DOMAIN acking[p]
        BY Zenon, <1>1, <2>2 DEF AckApply, ThreadInv
      <3> QED
        BY Zenon, <2>2, <3>1 DEF AckApply, Acknowledge, projection
    <2>3. CASE AckDelete(p)
      BY Zenon, <2>3 DEF AckDelete, Acknowledge, projection
    <2> QED
      BY Zenon, <2>1, <2>2, <2>3
  <1>4. PICK s : Dropped(s)
    BY Zenon, <1>3
  <1>5. /\ DOMAIN acking'[p] = DOMAIN acking[p] \ {s}
        /\ \A t \in DOMAIN acking'[p] : acking'[p][t] = acking[p][t]
        /\ \A q \in Procs \ {p} : acking'[q] = acking[q]
    BY <1>1, <1>4 DEF ThreadTypes, Restrict
  <1>6. diverted[p] = {}
    BY Zenon, <1>1, <1>4 DEF ThreadInv
  <1>7. /\ Transit(p)' = Transit(p) \ {s} /\ s \in Transit(p)
        /\ \A q \in Procs \ {p} : Transit(q)' = Transit(q)
    BY <1>2, <1>4, <1>5, <1>6 DEF Transit
  <1>8. s \in 1..head
    <2>1. s < claim_cursor /\ claim_cursor <= head + 1
      BY <1>1, <1>7 DEF CursorInv
    <2>2. s \in Jobs
      BY <1>1, <1>4, AckingType
    <2> QED
      BY <1>1, <2>1, <2>2, Ranges
  <1>9. PlacesInv' /\ CursorInv' /\ FoundInv'
    <2>1. \A q \in Procs : Transit(q)' \subseteq Transit(q)
      BY Zenon, <1>7
    <2>2. /\ reclaim \subseteq reclaim' /\ live' \subseteq live
          /\ \A t \in reclaim' \ reclaim : t = s
      BY <1>4
    <2>3. \A t \in reclaim' \ reclaim :
              \E q \in Procs : t \in Transit(q) /\ t \notin Transit(q)'
      BY Zenon, <1>7, <2>2
    <2>4. \A q \in Procs : \A t \in Transit(q) \cap live' :
               t \in Transit(q)' \/ t \in reclaim'
      BY <1>4, <1>7
    <2>5. acked' \subseteq 1..head
      BY Zenon, <1>1, <1>4, <1>8 DEF CursorInv
    <2> QED
      BY <1>2, <2>1, <2>2, <2>3, <2>4, <2>5, LeavesTransit
  <1>10. AckedNeverRedelivered'
    <2>1. s \notin DOMAIN leases
      BY Zenon, <1>1, <1>7 DEF PlacesInv
    <2> QED
      BY Zenon, <1>1, <1>2, <1>4, <2>1 DEF AckedNeverRedelivered
  <1>11. AckHoldsLastLease'
    <2>1. \A q \in Procs : \A t \in DOMAIN acking'[q] :
            t \in DOMAIN acking[q] /\ acking'[q][t] = acking[q][t]
      BY Zenon, <1>5
    <2> QED
      BY <1>1, <1>2, <2>1 DEF AckHoldsLastLease
  <1>12. /\ \A q \in Procs \ {p} : pc'[q] = pc[q] /\ cur'[q] = cur[q]
         /\ pc[p] \in {"ack_requeue", "ack_apply", "ack_delete"}
         /\ \/ pc'[p] \in {"ack_delete", "ack_log", "ack_requeue"}
            \/ pc'[p] = "idle" /\ DOMAIN acking'[p] = {}
    <2>1. CASE AckRequeue(p)
      <3>1. PICK t \in DOMAIN acking[p] :
              /\ acking' = [acking EXCEPT ![p] = Restrict(@, DOMAIN @ \ {t})]
              /\ pc' = [pc EXCEPT ![p] = IF DOMAIN acking[p] = {t} THEN "idle"
                                         ELSE "ack_requeue"]
        BY Zenon, <2>1 DEF AckRequeue
      <3>2. DOMAIN acking'[p] = DOMAIN acking[p] \ {t}
        BY <1>1, <3>1 DEF ThreadTypes, Restrict
      <3> QED
        BY Zenon, <1>1, <2>1, <3>1, <3>2 DEF AckRequeue, ThreadTypes
    <2>2. CASE AckApply(p)
      BY Zenon, <1>1, <2>2 DEF AckApply, Acknowledge, ThreadTypes
    <2>3. CASE AckDelete(p)
      BY Zenon, <1>1, <2>3 DEF AckDelete, Acknowledge, ThreadTypes
    <2> QED
      BY <2>1, <2>2, <2>3
  <1>13. ThreadInv'
    BY Zenon, <1>1, <1>2, <1>5, <1>6, <1>12 DEF ThreadInv
  <1>14. live' \subseteq live
    BY <1>4
  <1> HIDE DEF Dropped
  <1>15. CopyInv'
    BY Zenon, <1>1, <1>2, <1>6, <1>12, <1>14 DEF CopyInv
  <1> QED
    BY <1>9, <1>10, <1>11, <1>13, <1>15 DEF IInv

-----------------------------------------------------------------------------
(* The theorems.                                                           *)

LEMMA IInvStep == IInv /\ [Next]_vars => IInv'
  <1> SUFFICES ASSUME IInv, [Next]_vars PROVE IInv'
    OBVIOUS
  <1>1. TypeOK'
    BY TypeStep DEF IInv
  <1>2. ASSUME NEW p \in Procs, Requests(p) PROVE IInv'
    <2>1. PICK lag \in Lags :
            \/ \E c \in Cohorts : ClaimBegin(p, c, lag)
            \/ \E n \in Nodes, ask \in Asks :
                 \/ AckBegin(p, n, ask, lag)
                 \/ \E delay \in NackDelays : Nack(p, n, ask, delay, lag)
                 \/ Extend(p, n, ask, lag)
      BY <1>2 DEF Requests
    <2>2. CASE \E c \in Cohorts : ClaimBegin(p, c, lag)
      BY <1>1, <2>2, SweepsKeepInv DEF IInv
    <2> QED
      BY <1>1, <2>1, <2>2, AckBeginInv, NackInv, ExtendInv
  <1>3. ASSUME NEW p \in Procs, Finish(p) PROVE IInv'
    <2>1. CASE ClaimPass(p)
      BY <1>1, <2>1, ClaimSkipInv, ClaimDivertInv, ClaimLeaseInv, ClaimEndInv
      DEF ClaimPass
    <2>2. CASE DeadLetter(p)
      BY <1>1, <2>2, DeadLetterCopyInv, DeadLetterDropInv DEF DeadLetter
    <2>3. CASE Ack(p) \/ LogEvent(p)
      BY <1>1, <2>3, AckKeepInv, AckDropInv DEF Ack
    <2>4. CASE \E lag \in Lags : Settle(p, lag)
      BY <1>1, <2>4, SweepsKeepInv DEF IInv
    <2> QED
      BY <1>3, <2>1, <2>2, <2>3, <2>4 DEF Finish
  <1>4. CASE \E lag \in Lags : Counters(lag)
    BY <1>1, <1>4, SweepsKeepInv DEF IInv
  <1>5. CASE UNCHANGED vars
    <2>1. UNCHANGED <<pc, transit, leases, reclaim, delayed, diverted, acking,
                      claim_cursor, head, acked, live, issued, slots, copies>>
      BY <1>5 DEF vars, projection, allocators, jobslog, threads, transit,
                  history
    <2> QED
      BY <1>1, <2>1, KeepInv DEF IInv
  <1> QED
    BY <1>1, <1>2, <1>3, <1>4, <1>5, EnvironmentInv, ReleaseConnInv DEF Next

\* The inductive invariant holds in every reachable state of the queue.
THEOREM Invariance == Spec => []IInv
  BY IInvInit, IInvStep, PTL DEF Spec

\* The projection, the jobs log and the request threads keep their types: the
\* cursor stays within the published jobs and the lease ids within the bound.
THEOREM TypeCorrect == Spec => []TypeOK
  <1>1. IInv => TypeOK
    BY DEF IInv
  <1> QED
    BY <1>1, Invariance, PTL

\* However claims, acks, nacks, extends, disconnects, sweeps and dead-lettering
\* interleave, run_claim_cohort never finds a job in two places.
THEOREM JobsAreInOnePlace == Spec => []OnePlace
  BY IInvImplies, Invariance, PTL

\* No failed ack delete, failed dead-letter append or late sweep loses a live
\* job to the projection: a claim, a sweep or a running request leads back to it.
THEOREM NoJobIsStranded == Spec => []NoJobStranded
  BY IInvImplies, Invariance, PTL

\* ack_fenced removes the lease before it deletes, so an acked job is never
\* live or leased again while the process runs.
THEOREM AckedJobsStayAcked == Spec => []AckedNeverRedelivered
  <1>1. IInv => AckedNeverRedelivered
    BY DEF IInv
  <1> QED
    BY <1>1, Invariance, PTL

\* lease_token_ok fences: the ack that is deleting a job holds the last lease
\* handed out for it and presented that lease's token or none.
THEOREM AcksAreFenced == Spec => []AckHoldsLastLease
  <1>1. IInv => AckHoldsLastLease
    BY DEF IInv
  <1> QED
    BY <1>1, Invariance, PTL

\* dead_letter_jobs deletes no live job whose copy was not appended, even when
\* jobs are removed between the building of the copies and the deletes.
THEOREM DeadLetteringKeepsACopy == Spec => []DeadLetterKeepsACopy
  BY IInvImplies, Invariance, PTL
=============================================================================
