-------------------------- MODULE RetentionProofs --------------------------
(***************************************************************************)
(* Idempotent writes, for any number of threads, keys and requests: a key  *)
(* is appended once per window as long as the wall clock does not step     *)
(* back.  The argument needs neither the index nor the WAL, only the gates *)
(* of the keys and the remembered writes.                                  *)
(***************************************************************************)
EXTENDS Retention, TLAPS

\* A thread that has passed the gate of its key, and is not done.
Inside(p) == pc[p] # Do("idle") /\ pc[p] # Do("gate")

\* The parts of the state the argument is about.
Shape ==
    /\ setup \in Setups /\ now \in Nat
    /\ gates \in [Keys -> Procs \cup {NoProc}]
    /\ DOMAIN dedupe = Keys
    /\ \A k \in Keys : dedupe[k].at \in Int
    /\ DOMAIN pc = Threads /\ DOMAIN op = Threads
    /\ \A p \in Threads : /\ {"key", "now"} \subseteq DOMAIN op[p]
                          /\ op[p].key \in Keys \cup {NoKey}
                          /\ op[p].now \in Int /\ op[p].now <= now
    /\ \A a \in answers : a.from \in Int /\ a.at \in Int /\ a.at <= now

\* Only a request with a key waits at a gate, and it holds the gate from there
\* to its end.
GateInv ==
    \A p \in Threads :
        /\ pc[p] = Do("gate") => op[p].key \in Keys
        /\ Inside(p) /\ op[p].key \in Keys => gates[op[p].key] = p

\* While the gate of a key is held nothing is remembered for the key; and an
\* acknowledged write is remembered until its window has passed.
Acked(a, k) == a.answer = "ok" /\ a.key = k
EntryInv ==
    \A k \in Keys :
        /\ gates[k] # NoProc => dedupe[k] = NoEntry
        /\ \A a \in answers : Acked(a, k) =>
             \/ now - a.from > setup.window
             \/ dedupe[k] # NoEntry /\ dedupe[k].at = a.from

KeyInv == Shape /\ GateInv /\ EntryInv /\ KeyedOnce

LEMMA WindowType == ASSUME NEW s \in Setups PROVE s.window \in Int
  BY SetupsAreSetups DEF Setup

LEMMA EmptyTypes ==
    /\ NoEntry.at \in Int
    /\ {"key", "now"} \subseteq DOMAIN NoOp /\ NoOp.key = NoKey /\ NoOp.now = 0
  BY DEF NoEntry, NoOp

-----------------------------------------------------------------------------
(* The steps that move a thread on without touching keys or answers.       *)

Keeps(p) ==
    /\ {"key", "now"} \subseteq DOMAIN op'[p]
    /\ op'[p].key = op[p].key /\ op'[p].now = op[p].now
\* A request begins, with a key at its gate, or it ends.
Anew(p) ==
    /\ {"key", "now"} \subseteq DOMAIN op'[p]
    /\ op'[p].now \in {0, now}
    /\ \/ op'[p].key = NoKey /\ pc'[p] # Do("gate")
       \/ op'[p].key \in Keys /\ pc'[p] = Do("gate")
Quiet ==
    /\ UNCHANGED <<gates, dedupe, answers, setup, now>>
    /\ DOMAIN pc' = Threads /\ DOMAIN op' = Threads
    /\ \A p \in Threads :
         \/ Anew(p)
         \/ Keeps(p) /\ (pc'[p] = pc[p] \/ (Inside(p) /\ pc'[p] # Do("gate")))

LEMMA QuietStep == KeyInv /\ Quiet => KeyInv'
  <1> SUFFICES ASSUME KeyInv, Quiet PROVE KeyInv'
    OBVIOUS
  <1>1. Shape'
    BY DEF KeyInv, Shape, Quiet, Keeps, Anew
  <1>2. GateInv'
    BY NamesDiffer DEF KeyInv, GateInv, Quiet, Keeps, Anew, Inside, Do
  <1>3. EntryInv'
    BY DEF KeyInv, EntryInv, Quiet, Acked
  <1>4. KeyedOnce'
    BY DEF KeyInv, KeyedOnce, Outlasts, Quiet
  <1> QED
    BY <1>1, <1>2, <1>3, <1>4 DEF KeyInv

LEMMA DisturbedKeeps ==
    ASSUME KeyInv, NEW phases, NEW p \in Threads
    PROVE  /\ DOMAIN Disturbed(op, phases) = Threads
           /\ {"key", "now"} \subseteq DOMAIN Disturbed(op, phases)[p]
           /\ Disturbed(op, phases)[p].key = op[p].key
           /\ Disturbed(op, phases)[p].now = op[p].now
  BY DEF Disturbed, KeyInv, Shape

LEMMA PassQuiet ==
    ASSUME KeyInv, NEW p \in Threads,
           Plan(p) \/ Harden(p) \/ Commit(p) \/ Reclaim(p)
    PROVE  Quiet
  <1>1. /\ DOMAIN pc = Threads /\ DOMAIN op = Threads
        /\ \A q \in Threads : {"key", "now"} \subseteq DOMAIN op[q]
    BY DEF KeyInv, Shape
  <1>2. CASE Plan(p)
    BY <1>1, <1>2 DEF Plan, InPass, Follows, Goto, Arrive, Quiet, Keeps, Inside,
                      Do, idem, history, bounds
  <1>3. CASE Harden(p)
    BY <1>1, <1>3 DEF Harden, InPass, Follows, Goto, Quiet, Keeps, Inside, Do,
                      idem, history, bounds
  <1>4. CASE Commit(p)
    <2>1. \/ op' = op \/ op' = Disturbed(op, {Do("walk")})
      BY <1>4 DEF Commit
    <2>2. DOMAIN op' = Threads /\ \A q \in Threads : Keeps(q)
      BY <1>1, <2>1, DisturbedKeeps DEF Keeps
    <2> QED
      BY <1>1, <1>4, <2>2 DEF Commit, InPass, Follows, Goto, Quiet, Inside, Do,
                              idem, bounds
  <1>5. CASE Reclaim(p)
    <2>1. \/ op' = op \/ op' = Disturbed(op, {Do("walk")})
      BY <1>5 DEF Reclaim
    <2>2. DOMAIN op' = Threads /\ \A q \in Threads : Keeps(q)
      BY <1>1, <2>1, DisturbedKeeps DEF Keeps
    <2> QED
      BY <1>1, <1>5, <2>2 DEF Reclaim, InPass, Follows, Arrive, Quiet, Inside, Do,
                              idem, history, bounds
  <1> QED
    BY <1>2, <1>3, <1>4, <1>5

LEMMA ServeQuiet ==
    ASSUME KeyInv, NEW p \in Procs,
           Admit(p) \/ Stage(p) \/ Publish(p) \/ Count(p) \/ DeleteEnqueue(p)
    PROVE  Quiet
  <1>1. /\ DOMAIN pc = Threads /\ DOMAIN op = Threads
        /\ \A q \in Threads : {"key", "now"} \subseteq DOMAIN op[q]
        /\ p \in Threads
    BY DEF KeyInv, Shape, Threads
  <1>2. CASE Admit(p)
    BY <1>1, <1>2 DEF Admit, Quiet, Keeps, Inside, Do, idem, history, bounds
  <1>3. CASE Stage(p)
    BY <1>1, <1>3 DEF Stage, Quiet, Keeps, Inside, Do, idem, history, bounds
  <1>4. CASE Publish(p)
    <2>1. DOMAIN op' = Threads /\ \A q \in Threads : Keeps(q)
      BY <1>1, <1>4, DisturbedKeeps DEF Keeps, Publish
    <2> QED
      BY <1>1, <1>4, <2>1 DEF Publish, Quiet, Inside, Do, idem, history, bounds
  <1>5. CASE Count(p)
    BY <1>1, <1>5 DEF Count, Quiet, Keeps, Inside, Do, idem, history, bounds
  <1>6. CASE DeleteEnqueue(p)
    BY <1>1, <1>6 DEF DeleteEnqueue, Quiet, Keeps, Inside, Do, idem, bounds
  <1> QED
    BY <1>2, <1>3, <1>4, <1>5, <1>6

LEMMA ReadQuiet ==
    ASSUME KeyInv, SampleHead \/ SampleEarliest \/ SampleEvict
    PROVE  Quiet
  <1>1. /\ DOMAIN pc = Threads /\ DOMAIN op = Threads
        /\ \A q \in Threads : {"key", "now"} \subseteq DOMAIN op[q]
        /\ Reader \in Threads
    BY DEF KeyInv, Shape, Threads
  <1>2. CASE SampleHead
    BY <1>1, <1>2 DEF SampleHead, ReaderAt, Quiet, Keeps, Inside, Do, idem,
                      history, bounds
  <1>3. CASE SampleEarliest
    BY <1>1, <1>3 DEF SampleEarliest, ReaderAt, Quiet, Keeps, Inside, Do, idem,
                      history, bounds
  <1>4. CASE SampleEvict
    BY <1>1, <1>4 DEF SampleEvict, ReaderAt, Quiet, Keeps, Inside, Do, idem,
                      history, bounds
  <1> QED
    BY <1>2, <1>3, <1>4

LEMMA RequestQuiet ==
    ASSUME KeyInv, NEW p \in Procs, Request(p)
    PROVE  Quiet
  <1>1. /\ DOMAIN pc = Threads /\ DOMAIN op = Threads
        /\ \A q \in Threads : {"key", "now"} \subseteq DOMAIN op[q]
        /\ p \in Threads /\ p # Reader
    BY NamesDiffer DEF KeyInv, Shape, Threads
  <1>2. ASSUME NEW key \in Keys \cup {NoKey}, NEW bytes, Write(p, key, bytes)
        PROVE  Quiet
    BY <1>1, <1>2 DEF Write, Quiet, Keeps, Anew, NoOp, Do, idem, history
  <1>3. ASSUME NEW before, Delete(p, before)
        PROVE  Quiet
    BY <1>1, <1>3 DEF Delete, Quiet, Keeps, Anew, NoOp, Do, idem, history
  <1>4. CASE Update(p)
    <2>1. /\ op'[p] = [NoOp EXCEPT !.kind = "update", !.now = now]
          /\ DOMAIN op' = Threads
          /\ \A q \in Threads \ {p} : op'[q] = Disturbed(op, {pc[Reader]})[q]
      <3> DEFINE told == Disturbed(op, {pc[Reader]})
      <3>1. DOMAIN told = Threads
        BY <1>1, DisturbedKeeps
      <3>2. op' = [told EXCEPT ![p] = [NoOp EXCEPT !.kind = "update", !.now = now]]
        BY <1>4 DEF Update
      <3> HIDE DEF told
      <3>3. /\ op'[p] = [NoOp EXCEPT !.kind = "update", !.now = now]
            /\ DOMAIN op' = Threads
            /\ \A q \in Threads \ {p} : op'[q] = told[q]
        BY <1>1, <3>1, <3>2
      <3> QED
        BY <3>3 DEF told
    <2>2. \A q \in Threads \ {p} : Keeps(q)
      BY <2>1, DisturbedKeeps DEF Keeps
    <2> QED
      BY <1>1, <1>4, <2>1, <2>2 DEF Update, Quiet, Anew, NoOp, Do, idem, history
  <1>5. CASE Checkpoint(p)
    BY <1>1, <1>5 DEF Checkpoint, Quiet, Keeps, Anew, NoOp, Do, idem, history
  <1> QED
    BY <1>2, <1>3, <1>4, <1>5 DEF Request

LEMMA EndQuiet ==
    ASSUME KeyInv,
           Walk \/ (\E p \in Procs : DeleteApply(p)) \/ (\E from \in 0..head_seq + 1 : Diff(from))
    PROVE  Quiet
  <1>1. /\ DOMAIN pc = Threads /\ DOMAIN op = Threads
        /\ \A q \in Threads : {"key", "now"} \subseteq DOMAIN op[q]
        /\ Reader \in Threads
    BY DEF KeyInv, Shape, Threads
  <1>2. CASE Walk
    BY <1>1, <1>2 DEF Walk, ReaderAt, Quiet, Keeps, Anew, NoOp, Do, idem, bounds
  <1>3. ASSUME NEW p \in Procs, DeleteApply(p)
        PROVE  Quiet
    <2>1. p \in Threads /\ p # Reader
      BY NamesDiffer DEF Threads
    <2>2. /\ DOMAIN op' = Threads /\ op'[p] = NoOp
          /\ \A q \in Threads \ {p} : Keeps(q)
      BY <1>1, <1>3, <2>1 DEF DeleteApply, Disturbed, Keeps
    <2>3. /\ UNCHANGED <<gates, dedupe, answers, setup, now>>
          /\ pc' = [pc EXCEPT ![p] = Do("idle")]
      BY <1>3 DEF DeleteApply, idem, history, bounds
    <2> QED
      BY <1>1, <2>1, <2>2, <2>3 DEF Quiet, Anew, NoOp, Do
  <1>4. ASSUME NEW from, Diff(from)
        PROVE  Quiet
    BY <1>1, <1>4 DEF Diff, Quiet, Keeps, Anew, NoOp, Do, idem, history
  <1> QED
    BY <1>2, <1>3, <1>4

-----------------------------------------------------------------------------
(* The steps that do touch them.                                           *)

LEMMA ReleasedShape ==
    ASSUME KeyInv, NEW p \in Threads, Released(p),
           setup' = setup, now' = now
    PROVE  /\ gates' \in [Keys -> Procs \cup {NoProc}]
           /\ DOMAIN pc' = Threads /\ DOMAIN op' = Threads
           /\ \A q \in Threads : /\ {"key", "now"} \subseteq DOMAIN op'[q]
                                 /\ op'[q].key \in Keys \cup {NoKey}
                                 /\ op'[q].now \in Int /\ op'[q].now <= now
  <1>1. /\ gates \in [Keys -> Procs \cup {NoProc}] /\ now \in Nat
        /\ DOMAIN pc = Threads /\ DOMAIN op = Threads
        /\ \A q \in Threads : /\ {"key", "now"} \subseteq DOMAIN op[q]
                              /\ op[q].key \in Keys \cup {NoKey}
                              /\ op[q].now \in Int /\ op[q].now <= now
    BY DEF KeyInv, Shape
  <1>2. gates' \in [Keys -> Procs \cup {NoProc}]
    BY <1>1 DEF Released
  <1>3. DOMAIN pc' = Threads /\ DOMAIN op' = Threads
    BY <1>1 DEF Released
  <1>4. \A q \in Threads : /\ {"key", "now"} \subseteq DOMAIN op'[q]
                           /\ op'[q].key \in Keys \cup {NoKey}
                           /\ op'[q].now \in Int /\ op'[q].now <= now
    BY <1>1 DEF Released, NoOp
  <1> QED
    BY <1>2, <1>3, <1>4

LEMMA ReleasedGates ==
    ASSUME KeyInv, NEW p \in Threads, Released(p)
    PROVE  GateInv'
  <1> SUFFICES ASSUME NEW q \in Threads
               PROVE  /\ pc'[q] = Do("gate") => op'[q].key \in Keys
                      /\ Inside(q)' /\ op'[q].key \in Keys => gates'[op'[q].key] = q
    BY DEF GateInv
  <1>1. DOMAIN pc = Threads /\ DOMAIN op = Threads
    BY DEF KeyInv, Shape
  <1>2. CASE q = p
    BY <1>1, <1>2 DEF Released, Inside, Do
  <1>3. CASE q # p
    BY <1>1, <1>3 DEF Released, Inside, Do, KeyInv, GateInv
  <1> QED
    BY <1>2, <1>3

\* A request fails or returns without an acknowledged write.
LEMMA ReleasedStep ==
    ASSUME KeyInv, NEW p \in Threads, Released(p),
           UNCHANGED <<dedupe, setup, now>>,
           \/ answers' = answers \/ Answer(p, "error") \/ Answer(p, "refused")
    PROVE  KeyInv'
  <1>1. \A a \in answers' : \/ a \in answers
                            \/ /\ a.answer # "ok" /\ a.from = op[p].now
                               /\ a.at = now
    BY DEF Answer
  <1>2. op[p].now \in Int /\ now \in Nat
    BY DEF KeyInv, Shape
  <1>3. Shape'
    BY <1>1, <1>2, ReleasedShape DEF KeyInv, Shape
  <1>4. EntryInv'
    <2>1. \A k \in Keys : gates'[k] # NoProc => gates[k] # NoProc
      BY DEF Released
    <2> QED
      BY <1>1, <2>1 DEF KeyInv, EntryInv, Acked
  <1>5. KeyedOnce'
    BY <1>1 DEF KeyInv, KeyedOnce, Outlasts
  <1> QED
    BY <1>3, <1>4, <1>5, ReleasedGates DEF KeyInv

LEMMA RecordStep ==
    ASSUME KeyInv, NEW p \in Procs, Record(p)
    PROVE  KeyInv'
  <1> DEFINE k0 == op[p].key
             b == [answer |-> "ok", key |-> k0, seq |-> op[p].seq,
                   from |-> op[p].now, at |-> now]
  <1>1. /\ p \in Threads /\ p # NoProc /\ op[p].now \in Int /\ op[p].now <= now
        /\ now \in Nat
        /\ k0 \in Keys \cup {NoKey} /\ DOMAIN dedupe = Keys
        /\ gates \in [Keys -> Procs \cup {NoProc}] /\ setup \in Setups
    BY NamesDiffer DEF KeyInv, Shape, Threads
  <1>2. /\ Released(p) /\ UNCHANGED <<setup, now>>
        /\ answers' = answers \cup {b}
    BY DEF Record, Answer, bounds
  <1>3. k0 \in Keys => gates[k0] = p
    BY <1>1 DEF Record, KeyInv, GateInv, Inside, Do
  <1>4. /\ DOMAIN dedupe' = Keys
        /\ \A k \in Keys \ {k0} : dedupe'[k] = dedupe[k]
        /\ k0 \in Keys => /\ dedupe'[k0] # NoEntry
                          /\ dedupe'[k0].at = op[p].now
    BY <1>1, NamesDiffer DEF Record, NoEntry
  <1>5. /\ \A k \in Keys : gates'[k] # NoProc => gates[k] # NoProc
        /\ k0 \in Keys => gates'[k0] = NoProc
    BY <1>1, <1>2, <1>3 DEF Released
  <1>6. \A a \in answers : Acked(a, k0) /\ k0 \in Keys
                             => now - a.from > setup.window /\ a.at <= now
    BY <1>1, <1>3 DEF KeyInv, EntryInv, Shape
  <1>7. Shape'
    <2>1. \A k \in Keys : dedupe'[k].at \in Int
      BY <1>1, <1>4 DEF KeyInv, Shape
    <2>2. \A a \in answers' : a.from \in Int /\ a.at \in Int /\ a.at <= now
      BY <1>1, <1>2 DEF KeyInv, Shape
    <2> QED
      BY <1>1, <1>2, <1>4, <2>1, <2>2, ReleasedShape DEF Shape
  <1>8. EntryInv'
    <2> SUFFICES ASSUME NEW k \in Keys
                 PROVE  /\ gates'[k] # NoProc => dedupe'[k] = NoEntry
                        /\ \A a \in answers' : Acked(a, k) =>
                             \/ now - a.from > setup.window
                             \/ dedupe'[k] # NoEntry /\ dedupe'[k].at = a.from
      BY <1>2 DEF EntryInv, Acked
    <2>1. CASE k = k0
      BY <1>2, <1>4, <1>5, <1>6, <2>1 DEF Acked
    <2>2. CASE k # k0
      BY <1>2, <1>4, <1>5, <2>2 DEF KeyInv, EntryInv, Acked
    <2> QED
      BY <2>1, <2>2
  <1>9. KeyedOnce'
    <2>1. \A a \in answers : /\ a.answer = "ok" /\ a.key = b.key /\ a.key # NoKey
                             => Outlasts(a, b)
      BY <1>1, <1>6 DEF Outlasts, Acked
    <2> HIDE DEF b
    <2> QED
      BY <1>2, <2>1 DEF KeyInv, KeyedOnce, Outlasts
  <1> QED
    BY <1>1, <1>2, <1>7, <1>8, <1>9, ReleasedGates DEF KeyInv

LEMMA GateStep ==
    ASSUME KeyInv, NEW p \in Procs, Gate(p)
    PROVE  KeyInv'
  <1> DEFINE k0 == op[p].key
  <1>1. /\ p \in Threads /\ p # NoProc /\ op[p].now \in Int /\ op[p].now <= now
        /\ now \in Nat /\ k0 \in Keys /\ DOMAIN dedupe = Keys
        /\ \A k \in Keys : dedupe[k].at \in Int
        /\ gates \in [Keys -> Procs \cup {NoProc}] /\ gates[k0] = NoProc
        /\ setup \in Setups /\ setup.window \in Int
        /\ pc[p] = Do("gate") /\ DOMAIN pc = Threads /\ DOMAIN op = Threads
    <2>1. /\ p \in Threads /\ p # NoProc
      BY NamesDiffer DEF Threads
    <2>2. /\ op[p].now \in Int /\ op[p].now <= now /\ now \in Nat
          /\ DOMAIN dedupe = Keys /\ \A k \in Keys : dedupe[k].at \in Int
          /\ gates \in [Keys -> Procs \cup {NoProc}] /\ setup \in Setups
          /\ DOMAIN pc = Threads /\ DOMAIN op = Threads
      BY <2>1 DEF KeyInv, Shape
    <2>3. pc[p] = Do("gate") /\ gates[k0] = NoProc
      BY DEF Gate, GateFree
    <2>4. k0 \in Keys
      BY <2>1, <2>3 DEF KeyInv, GateInv
    <2> QED
      BY <2>1, <2>2, <2>3, <2>4, WindowType
  <1>2. /\ UNCHANGED <<setup, now>>
        /\ dedupe' = [k \in Keys |-> IF Fresh(p, k) THEN dedupe[k] ELSE NoEntry]
    BY DEF Gate, bounds
  \* Pruning drops what has run out of its window.
  <1>3. ASSUME NEW k \in Keys, NEW a \in answers, Acked(a, k)
        PROVE  \/ now - a.from > setup.window
               \/ dedupe'[k] # NoEntry /\ dedupe'[k].at = a.from
    <2>1. a.from \in Int
      BY DEF KeyInv, Shape
    <2>2. \/ now - a.from > setup.window
          \/ dedupe[k] # NoEntry /\ dedupe[k].at = a.from
      BY <1>3 DEF KeyInv, EntryInv
    <2>3. CASE Fresh(p, k)
      BY <1>2, <2>2, <2>3
    <2>4. CASE ~Fresh(p, k)
      BY <1>1, <2>1, <2>2, <2>4 DEF Fresh
    <2> QED
      BY <2>3, <2>4
  <1>4. \A k \in Keys : /\ dedupe'[k].at \in Int
                        /\ dedupe[k] = NoEntry => dedupe'[k] = NoEntry
    BY <1>1, <1>2, EmptyTypes
  <1>5. CASE Fresh(p, k0)
    <2>1. /\ pc' = [pc EXCEPT ![p] = Do("idle")] /\ op' = [op EXCEPT ![p] = NoOp]
          /\ gates' = gates
          /\ \A a \in answers' : \/ a \in answers
                                 \/ /\ a.answer # "ok" /\ a.from = op[p].now
                                    /\ a.at = now
      BY <1>5 DEF Gate, Answer
    <2>2. Shape'
      BY <1>1, <1>2, <1>4, <2>1 DEF KeyInv, Shape, NoOp
    <2>3. GateInv'
      BY <1>1, <2>1 DEF KeyInv, GateInv, Inside, Do
    <2>4. EntryInv'
      BY <1>2, <1>3, <1>4, <2>1 DEF KeyInv, EntryInv, Acked
    <2>5. KeyedOnce'
      BY <1>2, <2>1 DEF KeyInv, KeyedOnce, Outlasts
    <2> QED
      BY <2>2, <2>3, <2>4, <2>5 DEF KeyInv
  <1>6. CASE ~Fresh(p, k0)
    <2>1. /\ pc' = [pc EXCEPT ![p] = <<"plan", "admit">>] /\ op' = op
          /\ gates' = [gates EXCEPT ![k0] = p] /\ answers' = answers
          /\ dedupe'[k0] = NoEntry
      BY <1>1, <1>2, <1>6 DEF Gate
    <2>2. Shape'
      BY <1>1, <1>2, <1>4, <2>1 DEF KeyInv, Shape
    <2>3. GateInv'
      <3> SUFFICES ASSUME NEW q \in Threads
                   PROVE  /\ pc'[q] = Do("gate") => op'[q].key \in Keys
                          /\ Inside(q)' /\ op'[q].key \in Keys
                               => gates'[op'[q].key] = q
        BY DEF GateInv
      <3>1. CASE q = p
        BY <1>1, <2>1, <3>1 DEF Do
      <3>2. CASE q # p
        \* Nobody else was past the gate, which was free.
        <4>1. q # NoProc
          BY NamesDiffer DEF Threads
        <4> QED
          BY <1>1, <2>1, <3>2, <4>1 DEF KeyInv, GateInv, Inside
      <3> QED
        BY <3>1, <3>2
    <2>4. EntryInv'
      BY <1>1, <1>2, <1>3, <1>4, <2>1 DEF KeyInv, EntryInv, Acked
    <2>5. KeyedOnce'
      BY <1>2, <2>1 DEF KeyInv, KeyedOnce, Outlasts
    <2> QED
      BY <2>2, <2>3, <2>4, <2>5 DEF KeyInv
  <1> QED
    BY <1>5, <1>6

-----------------------------------------------------------------------------
LEMMA ClockStep == ASSUME KeyInv, Tick PROVE KeyInv'
  <1>1. /\ now \in Nat /\ setup.window \in Int /\ now' = now + 1
        /\ UNCHANGED <<gates, dedupe, answers, setup, pc, op>>
    BY WindowType DEF KeyInv, Shape, Tick, idem, history, requests
  <1>2. Shape'
    BY <1>1 DEF KeyInv, Shape
  <1>3. GateInv'
    BY <1>1 DEF KeyInv, GateInv, Inside
  <1>4. EntryInv'
    BY <1>1 DEF KeyInv, EntryInv, Acked, Shape
  <1>5. KeyedOnce'
    BY <1>1 DEF KeyInv, KeyedOnce, Outlasts
  <1> QED
    BY <1>2, <1>3, <1>4, <1>5 DEF KeyInv

\* A crash forgets keys, requests and answers alike.
LEMMA CrashStep == ASSUME KeyInv, Crash PROVE KeyInv'
  <1>1. /\ UNCHANGED <<setup, now>> /\ answers' = {}
        /\ gates' = [k \in Keys |-> NoProc] /\ dedupe' = [k \in Keys |-> NoEntry]
        /\ pc' = [p \in Threads |-> Do("idle")] /\ op' = [p \in Threads |-> NoOp]
    BY DEF Crash
  <1>2. Shape'
    <2>1. setup' \in Setups /\ now' \in Nat
      BY <1>1 DEF KeyInv, Shape
    <2>2. /\ gates' \in [Keys -> Procs \cup {NoProc}] /\ DOMAIN dedupe' = Keys
          /\ \A k \in Keys : dedupe'[k].at \in Int
      BY <1>1, EmptyTypes
    <2>3. /\ DOMAIN pc' = Threads /\ DOMAIN op' = Threads
          /\ \A p \in Threads : op'[p] = NoOp
      BY <1>1
    <2> QED
      BY <1>1, <2>1, <2>2, <2>3, EmptyTypes DEF Shape
  <1>3. GateInv'
    BY <1>1 DEF GateInv, Inside, Do
  <1>4. EntryInv'
    BY <1>1 DEF EntryInv
  <1>5. KeyedOnce'
    BY <1>1 DEF KeyedOnce
  <1> QED
    BY <1>2, <1>3, <1>4, <1>5 DEF KeyInv

LEMMA InitInv == Init => KeyInv
  <1> SUFFICES ASSUME Init PROVE KeyInv
    OBVIOUS
  <1>1. Shape
    <2>1. setup \in Setups /\ now \in Nat /\ answers = {}
      BY DEF Init
    <2>2. /\ gates \in [Keys -> Procs \cup {NoProc}] /\ DOMAIN dedupe = Keys
          /\ \A k \in Keys : dedupe[k].at \in Int
      BY EmptyTypes DEF Init
    <2>3. /\ DOMAIN pc = Threads /\ DOMAIN op = Threads
          /\ \A p \in Threads : op[p] = NoOp
      BY DEF Init
    <2> QED
      BY <2>1, <2>2, <2>3, EmptyTypes DEF Shape
  <1>2. GateInv
    BY DEF Init, GateInv, Inside, Do
  <1>3. EntryInv
    BY DEF Init, EntryInv
  <1>4. KeyedOnce
    BY DEF Init, KeyedOnce
  <1> QED
    BY <1>1, <1>2, <1>3, <1>4 DEF KeyInv

\* No request changes the setup, and only StepBack, which it must allow, turns
\* the clock back.
LEMMA NextInv == ASSUME KeyInv, Next, ~setup.back PROVE KeyInv'
  <1>1. ASSUME NEW p \in Procs, Request(p) PROVE KeyInv'
    BY <1>1, RequestQuiet, QuietStep
  <1>2. ASSUME NEW p \in Procs, Serve(p) PROVE KeyInv'
    <2> p \in Threads
      BY DEF Threads
    <2>1. CASE Admit(p) \/ Stage(p) \/ Publish(p) \/ Count(p) \/ DeleteEnqueue(p)
      BY <2>1, ServeQuiet, QuietStep
    <2>2. CASE DeleteApply(p)
      BY <2>2, EndQuiet, QuietStep
    <2>3. CASE Gate(p)
      BY <2>3, GateStep
    <2>4. CASE Record(p)
      BY <2>4, RecordStep
    <2>5. CASE Refuse(p) \/ Return(p) \/ Capture(p)
      <3>1. Released(p) /\ UNCHANGED <<dedupe, setup, now>>
        BY <2>5 DEF Refuse, Return, Capture, bounds
      <3>2. answers' = answers \/ Answer(p, "refused")
        BY <2>5 DEF Refuse, Return, Capture, history
      <3> QED
        BY <3>1, <3>2, ReleasedStep
    <2> QED
      BY <1>2, <2>1, <2>2, <2>3, <2>4, <2>5 DEF Serve
  <1>3. ASSUME NEW p \in Threads, Pass(p) PROVE KeyInv'
    <2>1. CASE HardenFails(p)
      <3>1. Released(p) /\ UNCHANGED <<dedupe, setup, now>> /\ Answer(p, "error")
        BY <2>1 DEF HardenFails
      <3> QED
        BY <3>1, ReleasedStep
    <2> QED
      BY <1>3, <2>1, PassQuiet, QuietStep DEF Pass
  <1>4. CASE Read
    BY <1>4, ReadQuiet, EndQuiet, QuietStep DEF Read
  <1>5. ~StepBack
    BY DEF StepBack
  <1> QED
    BY <1>1, <1>2, <1>3, <1>4, <1>5, ClockStep, CrashStep DEF Next

LEMMA SetupFixed == Next => setup' = setup
  <1> SUFFICES ASSUME Next PROVE setup' = setup
    OBVIOUS
  <1>1. ASSUME NEW p \in Procs, Request(p) PROVE setup' = setup
    BY <1>1 DEF Request, Write, Delete, Update, Checkpoint
  <1>2. ASSUME NEW p \in Procs, Serve(p) PROVE setup' = setup
    BY <1>2 DEF Serve, Gate, Refuse, Admit, Stage, Publish, Count, Record,
                DeleteEnqueue, DeleteApply, Return, Capture, bounds
  <1>3. ASSUME NEW p \in Threads, Pass(p) PROVE setup' = setup
    BY <1>3 DEF Pass, Plan, Harden, HardenFails, Commit, Reclaim, bounds
  <1>4. CASE Read
    BY <1>4 DEF Read, Diff, SampleHead, SampleEarliest, SampleEvict, Walk, bounds
  <1> QED
    BY <1>1, <1>2, <1>3, <1>4 DEF Next, Tick, StepBack, Crash

\* As long as the wall clock does not step back, a key is appended once per
\* window: the in-flight gate of Engine::write, the dedupe entry it leaves and
\* the pruning of old entries never acknowledge two appends of a key within
\* one window, however many requests, retries, failed watermarks and crashes
\* interleave.
THEOREM KeysAppendOncePerWindow == Spec => [](~setup.back => KeyedOnce)
  <1> DEFINE Steady == ~setup.back => KeyInv
  <1>1. Init => Steady
    BY InitInv
  <1>2. Steady /\ [Next]_vars => Steady'
    <2> SUFFICES ASSUME Steady, [Next]_vars, ~setup'.back PROVE KeyInv'
      OBVIOUS
    <2>1. CASE Next
      BY <2>1, NextInv, SetupFixed
    <2>2. CASE UNCHANGED vars
      <3>1. UNCHANGED <<setup, now, gates, dedupe, answers, pc, op>>
        BY <2>2 DEF vars, bounds, idem, history, requests
      <3> QED
        BY <3>1 DEF KeyInv, Shape, GateInv, EntryInv, KeyedOnce, Outlasts, Inside,
                    Acked
    <2> QED
      BY <2>1, <2>2
  <1>3. Steady => (~setup.back => KeyedOnce)
    BY DEF KeyInv
  <1> QED
    BY <1>1, <1>2, <1>3, PTL DEF Spec
=============================================================================
