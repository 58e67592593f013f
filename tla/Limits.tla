------------------------------- MODULE Limits -------------------------------
(***************************************************************************)
(* What the long-lived connections of the front end share: the connection  *)
(* slots (limits.rs, LiveCounts and SseGuard), the shutdown signal         *)
(* (serve.rs, ShutdownSignal) and the notifications a parked stream waits  *)
(* for.  Claims and Watch build their connections on it.                   *)
(*                                                                         *)
(* A tokio notification wakes the waiters registered at that moment and    *)
(* nobody else.  A waiter is registered by creating the future, for the    *)
(* shutdown by enabling it.                                                *)
(***************************************************************************)
EXTENDS Integers, Sequences, FiniteSets

CONSTANTS
    Conns,              \* the long-lived connections
    Keys, KeyOf,        \* the API keys, and the key of each connection or caller
    Names, Wids,        \* the names of the topics; the watch sessions
    Setups

\* conns, wids: the connections and sessions that are made; max_sse,
\* max_sse_key: the caps on connections (0 is none), max_inflight: the cap on
\* the requests of a key, max_sessions: the cap on sessions; jitter:
\* claim_jitter_ms # 0; topics: what is watched, from: from where; overlap: a
\* client may reconnect before the server has noticed that its connection is
\* gone; retune: a subscription may be replaced while it is active; bound:
\* how often each thing happens.
Bounds == {"claims", "cancels", "appends", "acks", "expiries", "polls",
           "publishes", "trims", "deletions", "failures", "breaks",
           "commands", "ticks", "heartbeats", "stops"}
Setup == [conns : SUBSET Conns, wids : SUBSET Wids, max_sse : Nat,
          max_sse_key : Nat, max_inflight : Nat, max_sessions : Nat,
          jitter : BOOLEAN, topics : SUBSET Names,
          from : SUBSET Nat, overlap : BOOLEAN, retune : BOOLEAN,
          bound : [Bounds -> Nat]]
ASSUME SetupsAreSetups == Setups \subseteq Setup

VARIABLES
    setup, left,    \* the setup, and what is left of its bounds
    pc,             \* where a connection is
    live,           \* LiveCounts: sse_total, sse_per_key, inflight_per_key
    slot,           \* where a connection is in try_acquire_sse
    flag,           \* ShutdownSignal::flag
    notified,       \* trigger has called notify_waiters
    waits,          \* what a connection is registered for
    woken           \* the connections with a registered future that is ready

limits == <<pc, live, slot>>
signals == <<flag, notified, waits, woken>>
shared == <<setup, left, limits, signals>>
Goto(c, step) == pc' = [pc EXCEPT ![c] = step]
Use(bound) == left[bound] > 0 /\ left' = [left EXCEPT ![bound] = @ - 1]

-----------------------------------------------------------------------------
(* Connection slots.                                                       *)

\* The reservation of the global slot: a compare-exchange loop.
ReserveGlobal(c) ==
    /\ slot[c] = "none"
    /\ \/ /\ setup.max_sse = 0 \/ live.total < setup.max_sse
          /\ live' = [live EXCEPT !.total = @ + 1]
          /\ slot' = [slot EXCEPT ![c] = "global"]
       \/ /\ setup.max_sse # 0 /\ live.total >= setup.max_sse
          /\ slot' = [slot EXCEPT ![c] = "refused"]
          /\ UNCHANGED live

\* Mutant: a refusal by the cap of the key keeps the global slot.
bump_per_key_leak(c) ==
    /\ slot[c] = "global"
    /\ \/ /\ setup.max_sse_key = 0 \/ live.key[KeyOf[c]] < setup.max_sse_key
          /\ live' = [live EXCEPT !.key[KeyOf[c]] = @ + 1]
          /\ slot' = [slot EXCEPT ![c] = "held"]
       \/ /\ setup.max_sse_key # 0 /\ live.key[KeyOf[c]] >= setup.max_sse_key
          /\ UNCHANGED live
          /\ slot' = [slot EXCEPT ![c] = "refused"]
\* The slot of the key; a refusal rolls the global one back.
bump_per_key(c) ==
    /\ slot[c] = "global"
    /\ \/ /\ setup.max_sse_key = 0 \/ live.key[KeyOf[c]] < setup.max_sse_key
          /\ live' = [live EXCEPT !.key[KeyOf[c]] = @ + 1]
          /\ slot' = [slot EXCEPT ![c] = "held"]
       \/ /\ setup.max_sse_key # 0 /\ live.key[KeyOf[c]] >= setup.max_sse_key
          /\ live' = [live EXCEPT !.total = @ - 1]
          /\ slot' = [slot EXCEPT ![c] = "refused"]

\* try_acquire_sse, called by a handler that then starts the stream or
\* answers 429.
AcquireSlot(c) ==
    /\ pc[c] = "slot" /\ (ReserveGlobal(c) \/ bump_per_key(c))
    /\ Goto(c, CASE slot'[c] = "held" -> "open"
                 [] slot'[c] = "refused" -> "over"
                 [] OTHER -> "slot")
    /\ UNCHANGED <<setup, left, signals>>

\* Drop of the guard, with the connection's future.
DropGuard(c) ==
    /\ live' = [live EXCEPT !.total = @ - 1, !.key[KeyOf[c]] = @ - 1]
    /\ slot' = [slot EXCEPT ![c] = "dropped"]

\* try_acquire_inflight, called by the auth middleware for a request, and the
\* drop of its guard; /work gives the slot back at once, a WebSocket when it is
\* upgraded.
InflightFull(p) ==
    setup.max_inflight # 0 /\ live.inflight[KeyOf[p]] >= setup.max_inflight
try_acquire_inflight(p) ==
    /\ ~InflightFull(p)
    /\ live' = [live EXCEPT !.inflight[KeyOf[p]] = @ + 1]
DropInflight(p) == live' = [live EXCEPT !.inflight[KeyOf[p]] = @ - 1]

-----------------------------------------------------------------------------
(* Notifications.  A waiter waits for <<"shutdown">>, for the topic n      *)
(* (<<"topic", n>>) or for a change of its subscriptions (<<"changed">>).  *)

Shutdown == <<"shutdown">>
TopicOf(n) == <<"topic", n>>

\* notify_waiters: nobody who registers later is woken.
WakeAll(source) == woken' = woken \cup {c \in Conns : source \in waits[c]}
Register(c, sources) == waits' = [waits EXCEPT ![c] = @ \cup sources]
\* The futures are dropped: at a wake-up, or with the connection.
Forget(c) == waits' = [waits EXCEPT ![c] = {}] /\ woken' = woken \ {c}

\* Mutant: the flag is read before the waiter is registered.
AwaitFlagFirst(c) ==
    \/ /\ pc[c] = "enable"
       /\ Goto(c, IF flag THEN "woken" ELSE "check")
       /\ UNCHANGED waits
    \/ /\ pc[c] = "check"
       /\ Register(c, {Shutdown}) /\ Goto(c, "parked")
\* ShutdownSignal::notified, first polled by the select of a stream: the
\* waiter is registered, then the flag is read.
Await(c) ==
    \/ /\ pc[c] = "enable"
       /\ Register(c, {Shutdown}) /\ Goto(c, "check")
    \/ /\ pc[c] = "check"
       /\ Goto(c, IF flag THEN "woken" ELSE "parked")
       /\ UNCHANGED waits
ParkConn(c) ==
    Await(c) /\ UNCHANGED <<setup, left, live, slot, flag, notified, woken>>

\* trigger: the flag, then the wake-up of everyone registered.
TriggerFlag ==
    /\ Use("stops") /\ flag' = TRUE
    /\ UNCHANGED <<setup, limits, notified, waits, woken>>
TriggerNotify ==
    /\ flag /\ ~notified /\ notified' = TRUE
    /\ WakeAll(Shutdown)
    /\ UNCHANGED <<setup, left, limits, flag, waits>>

LimitsInit ==
    /\ setup \in Setups /\ left = setup.bound
    /\ pc = [c \in Conns |-> "none"]
    /\ live = [total |-> 0, key |-> [k \in Keys |-> 0], inflight |-> [k \in Keys |-> 0]]
    /\ slot = [c \in Conns |-> "none"]
    /\ flag = FALSE /\ notified = FALSE
    /\ waits = [c \in Conns |-> {}] /\ woken = {}

-----------------------------------------------------------------------------
(* Properties.                                                             *)

\* The counters are exactly the slots in use, whatever way a connection was
\* refused or ended, and they never pass their caps.
SlotsExact ==
    /\ live.total = Cardinality({c \in Conns : slot[c] \in {"global", "held"}})
    /\ setup.max_sse # 0 => live.total <= setup.max_sse
    /\ \A k \in Keys :
         /\ live.key[k] = Cardinality({c \in Conns : slot[c] = "held" /\ KeyOf[c] = k})
         /\ setup.max_sse_key # 0 => live.key[k] <= setup.max_sse_key
=============================================================================
