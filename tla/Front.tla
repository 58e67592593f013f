-------------------------------- MODULE Front --------------------------------
(***************************************************************************)
(* The long-lived requests of the server side by side: claims and /work    *)
(* connections (Claims), watch sessions, SSE streams and WebSockets        *)
(* (Watch), which share the connection slots, the shutdown signal and the  *)
(* notifications (Limits).                                                 *)
(***************************************************************************)
EXTENDS Claims, Watch

vars == <<shared, claimVars, watchVars>>

Init == LimitsInit /\ ClaimsInit /\ WatchInit

LimitsNext ==
    \/ \E c \in Conns : AcquireSlot(c) \/ ParkConn(c)
    \/ TriggerFlag \/ TriggerNotify
Next ==
    \/ LimitsNext /\ UNCHANGED <<claimVars, watchVars>>
    \/ ClaimsNext /\ UNCHANGED watchVars
    \/ WatchNext /\ UNCHANGED claimVars

SlotOrPark(c) == (AcquireSlot(c) \/ ParkConn(c)) /\ UNCHANGED <<claimVars, watchVars>>
\* Every task is polled when it can go on (a timer fires, a notified future
\* is ready), and the client of a stream takes its frames or drops them.
Fairness ==
    /\ WF_vars(TriggerNotify /\ UNCHANGED <<claimVars, watchVars>>)
    /\ \A p \in Pollers : WF_vars(ClaimStep(p) /\ UNCHANGED watchVars)
    /\ WF_vars((\E t \in passes : RunPass(t)) /\ UNCHANGED watchVars)
    /\ \A w \in Workers :
         WF_vars(((ClaimStep(w) \/ WorkStep(w)) /\ UNCHANGED watchVars) \/ SlotOrPark(w))
    /\ \A s \in Streams : WF_vars((StreamStep(s) /\ UNCHANGED claimVars) \/ SlotOrPark(s))
    /\ \A v \in Wids : WF_vars(ClientReads(v) /\ UNCHANGED claimVars)
Spec == Init /\ [][Next]_vars /\ Fairness

-----------------------------------------------------------------------------
(* Properties.                                                             *)

\* What a connection holds it holds exactly as long as it is open, whatever way
\* it was refused or ended: its slot under the caps, its session; and so does a
\* request its slot under the cap of its key.
HeldWhileOpen == SlotsExact /\ InflightExact /\ SessionsHold

Open(c) == pc[c] \notin {"none", "over"}
\* The bounded drain of the shutdown completes by itself: every SSE stream
\* and every /work connection ends once the shutdown has begun, unless it
\* waits in a cohort without a leader.
StreamsEnd ==
    /\ \A s \in Streams : (flag /\ Open(s)) ~> ~Open(s)
    /\ \A w \in Workers : (flag /\ Open(w))
                            ~> (~Open(w) \/ call[w].cohort \in orphaned)
=============================================================================
