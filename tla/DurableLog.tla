----------------------------- MODULE DurableLog -----------------------------
(***************************************************************************)
(* What a shard of the write-ahead log promises to the engine, whatever    *)
(* fails and wherever it crashes.  Frames are handed to it in order.  It   *)
(* commits a frame (the engine then holds it), commits it durably, refuses *)
(* it, or leaves it open: the frames of a batch whose write or fsync       *)
(* failed, or that is under way, may be there after a restart or not.      *)
(* Module Wal implements it.                                               *)
(***************************************************************************)
EXTENDS Integers

VARIABLES
    sent,       \* frames handed to the log
    held,       \* frames the engine holds
    acked,      \* frames committed durably
    refused     \* frames turned away before they were written

vars == <<sent, held, acked, refused>>

Init == sent = {} /\ held = {} /\ acked = {} /\ refused = {}

\* A batch is handed over.
Send ==
    /\ sent \subseteq sent' /\ sent' \subseteq Nat
    /\ UNCHANGED <<held, acked, refused>>

\* A batch is committed; the durable frames in it are acked.
Commit ==
    /\ held \subseteq held' /\ held' \subseteq held \cup (sent \ refused)
    /\ acked \subseteq acked' /\ acked' \subseteq acked \cup (held' \cap sent)
    /\ UNCHANGED <<sent, refused>>

\* A batch is refused.
Refuse ==
    /\ refused \subseteq refused' /\ refused' \subseteq refused \cup (sent \ held)
    /\ UNCHANGED <<sent, held, acked>>

\* A restart may lose what was not acked, and may bring in what was left open.
Restart ==
    /\ acked \subseteq held' /\ held' \subseteq sent \ refused
    /\ UNCHANGED <<sent, acked, refused>>

Next == Send \/ Commit \/ Refuse \/ Restart
Spec == Init /\ [][Next]_vars

-----------------------------------------------------------------------------
(* Properties.                                                             *)

\* What was acked is held, and what was refused is not.
Kept == acked \subseteq held /\ refused \cap held = {}
=============================================================================
