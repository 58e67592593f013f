----------------------------- MODULE MCRouting -----------------------------
(***************************************************************************)
(* Small instances of Routing.                                             *)
(***************************************************************************)
EXTENDS Routing

CONSTANTS t1, t2, t3, r1, r2, c1, c2

None == [x \in Bounds |-> 0]
Base == [topics |-> {t1, t2}, routers |-> [r \in Routers |-> NoRouter],
         clients |-> {c1}, written |-> {t1}, filter |-> FALSE, exactly_once |-> FALSE,
         allow_cycle |-> FALSE, racing |-> FALSE, cap |-> 0, max_topics |-> 0, max_routers |-> 0,
         puts |-> {}, bound |-> None]
One == [Base EXCEPT !.routers[r1] = <<t1, t2>>]
Chained == [One EXCEPT !.topics = {t1, t2, t3}, !.routers[r2] = <<t2, t3>>]

\* Two hops, a checkpoint and a crash anywhere, more records than a batch.
Chain == [Chained EXCEPT !.bound = [None EXCEPT !["writes"] = 2, !["snapshots"] = 1,
                                                !["crashes"] = 1]]
\* A filter; two writers that race for the wake-up; a reader.
Filter == [One EXCEPT !.filter = TRUE, !.clients = {c1, c2},
                      !.bound = [None EXCEPT !["writes"] = 2, !["reads"] = 1,
                                             !["crashes"] = 1]]
\* The source trims what was and what was not forwarded.
Trimmed == [One EXCEPT !.bound = [None EXCEPT !["writes"] = 2, !["trims"] = 1,
                                     !["snapshots"] = 1, !["crashes"] = 1]]
Racing == [One EXCEPT !.racing = TRUE, !.bound = [None EXCEPT !["writes"] = 3,
                                                  !["trims"] = 1, !["reads"] = 1]]
\* Back-pressure of a full destination that is drained by deletes.
Reject == [One EXCEPT !.cap = 1, !.bound = [None EXCEPT !["writes"] = 2, !["reads"] = 1,
                                                        !["deletes"] = 1]]
\* Hardening and quota fail.
Failing == [One EXCEPT !.bound = [None EXCEPT !["writes"] = 2, !["failures"] = 1,
                                              !["crashes"] = 1]]
Cycle == [One EXCEPT !.allow_cycle = TRUE, !.routers[r2] = <<t2, t1>>,
                     !.bound = [None EXCEPT !["writes"] = 2]]
\* An exactly-once router deleted and put again while a pass runs.
Again == [One EXCEPT !.exactly_once = TRUE, !.puts = {<<r1, <<t1, t2>>>>},
                     !.bound = [None EXCEPT !["writes"] = 2, !["router_puts"] = 1,
                                            !["router_deletes"] = 1]]
\* Two clients create topics and routers.
Creates == [Base EXCEPT !.topics = {t1}, !.clients = {c1, c2}, !.max_topics = 2,
                        !.max_routers = 1, !.puts = {<<r1, <<t1, t2>>>>, <<r2, <<t1, t3>>>>},
                        !.bound = [None EXCEPT !["topic_puts"] = 1, !["router_puts"] = 2,
                                               !["crashes"] = 1]]
\* Frames of a client's requests fail.
Unlogged == [Creates EXCEPT !.clients = {c1}, !.max_routers = 0,
                            !.bound["failures"] = 2]
Halves == [Base EXCEPT !.clients = {c1, c2}, !.puts = {<<r1, <<t1, t2>>>>, <<r2, <<t2, t1>>>>},
                       !.bound = [None EXCEPT !["router_puts"] = 2, !["crashes"] = 1]]
\* One client deletes a topic with its routers, without and with a pass.
Deletes == [Chained EXCEPT !.bound = [None EXCEPT !["topic_puts"] = 2,
                                        !["topic_deletes"] = 1, !["router_deletes"] = 1,
                                        !["crashes"] = 1]]
Orphans == [Chained EXCEPT !.bound = [None EXCEPT !["writes"] = 1, !["topic_puts"] = 1,
                                                  !["topic_deletes"] = 1]]
MCSound == {Chain, Filter, Trimmed, Reject, Failing, Cycle, Again, Creates, Unlogged,
            Halves, Deletes, Orphans, Racing}

\* A checkpoint while a topic is created and written to.
MCCreateCheckpoint ==
    {[Base EXCEPT !.topics = {}, !.bound = [None EXCEPT !["topic_puts"] = 1,
                     !["snapshots"] = 1, !["crashes"] = 1]]}
\* A router is deleted after it forwarded a record.
MCDeletedRouter ==
    {[One EXCEPT !.bound = [None EXCEPT !["writes"] = 1, !["router_deletes"] = 1,
                                        !["crashes"] = 1]]}
\* A delete in the source after the record was forwarded.
MCSourceDelete ==
    {[One EXCEPT !.bound = [None EXCEPT !["writes"] = 2, !["deletes"] = 1,
                                        !["crashes"] = 1]]}
=============================================================================
