---------------------------- MODULE MCCrawlQueue ----------------------------
(* Two jobs of different priority and attempt limits, two owners that both *)
(* serve them, a lease of one clock unit.                                  *)
EXTENDS CrawlQueue

MCKeys == {1, 2}
MCOwners == {"w1", "w2"}
MCServes == [o \in MCOwners |-> MCKeys]
MCPriority == [k \in MCKeys |-> IF k = 1 THEN 100 ELSE 200]
MCMaxAttempts == [k \in MCKeys |-> k]
MCDelays == {0, 1}
=============================================================================
