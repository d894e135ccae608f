---------------------------- MODULE SampleStore ----------------------------
(***************************************************************************)
(* What metric reporting promises, without goroutines, cache or stream: a  *)
(* sample that was collected stays outstanding until the server has        *)
(* acknowledged it, unless more samples are outstanding than the cache may *)
(* keep.  MetricsDelivery implements this specification.                   *)
(***************************************************************************)
EXTENDS Naturals, FiniteSets

CONSTANTS
  Sample,      \* the dynamic metrics samples
  CacheSize    \* how many samples the agent agrees to keep (NewMetricsCache)

VARIABLES
  outstanding, \* collected, and neither acknowledged nor given up
  up           \* the server answers

storeVars == <<outstanding, up>>

Init ==
  /\ outstanding = {}
  /\ up = TRUE

Collect ==
  /\ \E s \in Sample \ outstanding : outstanding' = outstanding \cup {s}
  /\ UNCHANGED up

\* Only a reachable server acknowledges, one sample at a time.
Acknowledge ==
  /\ up
  /\ \E s \in outstanding : outstanding' = outstanding \ {s}
  /\ UNCHANGED up

\* A sample is given up only when there are more than the cache may hold.
GiveUp ==
  /\ Cardinality(outstanding) > CacheSize
  /\ \E s \in outstanding : outstanding' = outstanding \ {s}
  /\ UNCHANGED up

ServerChanges ==
  /\ up' = ~up
  /\ UNCHANGED outstanding

Next == Collect \/ Acknowledge \/ GiveUp \/ ServerChanges

Spec == Init /\ [][Next]_storeVars
=============================================================================
