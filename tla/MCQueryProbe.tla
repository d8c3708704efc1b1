---------------------------- MODULE MCQueryProbe ----------------------------
EXTENDS QueryProbe

\* Of the partition probes every case on its own, of the other also all of them.
MCOnlyCases ==
  [partition_prune |-> {{c} : c \in 1..9}, global_index_prune |-> {{c} : c \in 1..4},
   plan_cache_drift |-> {1..12, {4, 5, 6}, {11}}]
=============================================================================
