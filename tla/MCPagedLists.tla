--------------------------- MODULE MCPagedLists ---------------------------
(* Instances of PagedLists for TLC. *)
EXTENDS PagedLists, TLC

CONSTANTS k1, k2

\* Conversations: one of four messages, and an empty one.
Histories ==
  {[kind |-> "history", rows |-> k1 :> 1..4 @@ k2 :> {}, byName |-> [k \in Keys |-> {}]]}

\* Terms: four users match the first, one or two of them by username; nobody the
\* second.
Searches ==
  {[kind |-> "search", rows |-> k1 :> 1..4 @@ k2 :> {}, byName |-> k1 :> N @@ k2 :> {}] :
     N \in {{2}, {1, 2}}}

BothStarts == Histories \cup Searches
===========================================================================
