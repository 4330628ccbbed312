--------------------------- MODULE MCConnections ---------------------------
(* Instances of Connections for TLC. *)
EXTENDS Connections, TLC

CONSTANTS alice, bob, w1, w2, c1

\* Alice has a window that loses a connection and opens another, Bob has one that
\* keeps its connection until he signs out.
MCSockets == w1 :> 2 @@ w2 :> 1
MCUserOf == w1 :> alice @@ w2 :> bob

=============================================================================
