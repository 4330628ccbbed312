------------------------- MODULE MCMessageWorker -------------------------
(* Instances of MessageWorker for TLC. *)
EXTENDS MessageWorker, TLC

CONSTANTS u1, u2, u3, c1, w1, w2

\* A direct conversation; a member and a stranger write to it.
OneMembers == c1 :> {u1, u2}
===========================================================================
