-------------------------- MODULE MCClientMessages --------------------------
(* Instances of ClientMessages for TLC. *)
EXTENDS ClientMessages, TLC

CONSTANTS c1, c2, mine, theirs

\* Both messages belong to one of two conversations.
SameConvOf == mine :> c1 @@ theirs :> c1
=============================================================================
