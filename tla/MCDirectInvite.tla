--------------------------- MODULE MCDirectInvite ---------------------------
(* Instances of DirectInvite for TLC. *)
EXTENDS DirectInvite, TLC

CONSTANTS r1, r2, r3

\* Two invitations of the same pair, from either side, and a third that shares a
\* user with them; or one of an unknown user.
MCAsks ==
  r1 :> {<<1, 2>>} @@ r2 :> {<<2, 1>>, <<2, 3>>, <<1, 4>>} @@ r3 :> {<<1, 2>>, <<3, 1>>}

=============================================================================
