----------------------------- MODULE MCComposer -----------------------------
(* Instances of Composer for TLC. *)
EXTENDS Composer, TLC

CONSTANTS c1, c2, f1, f2
=============================================================================
