-------------------------- MODULE BrowserWindows --------------------------
(* What the models of a browser's windows have in common. *)

CONSTANTS
  Users,    \* accounts
  Windows,  \* browser windows
  None      \* nothing: no user, keys, list or request; no open conversation
=============================================================================
