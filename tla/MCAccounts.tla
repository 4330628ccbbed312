----------------------------- MODULE MCAccounts -----------------------------
(* Instances of Accounts for TLC. *)
EXTENDS Accounts, TLC

CONSTANTS ann, i1, i2, p1, p2, s1, s2, l1, l2, l3

\* Two sign-ups of one name, typed differently, two logins, one with the password of
\* either, and one whose name is not valid.
MCRequests == {s1, s2, l1, l2, l3}
MCAt == s1 :> i1 @@ s2 :> i2 @@ l1 :> i1 @@ l2 :> i2 @@ l3 :> i2
MCTyped ==
  s1 :> [name |-> ann, form |-> "plain"] @@ s2 :> [name |-> ann, form |-> "capitals"] @@
  l1 :> [name |-> ann, form |-> "padded"] @@ l2 :> [name |-> ann, form |-> "plain"] @@
  l3 :> [name |-> ann, form |-> "short"]
MCPassword == s1 :> p1 @@ s2 :> p2 @@ l1 :> p1 @@ l2 :> p2 @@ l3 :> p1
=============================================================================
