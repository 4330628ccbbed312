---------------------------- MODULE AccountStore ----------------------------
(***************************************************************************)
(* What sign-up and login promise: a name has at most one account, it      *)
(* never goes away and never changes, and a request is let in as the       *)
(* owner of an account only if it names it and knows its password.         *)
(***************************************************************************)
EXTENDS Integers

VARIABLES
  accounts,  \* [name, password, owner]; the owner is the sign-up that made it
  admitted   \* [request, name, password, owner]

vars == <<accounts, admitted>>

Init == accounts = {} /\ admitted = {}

\* A name that is free gets an account.
Create(new) ==
  /\ \A old \in accounts : old.name # new.name
  /\ accounts' = accounts \cup {new}
  /\ UNCHANGED admitted

\* A request is let in once, with the name and the password of an account.
Admit(new) ==
  /\ [name |-> new.name, password |-> new.password, owner |-> new.owner] \in accounts
  /\ \A old \in admitted : old.request # new.request
  /\ admitted' = admitted \cup {new}
  /\ UNCHANGED accounts

Next ==
  \/ \E new \in accounts' \ accounts : Create(new)
  \/ \E new \in admitted' \ admitted : Admit(new)

Spec == Init /\ [][Next]_vars
=============================================================================
