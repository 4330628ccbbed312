-------------------------- MODULE DurableDelivery --------------------------
(***************************************************************************)
(* What the stream and its workers promise together: at-least-once         *)
(* delivery.  A message is accepted, its row may be stored more than once, *)
(* a stored row may be announced to the instances, and the message is      *)
(* settled only when one of its rows was announced or when it must not be  *)
(* delivered at all.  Nothing is promised about order or about repetition. *)
(***************************************************************************)
EXTENDS Naturals, Sequences

CONSTANT Messages

VARIABLES
  accepted,   \* messages a gateway has taken
  wanted,     \* those of them that are to be delivered
  rows,       \* the message each stored row was made from
  announced,  \* the rows announced
  settled     \* messages nobody will look at again

vars == <<accepted, wanted, rows, announced, settled>>

Init ==
  /\ accepted = {} /\ wanted = {}
  /\ rows = <<>> /\ announced = {}
  /\ settled = {}

Accept(m) ==
  /\ m \notin accepted
  /\ accepted' = accepted \cup {m}
  /\ wanted' \in {wanted, wanted \cup {m}}
  /\ UNCHANGED <<rows, announced, settled>>

Store(m) ==
  /\ rows' = Append(rows, m)
  /\ UNCHANGED <<accepted, wanted, announced, settled>>

Announce(r) ==
  /\ announced' = announced \cup {r}
  /\ UNCHANGED <<accepted, wanted, rows, settled>>

Settle(m) ==
  /\ m \in wanted => \E r \in announced : rows[r] = m
  /\ settled' = settled \cup {m}
  /\ UNCHANGED <<accepted, wanted, rows, announced>>

Next ==
  \/ \E m \in Messages : Accept(m)
  \/ \E m \in wanted : Store(m)
  \/ \E r \in DOMAIN rows : Announce(r)
  \/ \E m \in accepted : Settle(m)

Spec == Init /\ [][Next]_vars
=============================================================================
