---------------------------- MODULE LiveDelivery ----------------------------
(***************************************************************************)
(* What the handlers of all instances promise together about the status of *)
(* a message.  It becomes DELIVERED only when it was published or somebody *)
(* other than its sender named it in a receipt, and SEEN only when         *)
(* somebody other than its sender marked it; it is never QUEUED again.     *)
(* The sender is told no more than that, and, unless a call has failed,    *)
(* nothing that was not stored before.                                     *)
(* Not promised: that the one who names or marks a message belongs to its  *)
(* conversation, that SEEN is not overwritten with DELIVERED, and in what  *)
(* order, how often or whether at all the sender is told.                  *)
(***************************************************************************)
CONSTANT Messages

VARIABLES
  status,     \* the stored status of each message
  published,  \* messages published to the instances
  received,   \* messages another user has named in a receipt of delivery
  marked,     \* messages another user has marked as seen
  got,        \* messages the recipient was sent
  told,       \* what the sender of each message was told
  failed      \* a call has failed

vars == <<status, published, received, marked, got, told, failed>>

Saved == {m \in Messages : status[m] # "NONE"}
Passed == {m \in Messages : status[m] \in {"DELIVERED", "SEEN"}}

\* What justifies a status.
Grounds(st) == CASE st = "DELIVERED" -> published \cup received
                 [] st = "SEEN" -> marked
                 [] OTHER -> {}

Init ==
  /\ status = [m \in Messages |-> "NONE"]
  /\ published = {} /\ received = {} /\ marked = {} /\ got = {}
  /\ told = [m \in Messages |-> {}]
  /\ failed = FALSE

Save(m) ==
  /\ status[m] = "NONE"
  /\ status' = [status EXCEPT ![m] = "QUEUED"]
  /\ UNCHANGED <<published, received, marked, got, told, failed>>

Publish(m) ==
  /\ m \in Saved
  /\ published' = published \cup {m}
  /\ UNCHANGED <<status, received, marked, got, told, failed>>

\* Somebody names messages of others in a receipt.
Receipt(ms) ==
  /\ ms \subseteq Saved
  /\ \/ received' = received \cup ms /\ UNCHANGED marked
     \/ marked' = marked \cup ms /\ UNCHANGED received
  /\ UNCHANGED <<status, published, got, told, failed>>

\* The message is sent to the sockets of its recipient.
Emit(m) ==
  /\ m \in published
  /\ got' = got \cup {m}
  /\ UNCHANGED <<status, published, received, marked, told, failed>>

\* A status is stored, or none; senders are told of what there are grounds for, and of
\* what is stored unless a call fails or has failed.
Report ==
  /\ failed => failed'
  /\ \/ UNCHANGED status
     \/ \E st \in {"DELIVERED", "SEEN"} : \E m \in Grounds(st) :
          status' = [status EXCEPT ![m] = st]
  /\ \A m \in Messages :
       /\ told[m] \subseteq told'[m]
       /\ \A st \in told'[m] \ told[m] : m \in Grounds(st) /\ (failed' \/ m \in Passed')
  /\ DOMAIN told' = Messages
  /\ UNCHANGED <<published, received, marked, got>>

Next ==
  \/ \E m \in Messages : Save(m) \/ Publish(m) \/ Emit(m)
  \/ \E ms \in SUBSET Messages : Receipt(ms)
  \/ Report

Spec == Init /\ [][Next]_vars
=============================================================================
