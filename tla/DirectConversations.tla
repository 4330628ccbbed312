------------------------ MODULE DirectConversations ------------------------
(***************************************************************************)
(* What invitations promise: two users have at most one direct             *)
(* conversation, it never goes away, and every invitation that succeeds    *)
(* names the conversation of the two.                                      *)
(***************************************************************************)
VARIABLES
  conversations,  \* pairs of users with their conversation: <<pair, id>>
  answers         \* invitations that succeeded: <<request, pair, id>>

vars == <<conversations, answers>>

Init == conversations = {} /\ answers = {}

\* A pair that has no conversation gets one, with an id of its own.
Create(new) ==
  /\ \A old \in conversations : old[1] # new[1] /\ old[2] # new[2]
  /\ conversations' = conversations \cup {new}
  /\ UNCHANGED answers

\* A request is answered once, with the conversation of its pair.
Answer(a) ==
  /\ <<a[2], a[3]>> \in conversations
  /\ \A b \in answers : b[1] # a[1]
  /\ answers' = answers \cup {a}
  /\ UNCHANGED conversations

Next ==
  \/ \E new \in conversations' \ conversations : Create(new)
  \/ \E a \in answers' \ answers : Answer(a)

Spec == Init /\ [][Next]_vars
=============================================================================
