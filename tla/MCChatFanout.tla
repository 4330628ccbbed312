--------------------------- MODULE MCChatFanout ---------------------------
(* Instances of ChatFanout for TLC. *)
EXTENDS ChatFanout, TLC

CONSTANTS i1, i2, alice, bob, carol, c1, m1, m2

\* One message from alice to bob.
OneConvOf == m1 :> c1
OneSenderOf == m1 :> alice
OneRecipientOf == m1 :> bob

\* Two messages from alice to bob.
TwoConvOf == m1 :> c1 @@ m2 :> c1
TwoSenderOf == m1 :> alice @@ m2 :> alice
TwoRecipientOf == m1 :> bob @@ m2 :> bob

\* The two messages are interchangeable.
Interchangeable == Permutations({m1, m2})

\* On one instance: anybody anywhere, viewing anything.
AnyPlacement ==
  {p \in [at : [Users -> Instances \cup {Nowhere}],
          viewing : [Users -> Convs \cup {NoConv}]] :
     \A u \in Users : p.at[u] = Nowhere => p.viewing[u] = NoConv}

\* On one instance: alice, who only sends, and the stranger carol are connected;
\* bob is anywhere.
BobAnywhere ==
  {p \in AnyPlacement :
     \A u \in {alice, carol} : p.at[u] # Nowhere /\ p.viewing[u] = NoConv}

\* The recipient sends receipts of both kinds; the sender and the stranger mark
\* messages as seen.
AnybodyMarks == {<<"delivered", bob>>} \cup ({"seen"} \X Users)

\* Only receipts of seen messages.
SeenMarks == {"seen"} \X Users

\* Everybody sends receipts of both kinds.
AllMarks == {"delivered", "seen"} \X Users

\* On two instances: the users on different ones, bob viewing c1.
Apart == {[at |-> alice :> i1 @@ bob :> i2, viewing |-> alice :> NoConv @@ bob :> c1]}
============================================================================
