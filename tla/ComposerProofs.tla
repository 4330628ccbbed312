--------------------------- MODULE ComposerProofs ---------------------------
(***************************************************************************)
(* Proofs about Composer, for any chats and images, and any numbers of     *)
(* pieces of text, messages and faults.                                    *)
(***************************************************************************)
EXTENDS Composer, TLAPS

-----------------------------------------------------------------------------
(* The inductive invariant *)

Stored == {i \in Images : stage[i] = "stored"}

\* It is the key of an open chat that is being decrypted.
KeySound == decrypting => chat # None

\* The composer and the messages hold only what was typed or uploaded.
OnlyGiven ==
  /\ image \in Stored \cup {None}
  /\ \A m \in DOMAIN sent : Contents(m) \subseteq 1..typed \cup Stored

\* While a send is under way its message is the last one, and the composer holds that
\* message and what came meanwhile.
SendSound ==
  IsSending =>
    /\ Last \in DOMAIN sent
    /\ sent[Last].fate = "sent"
    /\ Held \subseteq Contents(Last) \cup excused

\* Nothing of a message that has not failed is in the composer, but for the message
\* under way.
Spent ==
  \A m \in DOMAIN sent : sent[m].fate # "failed" =>
    (m = Last /\ IsSending) \/ Contents(m) \cap Held = {}

\* About the text, the images and the messages.
ContentSound == OnlyGiven /\ SendSound /\ Spent /\ NothingIsLost /\ TwiceOnlyAfterFailure

IInv == TypeOK /\ KeySound /\ ContentSound /\ TypingHasTimer

-----------------------------------------------------------------------------
(* Lemmas *)

\* What Fate does to the last message, and to no other.
LEMMA FateOfLast ==
  ASSUME sent \in Seq(Messages), Last \in DOMAIN sent, NEW f \in Fates, Fate(f)
  PROVE  /\ sent' \in Seq(Messages) /\ Len(sent') = Len(sent)
         /\ DOMAIN sent' = DOMAIN sent
         /\ sent'[Last].fate = f
         /\ \A m \in DOMAIN sent : m # Last => sent'[m] = sent[m]
         /\ \A m \in DOMAIN sent : Contents(m)' = Contents(m)
<1>1. sent[Last] \in Messages
  OBVIOUS
<1>2. [sent[Last] EXCEPT !.fate = f] \in Messages
  BY <1>1 DEF Messages
<1>3. sent' = [sent EXCEPT ![Last] = [sent[Last] EXCEPT !.fate = f]]
  BY DEF Fate
<1>4. /\ sent' \in Seq(Messages) /\ Len(sent') = Len(sent) /\ DOMAIN sent' = DOMAIN sent
      /\ sent'[Last] = [sent[Last] EXCEPT !.fate = f]
      /\ \A m \in DOMAIN sent : m # Last => sent'[m] = sent[m]
  BY <1>2, <1>3
<1>5. /\ sent'[Last].fate = f /\ sent'[Last].text = sent[Last].text
      /\ sent'[Last].image = sent[Last].image
  BY <1>1, <1>4 DEF Messages
<1> QED
  BY <1>4, <1>5 DEF Contents

\* The initial states satisfy the invariant.
LEMMA InitSound == Init => IInv
<1> SUFFICES ASSUME Init PROVE IInv
  OBVIOUS
<1>1. sent = <<>> /\ DOMAIN sent = {}
  BY DEF Init
<1>2. TypeOK
  <2>1. /\ typed = 0 /\ typed \in 0..MaxTyped /\ faults \in 0..MaxFaults
        /\ sent \in Seq(Messages)
    BY <1>1, BoundsAssumption DEF Init
  <2>2. stage \in [Images -> Stages] /\ phase \in Phases
    BY DEF Init, Stages, Phases
  <2> QED
    BY <2>1, <2>2 DEF Init, TypeOK
<1>3. OnlyGiven /\ SendSound /\ Spent
  BY <1>1 DEF Init, OnlyGiven, SendSound, Spent, IsSending
<1>4. KeySound
  BY DEF Init, KeySound
<1>5. NothingIsLost /\ TwiceOnlyAfterFailure /\ TypingHasTimer
  BY <1>1 DEF Init, NothingIsLost, TwiceOnlyAfterFailure, TypingHasTimer
<1> QED
  BY <1>2, <1>3, <1>5, <1>4 DEF IInv, ContentSound

\* The peer is shown "typing" only while the timer runs, or after a stop event that was
\* not sent or not heard.
LEMMA TypingStep ==
  ASSUME TypeOK, TypingHasTimer, [Next]_vars PROVE TypingHasTimer'
<1> USE DEF TypingHasTimer
<1>1. ASSUME NEW c, SayStopped(c) PROVE TypingHasTimer'
  BY <1>1 DEF SayStopped
<1>2. ASSUME SayTyping, timer' = chat PROVE TypingHasTimer'
  <2> SUFFICES ASSUME NEW c \in shown' PROVE timer' = c \/ c \in unheard'
    OBVIOUS
  <2>1. CASE c = chat
    BY <1>2, <2>1
  <2>2. CASE c # chat
    <3>1. c \in shown
      BY <1>2, <2>2 DEF SayTyping
    <3>2. CASE c \in unheard
      BY <1>2, <2>2, <3>2 DEF SayTyping
    <3>3. CASE timer = c
      BY <1>2, <2>2, <3>1, <3>3, NoneAssumption DEF SayTyping, TypeOK
    <3> QED
      BY <3>1, <3>2, <3>3
  <2> QED
    BY <2>1, <2>2
<1>3. ASSUME UNCHANGED <<timer, shown, unheard>> PROVE TypingHasTimer'
  BY <1>3
<1>4. CASE TypingTimeout \/ Erase \/ Queued \/ Type
  BY <1>1, <1>2, <1>3, <1>4 DEF TypingTimeout, Erase, Queued, Type, typingVars
<1>5. CASE \E c \in Chats : PeerSelects(c)
  BY <1>5 DEF PeerSelects
<1>6. CASE Leave
  BY <1>6 DEF Leave
<1>7. CASE \E i \in Images : Image(i)
  BY <1>3, <1>7
  DEF Image, Drop, Paste, Extracted, Progress, ProgressComplete, Serve, UploadSucceeds, Invalid,
      UploadFails, UploadError, typingVars
<1>8. CASE \/ \E c \in Chats : Select(c)
           \/ KeyDecrypted \/ DecryptAgain \/ Emoji \/ RemoveImage
           \/ Submit \/ Emit \/ EmitFails \/ AckTimeout \/ Lose \/ Reconnect
           \/ (\E c \in Chats : Part(c) \/ Meet(c)) \/ UNCHANGED vars
  BY <1>3, <1>8
  DEF Select, KeyDecrypted, DecryptAgain, Emoji, RemoveImage, Submit, Emit, EmitFails,
      AckTimeout, Fail, Lose, Reconnect, Part, Meet, vars, typingVars
<1> QED
  BY <1>4, <1>5, <1>6, <1>7, <1>8 DEF Next, Send

\* A chat that is left is not waited for.
LEMMA KeyStep ==
  ASSUME TypeOK, KeySound, [Next]_vars PROVE KeySound'
<1> USE DEF KeySound
<1>1. ASSUME NEW c \in Chats, Select(c) PROVE KeySound'
  BY <1>1, NoneAssumption DEF Select
<1>2. CASE KeyDecrypted \/ DecryptAgain \/ Leave
  BY <1>2 DEF KeyDecrypted, DecryptAgain, Leave
<1>3. ASSUME UNCHANGED <<chat, decrypting>> PROVE KeySound'
  BY <1>3
<1>4. CASE \E i \in Images : Image(i)
  BY <1>3, <1>4
  DEF Image, Drop, Paste, Extracted, Progress, ProgressComplete, Serve, UploadSucceeds, Invalid,
      UploadFails, UploadError, keyVars
<1>5. CASE \/ \E c \in Chats : PeerSelects(c)
           \/ Type \/ Emoji \/ Erase \/ TypingTimeout \/ RemoveImage
  BY <1>3, <1>5 DEF PeerSelects, Type, Emoji, Erase, TypingTimeout, RemoveImage, keyVars
<1>6. CASE Send \/ Lose \/ Reconnect \/ (\E c \in Chats : Part(c) \/ Meet(c)) \/ UNCHANGED vars
  BY <1>3, <1>6
  DEF Send, Submit, Emit, EmitFails, AckTimeout, Fail, Queued, Lose, Reconnect, Part, Meet,
      vars, keyVars
<1> QED
  BY <1>1, <1>2, <1>4, <1>5, <1>6 DEF Next

\* Every step keeps the types.
LEMMA TypeStep ==
  ASSUME TypeOK, KeySound, SendSound, [Next]_vars PROVE TypeOK'
<1>1. SUFFICES ASSUME Next PROVE TypeOK'
  BY DEF TypeOK, vars, keyVars, textVars, imageVars, sendVars, typingVars, outside
<1> USE DEF TypeOK, keyVars, textVars, imageVars, sendVars, typingVars, outside
<1>2. ASSUME NEW c \in Chats, SayStopped(c)
      PROVE  shown' \subseteq Chats /\ unheard' \subseteq Chats /\ timer' \in Chats \cup {None}
  BY <1>2 DEF SayStopped
<1>3. ASSUME AddPiece
      PROVE  /\ typed' \in 0..MaxTyped /\ draft' \subseteq 1..typed'
             /\ excused' \subseteq Images \cup 1..typed'
  <2>1. 1..typed \subseteq 1..typed' /\ typed' \in 0..MaxTyped /\ typed + 1 \in 1..typed'
    BY <1>3, BoundsAssumption DEF AddPiece
  <2> QED
    BY <1>3, <2>1 DEF AddPiece, Meanwhile
<1>4. ASSUME NEW f \in Fates, Fate(f), IsSending PROVE sent' \in Seq(Messages)
  BY <1>4, FateOfLast DEF SendSound
<1>5. ASSUME NEW c \in Chats, Select(c) \/ PeerSelects(c) PROVE TypeOK'
  <2>1. CASE Select(c)
    BY <2>1 DEF Select, Strand, Phases
  <2>2. CASE PeerSelects(c)
    BY <2>2 DEF PeerSelects
  <2> QED
    BY <1>5, <2>1, <2>2
<1>6. ASSUME KeyDecrypted \/ DecryptAgain PROVE TypeOK'
  <2>1. CASE KeyDecrypted
    BY <2>1 DEF KeyDecrypted, KeySound
  <2>2. CASE DecryptAgain
    BY <2>2 DEF DecryptAgain
  <2> QED
    BY <1>6, <2>1, <2>2
<1>7. ASSUME Type PROVE TypeOK'
  <2>1. chat \in Chats
    BY <1>7 DEF Type, TextEnabled, IsLoading
  <2>2. shown' \subseteq Chats /\ unheard' \subseteq Chats
    BY <1>7, <2>1 DEF Type, SayTyping
  <2>3. AddPiece /\ timer' \in Chats
    BY <1>7, <2>1 DEF Type
  <2>4. /\ UNCHANGED <<chat, key, cached, decrypting, image, stage, extracting, uploading>>
        /\ UNCHANGED <<phase, sent, connected, reached, faults>>
    BY <1>7 DEF Type
  <2> QED
    BY <1>3, <2>2, <2>3, <2>4
<1>8. ASSUME Emoji PROVE TypeOK'
  BY <1>3, <1>8 DEF Emoji
<1>9. ASSUME Erase PROVE TypeOK'
  <2>1. chat \in Chats
    BY <1>9 DEF Erase, TextEnabled, IsLoading
  <2>2. shown' \subseteq Chats /\ unheard' \subseteq Chats /\ timer' \in Chats \cup {None}
    BY <1>2, <1>9, <2>1 DEF Erase
  <2> QED
    BY <1>9, <2>2 DEF Erase
<1>10. ASSUME TypingTimeout PROVE TypeOK'
  <2>1. shown' \subseteq Chats /\ unheard' \subseteq Chats /\ timer' \in Chats \cup {None}
    BY <1>2, <1>10 DEF TypingTimeout
  <2> QED
    BY <1>10, <2>1 DEF TypingTimeout
<1>11. ASSUME NEW i \in Images, NEW s \in Stages, Stage(i, s) PROVE stage' \in [Images -> Stages]
  BY <1>11 DEF Stage
<1>12. ASSUME NEW i \in Images, Image(i) PROVE TypeOK'
  <2>1. stage' \in [Images -> Stages]
    BY <1>11, <1>12
    DEF Image, Drop, Paste, Extracted, Upload, Progress, ProgressComplete, Serve, UploadSucceeds,
        Invalid, UploadFails, UploadError, Stages
  <2>2. CASE Drop(i) \/ Paste(i) \/ Extracted(i)
    BY <2>1, <2>2 DEF Drop, Paste, Extracted
  <2>3. CASE Progress(i) \/ ProgressComplete(i) \/ Serve(i)
    BY <2>1, <2>3 DEF Progress, ProgressComplete, Serve
  <2>4. CASE UploadSucceeds(i)
    BY <2>1, <2>4 DEF UploadSucceeds, Meanwhile
  <2>5. CASE Invalid(i) \/ UploadFails(i)
    BY <2>1, <2>5 DEF Invalid, UploadFails, UploadError
  <2> QED
    BY <1>12, <2>2, <2>3, <2>4, <2>5 DEF Image
<1>13. ASSUME RemoveImage PROVE TypeOK'
  BY <1>13 DEF RemoveImage
<1>14. ASSUME Submit PROVE TypeOK'
  <2>1. [chat |-> chat, text |-> draft, image |-> image, fate |-> "sent"] \in Messages
    <3>1. draft \in SUBSET (1..MaxTyped)
      BY BoundsAssumption
    <3> QED
      BY <1>14, <3>1 DEF Submit, CanSubmit, Messages, Fates
  <2> QED
    BY <1>14, <2>1 DEF Submit, Compose, Phases
<1>15. ASSUME EmitFails \/ AckTimeout PROVE TypeOK'
  <2>1. Fate("failed") /\ IsSending /\ phase' = "idle"
    BY <1>15 DEF EmitFails, AckTimeout, Fail, IsSending
  <2>2. sent' \in Seq(Messages)
    BY <1>4, <2>1 DEF Fates
  <2> QED
    BY <1>15, <2>1, <2>2 DEF EmitFails, AckTimeout, Fail, Phases
<1>16. ASSUME Emit PROVE TypeOK'
  BY <1>16 DEF Emit, Phases
<1>17. ASSUME Queued PROVE TypeOK'
  <2>1. Fate("queued") /\ IsSending
    BY <1>17 DEF Queued, IsSending
  <2>2. sent' \in Seq(Messages) /\ sent[Last] \in Messages
    BY <1>4, <2>1 DEF Fates, SendSound
  <2>3. sent[Last].chat \in Chats
    BY <2>2 DEF Messages
  <2>4. shown' \subseteq Chats /\ unheard' \subseteq Chats /\ timer' \in Chats \cup {None}
    BY <1>2, <1>17, <2>3 DEF Queued
  <2> QED
    BY <1>17, <2>2, <2>4 DEF Queued, Phases
<1>18. ASSUME Lose \/ Reconnect PROVE TypeOK'
  <2>1. CASE Lose
    <3>1. phase' \in Phases /\ faults' \in 0..MaxFaults
      BY <2>1, BoundsAssumption DEF Lose, Phases
    <3> QED
      BY <2>1, <3>1 DEF Lose
  <2>2. CASE Reconnect
    BY <2>2 DEF Reconnect
  <2> QED
    BY <1>18, <2>1, <2>2
<1>19. ASSUME Leave PROVE TypeOK'
  <2>1. stage' \in [Images -> Stages] /\ faults' \in 0..MaxFaults
    BY <1>19, BoundsAssumption DEF Leave, Stages
  <2> QED
    BY <1>19, <2>1 DEF Leave, Phases
<1>20. ASSUME NEW c \in Chats, Part(c) \/ Meet(c) PROVE TypeOK'
  <2>1. reached' \subseteq Chats /\ faults' \in 0..MaxFaults
    BY <1>20, BoundsAssumption DEF Part, Meet
  <2> QED
    BY <1>20, <2>1 DEF Part, Meet
<1> QED
  BY <1>1, <1>5, <1>6, <1>7, <1>8, <1>9, <1>10, <1>12, <1>13, <1>14, <1>15, <1>16, <1>17,
     <1>18, <1>19, <1>20 DEF Next, Send

-----------------------------------------------------------------------------
(* The text, the images and the messages *)

\* A step that leaves them alone.
LEMMA ContentKept ==
  ASSUME ContentSound, UNCHANGED <<typed, draft, image, excused, sent>>,
         Stored' = Stored, IsSending' = IsSending
  PROVE  ContentSound'
<1>1. Held' = Held /\ Last' = Last /\ \A m : Contents(m)' = Contents(m)
  BY DEF Held, Last, Contents
<1>2. OnlyGiven' /\ TwiceOnlyAfterFailure'
  BY <1>1 DEF ContentSound, OnlyGiven, TwiceOnlyAfterFailure
<1>3. SendSound' /\ Spent'
  BY <1>1 DEF ContentSound, SendSound, Spent
<1>4. NothingIsLost'
  BY <1>1 DEF ContentSound, NothingIsLost, Stored
<1> QED
  BY <1>2, <1>3, <1>4 DEF ContentSound

\* A new piece or image x comes into the composer, and may take the place of another.
LEMMA Added ==
  ASSUME ContentSound, UNCHANGED <<phase, sent>>,
         NEW x, x \notin 1..typed \cup Stored,
         1..typed' \cup Stored' = 1..typed \cup Stored \cup {x}, image' \in Stored' \cup {None},
         Held' \subseteq Held \cup {x}, x \in Held', Held \subseteq Held' \cup excused',
         excused \subseteq excused', IsSending => x \in excused'
  PROVE  ContentSound'
<1>1. /\ IsSending' = IsSending /\ Last' = Last
      /\ \A m : Contents(m)' = Contents(m)
  BY DEF IsSending, Last, Contents
<1>2. \A m \in DOMAIN sent : x \notin Contents(m)
  BY DEF ContentSound, OnlyGiven
<1>3. OnlyGiven'
  BY <1>1 DEF ContentSound, OnlyGiven
<1>4. SendSound'
  <2> SUFFICES ASSUME IsSending
               PROVE  Held' \subseteq Contents(Last)' \cup excused'
    BY <1>1 DEF ContentSound, SendSound
  <2>1. Held \subseteq Contents(Last) \cup excused
    BY DEF ContentSound, SendSound
  <2> QED
    BY <2>1, <1>1
<1>5. Spent'
  <2> SUFFICES ASSUME NEW m \in DOMAIN sent, sent[m].fate # "failed", ~(m = Last /\ IsSending)
               PROVE  Contents(m)' \cap Held' = {}
    BY <1>1 DEF Spent
  <2>1. Contents(m) \cap Held = {}
    BY DEF ContentSound, Spent
  <2> QED
    BY <2>1, <1>1, <1>2
<1>6. NothingIsLost'
  <2>1. \A y \in 1..typed \cup Stored :
          \/ y \in Held \cup excused
          \/ \E m \in DOMAIN sent : sent[m].fate = "queued" /\ y \in Contents(m)
    BY DEF ContentSound, NothingIsLost, Stored
  <2>2. \A y \in 1..typed' \cup Stored' :
          \/ y \in Held' \cup excused'
          \/ \E m \in DOMAIN sent : sent[m].fate = "queued" /\ y \in Contents(m)'
    BY <1>1, <2>1
  <2> QED
    BY <2>2 DEF NothingIsLost, Stored
<1>7. TwiceOnlyAfterFailure'
  BY <1>1 DEF ContentSound, TwiceOnlyAfterFailure
<1> QED
  BY <1>3, <1>4, <1>5, <1>6, <1>7 DEF ContentSound

\* Text is typed.
LEMMA PieceAdded ==
  ASSUME TypeOK, ContentSound, AddPiece, UNCHANGED <<image, stage, phase, sent>>
  PROVE  ContentSound'
<1>1. /\ typed + 1 \notin 1..typed \cup Stored /\ Stored' = Stored
      /\ 1..typed' = 1..typed \cup {typed + 1}
  BY ImagesAssumption DEF TypeOK, AddPiece, Stored
<1>2. /\ Held' = Held \cup {typed + 1} /\ excused \subseteq excused'
      /\ IsSending => typed + 1 \in excused'
  BY DEF AddPiece, Held, Meanwhile
<1>3. image' \in Stored' \cup {None}
  BY <1>1 DEF ContentSound, OnlyGiven
<1> QED
  BY <1>1, <1>2, <1>3, Added

\* An upload is answered.
LEMMA ImageAdded ==
  ASSUME TypeOK, ContentSound, NEW i \in Images, UploadSucceeds(i)
  PROVE  ContentSound'
<1>1. /\ i \notin 1..typed \cup Stored /\ Stored' = Stored \cup {i}
  <2>1. i \notin 1..typed
    BY ImagesAssumption DEF TypeOK
  <2>2. stage' = [stage EXCEPT ![i] = "stored"] /\ stage[i] = "served"
    BY DEF UploadSucceeds, Stage
  <2> QED
    BY <2>1, <2>2 DEF TypeOK, Stored
<1>2. UNCHANGED <<phase, sent, typed, draft>> /\ image' = i
  BY DEF UploadSucceeds, sendVars, textVars
<1>3. excused' = excused \cup ({image} \ {None}) \cup Meanwhile(i)
  BY DEF UploadSucceeds
<1>4. /\ Held' \subseteq Held \cup {i} /\ i \in Held' /\ Held \subseteq Held' \cup excused'
      /\ excused \subseteq excused'
      /\ IsSending => i \in excused'
  BY <1>2, <1>3, NoneAssumption DEF Held, Meanwhile
<1>5. /\ 1..typed' \cup Stored' = 1..typed \cup Stored \cup {i}
      /\ image' \in Stored' \cup {None} /\ UNCHANGED <<phase, sent>>
  BY <1>1, <1>2
<1> QED
  BY <1>1, <1>4, <1>5, Added

\* What is taken out of the composer is excused; all of it is when a send is left.
LEMMA Removed ==
  ASSUME ContentSound, UNCHANGED <<typed, sent>>, Stored' = Stored,
         image' \in {image, None}, excused \subseteq excused',
         IsSending' = IsSending \/ (~IsSending' /\ Held' = {}),
         Held' \subseteq Held, Held \subseteq Held' \cup excused'
  PROVE  ContentSound'
<1>1. Last' = Last /\ \A m : Contents(m)' = Contents(m)
  BY DEF Last, Contents
<1>2. OnlyGiven' /\ SendSound'
  BY <1>1 DEF ContentSound, OnlyGiven, SendSound
<1>3. Spent'
  <2> SUFFICES ASSUME NEW m \in DOMAIN sent, sent[m].fate # "failed", ~(m = Last /\ IsSending'),
                      IsSending' = IsSending
               PROVE  Contents(m)' \cap Held' = {}
    BY <1>1 DEF Spent
  <2>1. Contents(m) \cap Held = {}
    BY DEF ContentSound, Spent
  <2> QED
    BY <2>1, <1>1
<1>4. NothingIsLost'
  <2>1. \A x \in 1..typed \cup Stored :
          \/ x \in Held \cup excused
          \/ \E m \in DOMAIN sent : sent[m].fate = "queued" /\ x \in Contents(m)
    BY DEF ContentSound, NothingIsLost, Stored
  <2>2. \A x \in 1..typed \cup Stored :
          \/ x \in Held' \cup excused'
          \/ \E m \in DOMAIN sent : sent[m].fate = "queued" /\ x \in Contents(m)'
    BY <1>1, <2>1
  <2> QED
    BY <2>2 DEF NothingIsLost, Stored
<1>5. TwiceOnlyAfterFailure'
  BY <1>1 DEF ContentSound, TwiceOnlyAfterFailure
<1> QED
  BY <1>2, <1>3, <1>4, <1>5 DEF ContentSound

\* The message that is sent takes the whole composer.
LEMMA Submitted ==
  ASSUME TypeOK, ContentSound, Submit
  PROVE  ContentSound'
<1>1. /\ ~IsSending /\ IsSending' /\ Held' = Held /\ Stored' = Stored
      /\ UNCHANGED <<typed, image, excused>>
  BY DEF Submit, CanSubmit, IsSending, Held, Stored, textVars, imageVars
<1>2. PICK n : n = Last + 1
  OBVIOUS
<1>3. /\ Last' = n /\ n \notin DOMAIN sent /\ DOMAIN sent' = DOMAIN sent \cup {n}
      /\ \A m \in DOMAIN sent : sent'[m] = sent[m]
      /\ sent'[n] = [chat |-> chat, text |-> draft, image |-> image, fate |-> "sent"]
      /\ \A m \in DOMAIN sent : m < n
  BY <1>2 DEF TypeOK, Submit, Compose, Last
<1>4. /\ \A m \in DOMAIN sent : Contents(m)' = Contents(m)
      /\ Contents(n)' = Held /\ sent'[n].fate = "sent"
  <2>1. sent'[n].text = draft /\ sent'[n].image = image /\ sent'[n].fate = "sent"
    BY <1>3
  <2> QED
    BY <1>3, <2>1 DEF Contents, Held
<1>5. OnlyGiven'
  <2>1. Held \subseteq 1..typed \cup Stored
    BY DEF TypeOK, ContentSound, OnlyGiven, Held
  <2> QED
    BY <1>1, <1>3, <1>4, <2>1 DEF ContentSound, OnlyGiven
<1>6. SendSound'
  BY <1>1, <1>3, <1>4 DEF SendSound
<1>7. \A m \in DOMAIN sent : sent[m].fate # "failed" => Contents(m) \cap Held = {}
  BY <1>1 DEF ContentSound, Spent
<1>8. Spent'
  BY <1>1, <1>3, <1>4, <1>7 DEF Spent
<1>9. NothingIsLost'
  <2>1. \A x \in 1..typed \cup Stored :
          \/ x \in Held \cup excused
          \/ \E m \in DOMAIN sent : sent[m].fate = "queued" /\ x \in Contents(m)
    BY DEF ContentSound, NothingIsLost, Stored
  <2>2. \A x \in 1..typed' \cup Stored' :
          \/ x \in Held' \cup excused'
          \/ \E m \in DOMAIN sent' : sent'[m].fate = "queued" /\ x \in Contents(m)'
    BY <1>1, <1>3, <1>4, <2>1
  <2> QED
    BY <2>2 DEF NothingIsLost, Stored
<1>10. TwiceOnlyAfterFailure'
  <2> SUFFICES ASSUME NEW k \in DOMAIN sent', NEW m \in DOMAIN sent', k < m,
                      sent'[k].fate # "failed"
               PROVE  Contents(k)' \cap Contents(m)' = {}
    BY DEF TwiceOnlyAfterFailure
  <2>1. k \in DOMAIN sent
    BY <1>2, <1>3 DEF TypeOK, Last
  <2>2. CASE m = n
    BY <1>3, <1>4, <1>7, <2>1, <2>2
  <2>3. CASE m \in DOMAIN sent
    BY <1>3, <1>4, <2>1, <2>3 DEF ContentSound, TwiceOnlyAfterFailure
  <2> QED
    BY <1>3, <2>2, <2>3
<1> QED
  BY <1>5, <1>6, <1>8, <1>9, <1>10 DEF ContentSound

\* The send fails, and the composer keeps everything ...
LEMMA Failed ==
  ASSUME TypeOK, ContentSound, Fail, IsSending
  PROVE  ContentSound'
<1>1. /\ Last \in DOMAIN sent /\ sent[Last].fate = "sent"
      /\ Fate("failed") /\ ~IsSending'
      /\ UNCHANGED <<typed, draft, image, excused>> /\ Stored' = Stored /\ Held' = Held
  BY DEF ContentSound, SendSound, Fail, IsSending, Stored, Held, textVars, imageVars
<1>2. /\ DOMAIN sent' = DOMAIN sent /\ sent'[Last].fate = "failed"
      /\ \A m \in DOMAIN sent : m # Last => sent'[m] = sent[m]
      /\ \A m \in DOMAIN sent : Contents(m)' = Contents(m)
  BY <1>1, FateOfLast DEF TypeOK, Fates
<1>3. OnlyGiven' /\ SendSound'
  BY <1>1, <1>2 DEF ContentSound, OnlyGiven, SendSound
<1>4. Spent'
  BY <1>1, <1>2 DEF ContentSound, Spent
<1>5. NothingIsLost'
  <2>1. \A x \in 1..typed \cup Stored :
          \/ x \in Held \cup excused
          \/ \E m \in DOMAIN sent : sent[m].fate = "queued" /\ x \in Contents(m)
    BY DEF ContentSound, NothingIsLost, Stored
  <2>2. \A x \in 1..typed' \cup Stored' :
          \/ x \in Held' \cup excused'
          \/ \E m \in DOMAIN sent' : sent'[m].fate = "queued" /\ x \in Contents(m)'
    BY <1>1, <1>2, <2>1
  <2> QED
    BY <2>2 DEF NothingIsLost, Stored
<1>6. TwiceOnlyAfterFailure'
  BY <1>1, <1>2 DEF ContentSound, TwiceOnlyAfterFailure
<1> QED
  BY <1>3, <1>4, <1>5, <1>6 DEF ContentSound

\* ... or it is queued, and the composer is emptied.
LEMMA Emptied ==
  ASSUME TypeOK, ContentSound, Queued
  PROVE  ContentSound'
<1>1. /\ IsSending /\ ~IsSending' /\ Fate("queued")
      /\ UNCHANGED <<typed, excused>> /\ Stored' = Stored /\ image' = None /\ Held' = {}
  BY DEF Queued, IsSending, Stored, Held
<1>2. Last \in DOMAIN sent /\ sent[Last].fate = "sent" /\ Held \subseteq Contents(Last) \cup excused
  BY <1>1 DEF ContentSound, SendSound
<1>3. /\ DOMAIN sent' = DOMAIN sent /\ sent'[Last].fate = "queued"
      /\ \A m \in DOMAIN sent : m # Last => sent'[m] = sent[m]
      /\ \A m \in DOMAIN sent : Contents(m)' = Contents(m)
  BY <1>1, <1>2, FateOfLast DEF TypeOK, Fates
<1>4. OnlyGiven' /\ SendSound'
  BY <1>1, <1>3 DEF ContentSound, OnlyGiven, SendSound
<1>5. Spent'
  BY <1>1 DEF Spent
<1>6. NothingIsLost'
  BY <1>1, <1>2, <1>3 DEF ContentSound, NothingIsLost, Stored
<1>7. TwiceOnlyAfterFailure'
  BY <1>2, <1>3 DEF ContentSound, TwiceOnlyAfterFailure
<1> QED
  BY <1>4, <1>5, <1>6, <1>7 DEF ContentSound

\* Every step keeps what is said of the text, the images and the messages.
LEMMA ContentStep ==
  ASSUME TypeOK, ContentSound, [Next]_vars
  PROVE  ContentSound'
<1>1. ASSUME UNCHANGED <<typed, draft, image, excused, stage, phase, sent>> PROVE ContentSound'
  BY <1>1, ContentKept DEF Stored, IsSending
<1>2. ASSUME NEW c \in Chats, Select(c) PROVE ContentSound'
  BY <1>2, ContentKept DEF Select, Strand, Stored, IsSending, textVars, imageVars
<1>3. CASE \/ \E c \in Chats : PeerSelects(c) \/ Part(c) \/ Meet(c)
           \/ KeyDecrypted \/ DecryptAgain \/ TypingTimeout \/ Reconnect \/ UNCHANGED vars
  BY <1>1, <1>3
  DEF PeerSelects, Part, Meet, KeyDecrypted, DecryptAgain, TypingTimeout, Reconnect, vars, textVars,
      imageVars, sendVars
<1>4. CASE Type \/ Emoji
  BY <1>4, PieceAdded DEF Type, Emoji, imageVars, sendVars
<1>5. CASE Erase
  <2>1. /\ UNCHANGED <<typed, sent, image, stage, phase>>
        /\ draft' = {} /\ excused' = excused \cup draft
    BY <1>5 DEF Erase, imageVars, sendVars
  <2>2. Stored' = Stored /\ IsSending' = IsSending
    BY <2>1 DEF Stored, IsSending
  <2> QED
    BY <2>1, <2>2, Removed DEF Held
<1>6. ASSUME NEW i \in Images, Image(i) PROVE ContentSound'
  <2>1. CASE UploadSucceeds(i)
    BY <2>1, ImageAdded
  <2>2. CASE ~UploadSucceeds(i)
    <3>1. /\ UNCHANGED <<typed, draft, image, excused, phase, sent>>
          /\ \E s \in Stages \ {"stored"} : Stage(i, s)
          /\ stage[i] # "stored"
      BY <1>6, <2>2
      DEF Image, Drop, Paste, Extracted, Upload, Progress, ProgressComplete, Serve, Invalid,
          UploadFails, UploadError, Stages, textVars, sendVars
    <3>2. Stored' = Stored
      BY <3>1 DEF Stage, Stored, TypeOK
    <3> QED
      BY <3>1, <3>2, ContentKept DEF IsSending
  <2> QED
    BY <2>1, <2>2
<1>7. CASE RemoveImage
  <2>1. /\ UNCHANGED <<typed, draft, sent, stage, phase>> /\ ~IsSending
        /\ image' = None /\ excused' = excused \cup {image}
    BY <1>7 DEF RemoveImage, textVars, sendVars
  <2>2. Stored' = Stored /\ IsSending' = IsSending
    BY <2>1 DEF Stored, IsSending
  <2> QED
    BY <2>1, <2>2, Removed DEF Held
<1>8. CASE Submit
  BY <1>8, Submitted
<1>9. CASE Emit \/ Lose
  BY <1>9, ContentKept DEF Emit, Lose, Stored, IsSending, textVars, imageVars
<1>10. CASE EmitFails \/ AckTimeout
  BY <1>10, Failed DEF EmitFails, AckTimeout, IsSending
<1>11. CASE Queued
  BY <1>11, Emptied
<1>12. CASE Leave
  <2>1. /\ UNCHANGED <<typed, sent>> /\ draft' = {} /\ image' = None
        /\ excused' = excused \cup draft \cup ({image} \ {None}) /\ ~IsSending'
    BY <1>12 DEF Leave, IsSending
  <2>2. Stored' = Stored
    BY <1>12 DEF Leave, Stored
  <2>3. Held' = {} /\ Held \subseteq excused'
    BY <2>1 DEF Held
  <2> QED
    BY <2>1, <2>2, <2>3, Removed
<1> QED
  BY <1>2, <1>3, <1>4, <1>5, <1>6, <1>7, <1>8, <1>9, <1>10, <1>11, <1>12 DEF Next, Send

-----------------------------------------------------------------------------
(* Theorems *)

\* The invariant is inductive.
THEOREM Invariance == Spec => []IInv
<1>1. IInv /\ [Next]_vars => IInv'
  BY TypeStep, KeyStep, ContentStep, TypingStep DEF IInv, ContentSound
<1> QED
  BY InitSound, <1>1, PTL DEF Spec

\* The variables keep their types.
THEOREM TypeCorrect == Spec => []TypeOK
<1>1. IInv => TypeOK
  BY DEF IInv
<1> QED
  BY <1>1, Invariance, PTL

\* Whatever the order in which uploads, answers, timeouts and switches between chats
\* come, the composer drops nothing but what it is excused of.
THEOREM NothingDropped == Spec => []NothingIsLost
<1>1. IInv => NothingIsLost
  BY DEF IInv, ContentSound
<1> QED
  BY <1>1, Invariance, PTL

\* Nothing goes out twice unless its first message is known to have failed.
THEOREM NothingTwice == Spec => []TwiceOnlyAfterFailure
<1>1. IInv => TwiceOnlyAfterFailure
  BY DEF IInv, ContentSound
<1> QED
  BY <1>1, Invariance, PTL

\* A peer is shown "typing" only with a timer that will end it, or by a stop event that
\* was not sent or not heard.
THEOREM TypingIsTimed == Spec => []TypingHasTimer
<1>1. IInv => TypingHasTimer
  BY DEF IInv
<1> QED
  BY <1>1, Invariance, PTL
=============================================================================
