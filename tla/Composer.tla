------------------------------ MODULE Composer ------------------------------
(***************************************************************************)
(* The composer of the chat page (ChatPanel): the text and the image being *)
(* prepared, uploads, the send under way, and the typing indicator at the  *)
(* peers.  There is one composer for all chats: its state is not reset     *)
(* when another chat is opened, and uploads, the key of the chat, the      *)
(* answer to a send and the typing timer come back whenever they do.       *)
(*                                                                         *)
(* The text is the set of the pieces the user has typed.                   *)
(***************************************************************************)
EXTENDS Integers, Sequences

CONSTANTS
  Chats,      \* the conversations of the user
  Images,     \* files, each attached once at most
  None,       \* no chat, no key, no image, no timer
  MaxTyped,   \* bound: pieces of text
  MaxSent,    \* bound: messages
  MaxFaults   \* bound: connections lost, here or by a peer, and times the page is left

ASSUME NoneAssumption == None \notin Chats \cup Images
ASSUME ImagesAssumption == Images \cap Nat = {}
ASSUME BoundsAssumption == {MaxTyped, MaxSent, MaxFaults} \subseteq Nat

VARIABLES
  chat,        \* the open chat, or None
  key,         \* conversationKey: the chat whose key it is, or None
  cached,      \* conversationKeyCache
  decrypting,  \* the key of the open chat is being decrypted
  draft,       \* messageContent: pieces of text
  typed,       \* pieces typed so far
  image,       \* uploadedImage, or None
  stage,       \* of each image: "none", "extract", "encrypt", "send", "answer", "served",
               \* "stored", "failed"
  extracting,  \* isExtractingGif: images pasted as a GIF
  uploading,   \* isUploading
  phase,       \* of the send: "idle", "encrypt", "wait", "cut" (its connection is lost), "stranded"
  sent,        \* the messages, in order: [chat, text, image, fate]
  connected,   \* the WebSocket is open
  reached,     \* chats whose peer gets what is sent: both sockets are registered, at one
               \* instance
  timer,       \* the chat the typing timer is set for, or None; isTyping while it runs
  shown,       \* chats whose peer is shown "typing"
  faults,      \* so far
  \* History:
  excused,     \* pieces and images that the user removed, that came while a send was under
               \* way, or that another image took the place of
  unheard      \* chats whose stop event was dropped, refused or missed

keyVars == <<key, cached, decrypting>>
textVars == <<draft, typed>>
imageVars == <<image, stage, extracting, uploading>>
sendVars == <<phase, sent>>
typingVars == <<timer, shown, unheard>>
outside == <<connected, reached, faults>>
vars == <<chat, keyVars, textVars, imageVars, sendVars, typingVars, outside, excused>>

Stages ==
  {"none", "extract", "encrypt", "send", "answer", "served", "stored", "failed"}
Phases == {"idle", "encrypt", "wait", "cut", "stranded"}
Fates == {"sent", "queued", "failed"}
Messages == [chat : Chats, text : SUBSET (1..MaxTyped), image : Images \cup {None}, fate : Fates]

Init ==
  /\ chat = None /\ key = None /\ cached = {} /\ decrypting = FALSE
  /\ draft = {} /\ typed = 0
  /\ image = None /\ uploading = FALSE /\ extracting = {}
  /\ stage = [i \in Images |-> "none"]
  /\ phase = "idle" /\ sent = <<>>
  /\ connected = TRUE /\ reached \in SUBSET Chats /\ faults = 0
  /\ timer = None /\ shown = {} /\ unheard = {}
  /\ excused = {}

IsSending == phase # "idle"
\* The history of the chat, which may be there at once, is left out.
IsLoading == chat = None \/ decrypting \/ key = None
TextEnabled == ~IsLoading /\ ~uploading /\ extracting = {}

\* What comes while a send is under way.
Meanwhile(x) == IF IsSending THEN {x} ELSE {}

-----------------------------------------------------------------------------
(* The open chat and its key *)

\* The answer to a message is not waited for any more when its chat is left: the
\* timeout and the pending acknowledgement are dropped, and nothing settles the send.
Strand == phase' = IF phase \in {"wait", "cut"} THEN "stranded" ELSE phase

\* A key in the cache is there at once; otherwise the key of the chat before stays
\* until the new one is decrypted.
Select(c) ==
  /\ c # chat
  /\ chat' = c
  /\ \/ c \in cached /\ key' = c /\ decrypting' = FALSE
     \/ c \notin cached /\ decrypting' = TRUE /\ UNCHANGED key
  /\ Strand
  /\ UNCHANGED <<cached, textVars, imageVars, sent, typingVars, outside, excused>>

KeyDecrypted ==
  /\ decrypting
  /\ decrypting' = FALSE
  /\ \/ key' = chat /\ cached' = cached \cup {chat}
     \/ key' = None /\ UNCHANGED cached
  /\ UNCHANGED <<chat, textVars, imageVars, sendVars, typingVars, outside, excused>>

\* The effect runs again when the chat list is fetched anew; a key that could not be
\* decrypted is tried once more.
DecryptAgain ==
  /\ chat \notin cached \cup {None}
  /\ ~decrypting
  /\ decrypting' = TRUE
  /\ UNCHANGED <<chat, key, cached, textVars, imageVars, sendVars, typingVars,
                 outside, excused>>

-----------------------------------------------------------------------------
(* The typing indicator *)

\* The gateway passes the event on to everybody in the registry of its instance, and
\* refuses it before authentication; the peer shows it when it has the chat open.
\* Without a connection sendEvent throws, and the event is dropped.
SayTyping ==
  /\ \/ shown' = shown
     \/ chat \in reached /\ shown' = shown \cup {chat}
  /\ unheard' = (unheard \ {chat}) \cup (IF timer \in {None, chat} THEN {} ELSE {timer})

\* The stop event of c is sent, heard or not, and the timer, set for whichever chat, is
\* cleared.
SayStopped(c) ==
  /\ shown' = shown \ (reached \cap {c})
  /\ unheard' = unheard \cup ({c} \ reached) \cup (IF timer \in {None, c} THEN {} ELSE {timer})
  /\ timer' = None

TypingTimeout ==
  /\ timer # None
  /\ SayStopped(timer)
  /\ UNCHANGED <<chat, keyVars, textVars, imageVars, sendVars, outside, excused>>

\* The peer opens the chat, or another one; either clears its indicator.
PeerSelects(c) ==
  /\ c \in shown
  /\ shown' = shown \ {c}
  /\ UNCHANGED <<chat, keyVars, textVars, imageVars, sendVars, timer, unheard,
                 outside, excused>>

-----------------------------------------------------------------------------
(* The text *)

AddPiece ==
  /\ typed < MaxTyped
  /\ typed' = typed + 1
  /\ draft' = draft \cup {typed + 1}
  /\ excused' = excused \cup Meanwhile(typed + 1)

\* onChange with some text: the event is sent and the timer is set again.
Type ==
  /\ TextEnabled
  /\ AddPiece
  /\ SayTyping
  /\ timer' = chat
  /\ UNCHANGED <<chat, keyVars, imageVars, sendVars, outside>>

\* The picker adds to the text also during an upload, and says nothing.
Emoji ==
  /\ ~IsLoading
  /\ AddPiece
  /\ UNCHANGED <<chat, keyVars, imageVars, sendVars, typingVars, outside>>

\* Mutant: the timer is cleared and the peer is not told.
EraseQuietly ==
  /\ TextEnabled
  /\ draft # {}
  /\ draft' = {}
  /\ excused' = excused \cup draft
  /\ timer' = None
  /\ UNCHANGED <<chat, keyVars, typed, imageVars, sendVars, shown, unheard, outside>>

\* onChange with no text left.
Erase ==
  /\ TextEnabled
  /\ draft # {}
  /\ draft' = {}
  /\ excused' = excused \cup draft
  /\ IF timer # None THEN SayStopped(chat) ELSE UNCHANGED typingVars
  /\ UNCHANGED <<chat, keyVars, typed, imageVars, sendVars, outside>>

-----------------------------------------------------------------------------
(* The image *)

Stage(i, s) == stage' = [stage EXCEPT ![i] = s]

\* handleUpload: the file is encrypted first.
Upload(i) == Stage(i, "encrypt")

\* A file is dropped on the panel; nothing holds it back.
Drop(i) ==
  /\ chat # None
  /\ stage[i] = "none"
  /\ Upload(i)
  /\ UNCHANGED <<chat, keyVars, textVars, image, extracting, uploading, sendVars,
                 typingVars, outside, excused>>

\* An image with an address is pasted: the GIF is fetched first.
Paste(i) ==
  /\ TextEnabled
  /\ stage[i] = "none"
  /\ Stage(i, "extract")
  /\ extracting' = extracting \cup {i}
  /\ UNCHANGED <<chat, keyVars, textVars, image, uploading, sendVars,
                 typingVars, outside, excused>>

\* The GIF, or else the image file of the clipboard, is uploaded; the overlay stays in
\* the first case.
Extracted(i) ==
  /\ stage[i] = "extract"
  /\ Upload(i)
  /\ extracting' \in {extracting, extracting \ {i}}
  /\ UNCHANGED <<chat, keyVars, textVars, image, uploading, sendVars, typingVars, outside,
                 excused>>

\* The first event of progress: the upload has begun.
Progress(i) ==
  /\ stage[i] = "encrypt"
  /\ Stage(i, "send")
  /\ uploading' = TRUE
  /\ UNCHANGED <<chat, keyVars, textVars, image, extracting, sendVars,
                 typingVars, outside, excused>>

\* All bytes are sent, in one go or after other events, and the answer is still to
\* come: the composer is free.
ProgressComplete(i) ==
  /\ stage[i] \in {"encrypt", "send"}
  /\ Stage(i, "answer")
  /\ uploading' = FALSE
  /\ UNCHANGED <<chat, keyVars, textVars, image, extracting, sendVars,
                 typingVars, outside, excused>>

\* The server stores the file under a name of its own.
Serve(i) ==
  /\ stage[i] = "answer"
  /\ Stage(i, "served")
  /\ UNCHANGED <<chat, keyVars, textVars, image, extracting, uploading, sendVars,
                 typingVars, outside, excused>>

\* The answer is here: the file becomes the image of the composer.
UploadSucceeds(i) ==
  /\ stage[i] = "served"
  /\ Stage(i, "stored")
  /\ image' = i
  /\ excused' = excused \cup ({image} \ {None}) \cup Meanwhile(i)
  /\ uploading' = FALSE
  /\ extracting' = extracting \ {i}
  /\ UNCHANGED <<chat, keyVars, textVars, sendVars, typingVars, outside>>

UploadError(i) ==
  /\ Stage(i, "failed")
  /\ uploading' = FALSE
  /\ extracting' = extracting \ {i}
  /\ UNCHANGED <<chat, keyVars, textVars, image, sendVars, typingVars, outside,
                 excused>>

\* The encrypted file is too large.
Invalid(i) ==
  /\ stage[i] = "encrypt"
  /\ UploadError(i)

\* The server refuses the file, or its answer does not arrive.
UploadFails(i) ==
  /\ stage[i] \in {"encrypt", "send", "answer", "served"}
  /\ UploadError(i)

RemoveImage ==
  /\ image # None
  /\ ~IsSending
  /\ image' = None
  /\ excused' = excused \cup {image}
  /\ UNCHANGED <<chat, keyVars, textVars, stage, extracting, uploading, sendVars,
                 typingVars, outside>>

-----------------------------------------------------------------------------
(* Sending *)

CanSubmit ==
  /\ draft # {} \/ image # None
  /\ chat # None
  /\ ~IsSending /\ ~IsLoading /\ ~uploading

\* Without a connection the send ends with an error at once, and nothing is changed.
Ready == connected

Last == Len(sent)
Fate(f) == sent' = [sent EXCEPT ![Last].fate = f]

Compose ==
  sent' = Append(sent, [chat |-> chat, text |-> draft, image |-> image, fate |-> "sent"])

\* Mutant: a send that is under way does not hold back the next.
SubmitAgain ==
  /\ draft # {} \/ image # None
  /\ ~IsLoading /\ ~uploading
  /\ Ready
  /\ Last < MaxSent
  /\ Compose
  /\ phase' = "encrypt"
  /\ UNCHANGED <<chat, keyVars, textVars, imageVars, typingVars, outside, excused>>

\* Mutant: the composer is emptied before the answer.
SubmitAndEmpty ==
  /\ CanSubmit
  /\ Ready
  /\ Last < MaxSent
  /\ Compose
  /\ phase' = "encrypt"
  /\ draft' = {}
  /\ UNCHANGED <<chat, keyVars, typed, imageVars, typingVars, outside, excused>>

\* submitMessage, sendMessage: the text is encrypted.
Submit ==
  /\ CanSubmit
  /\ Ready
  /\ Last < MaxSent
  /\ Compose
  /\ phase' = "encrypt"
  /\ UNCHANGED <<chat, keyVars, textVars, imageVars, typingVars, outside, excused>>

\* The send ends with an error: the text and the image stay.
Fail ==
  /\ Fate("failed")
  /\ phase' = "idle"
  /\ UNCHANGED <<chat, keyVars, textVars, imageVars, typingVars, outside, excused>>

\* The message goes out, and the answer is waited for.
Emit ==
  /\ phase = "encrypt"
  /\ connected
  /\ phase' = "wait"
  /\ UNCHANGED <<chat, keyVars, textVars, imageVars, sent, typingVars, outside, excused>>

EmitFails ==
  /\ phase = "encrypt"
  /\ ~connected
  /\ Fail

\* message_queued: the composer is emptied, whatever it holds by now, and the peer of
\* the message is told that nobody types.
Queued ==
  /\ phase = "wait"
  /\ Fate("queued")
  /\ phase' = "idle"
  /\ draft' = {}
  /\ image' = None
  /\ SayStopped(sent[Last].chat)
  /\ UNCHANGED <<chat, keyVars, typed, stage, extracting, uploading, outside,
                 excused>>

\* Mutant: only the loss of the connection ends the wait.
AckTimeoutIfLost ==
  /\ phase = "cut"
  /\ Fail

\* No answer within ten seconds.
AckTimeout ==
  /\ phase \in {"wait", "cut"}
  /\ Fail

-----------------------------------------------------------------------------
(* Outside *)

Lose ==
  /\ connected
  /\ faults < MaxFaults
  /\ faults' = faults + 1
  /\ connected' = FALSE /\ reached' = {}
  /\ phase' = IF phase = "wait" THEN "cut" ELSE phase
  /\ UNCHANGED <<chat, keyVars, textVars, imageVars, sent, typingVars, excused>>

Reconnect ==
  /\ ~connected
  /\ connected' = TRUE
  /\ UNCHANGED <<chat, keyVars, textVars, imageVars, sendVars, typingVars, reached, faults,
                 excused>>

\* The peer of c loses its connection, and keeps what it shows ...
Part(c) ==
  /\ c \in reached
  /\ faults < MaxFaults
  /\ faults' = faults + 1
  /\ reached' = reached \ {c}
  /\ UNCHANGED <<chat, keyVars, textVars, imageVars, sendVars, typingVars, connected, excused>>

\* ... and it and this window are registered at one instance.
Meet(c) ==
  /\ connected /\ c \notin reached
  /\ reached' = reached \cup {c}
  /\ UNCHANGED <<chat, keyVars, textVars, imageVars, sendVars, typingVars, connected, faults,
                 excused>>

\* The page is left: the components are gone with their state, the timer with them.
Leave ==
  /\ chat # None
  /\ faults < MaxFaults
  /\ faults' = faults + 1
  /\ chat' = None /\ key' = None /\ decrypting' = FALSE
  /\ draft' = {} /\ image' = None /\ uploading' = FALSE /\ extracting' = {}
  /\ stage' = [i \in Images |-> IF stage[i] \in {"none", "stored"} THEN stage[i] ELSE "failed"]
  /\ phase' = "idle"
  /\ excused' = excused \cup draft \cup ({image} \ {None})
  /\ timer' = None
  /\ unheard' = unheard \cup ({timer} \ {None})
  /\ UNCHANGED <<cached, typed, sent, shown, connected, reached>>

-----------------------------------------------------------------------------

Image(i) ==
  \/ Drop(i) \/ Paste(i) \/ Extracted(i) \/ Progress(i) \/ ProgressComplete(i)
  \/ Serve(i) \/ UploadSucceeds(i) \/ Invalid(i) \/ UploadFails(i)

Send == Submit \/ Emit \/ EmitFails \/ Queued \/ AckTimeout

Next ==
  \/ \E c \in Chats : Select(c) \/ PeerSelects(c)
  \/ KeyDecrypted \/ DecryptAgain
  \/ Type \/ Emoji \/ Erase \/ TypingTimeout
  \/ \E i \in Images : Image(i)
  \/ RemoveImage
  \/ Send
  \/ Lose \/ Reconnect \/ Leave
  \/ \E c \in Chats : Part(c) \/ Meet(c)

Spec == Init /\ [][Next]_vars

\* The timers of the browser go off, and encryption ends.  Nothing is asked of the user,
\* of the server or of the network.
FairSpec ==
  /\ Spec
  /\ WF_vars(TypingTimeout)
  /\ WF_vars(Emit \/ EmitFails)
  /\ WF_vars(AckTimeout)

-----------------------------------------------------------------------------
(* Properties *)

TypeOK ==
  /\ chat \in Chats \cup {None} /\ key \in Chats \cup {None}
  /\ cached \subseteq Chats /\ decrypting \in BOOLEAN
  /\ typed \in 0..MaxTyped /\ draft \subseteq 1..typed
  /\ image \in Images \cup {None} /\ uploading \in BOOLEAN /\ extracting \subseteq Images
  /\ stage \in [Images -> Stages]
  /\ phase \in Phases /\ sent \in Seq(Messages)
  /\ connected \in BOOLEAN /\ reached \subseteq Chats /\ shown \subseteq Chats
  /\ timer \in Chats \cup {None} /\ faults \in 0..MaxFaults
  /\ excused \subseteq Images \cup 1..typed /\ unheard \subseteq Chats

Held == draft \cup ({image} \ {None})
Contents(m) == sent[m].text \cup ({sent[m].image} \ {None})

\* Whatever the user has typed or attached is in the composer until a message with it is
\* queued, also when a send fails, times out or is left behind; what comes while a send
\* is under way may be wiped when the answer arrives, and an image by the next one.
NothingIsLost ==
  \A x \in 1..typed \cup {i \in Images : stage[i] = "stored"} :
    \/ x \in Held \cup excused
    \/ \E m \in DOMAIN sent : sent[m].fate = "queued" /\ x \in Contents(m)

\* The same text or image goes out in a second message only after the first has failed.
TwiceOnlyAfterFailure ==
  \A m, n \in DOMAIN sent :
    m < n /\ Contents(m) \cap Contents(n) # {} => sent[m].fate = "failed"

\* The peer is shown "typing" only while the timer runs that will end it, or when the
\* stop event was never sent (the user typed in another chat, an earlier message was
\* answered, the page was left, there was no connection), or was sent and not heard
\* (refused before authentication, the peer away or at another instance).
TypingHasTimer == \A c \in shown : timer = c \/ c \in unheard

\* A send ends, with an answer or a timeout, unless its chat is left meanwhile.
SendingEnds == IsSending ~> (phase \in {"idle", "stranded"})

\* The indicator at the peer goes out when the user stops typing, unless the stop event
\* is not sent or not heard; the peer then keeps it until it opens the chat anew.
TypingStops == \A c \in Chats : (c \in shown) ~> (c \notin shown \/ c \in unheard)

=============================================================================
