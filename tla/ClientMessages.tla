--------------------------- MODULE ClientMessages ---------------------------
(***************************************************************************)
(* The messages of the open conversation in one browser window: the list   *)
(* that the reducer keeps, fed by the user's own sends, the socket and the *)
(* pages of the history, and the receipts the window sends for it.         *)
(*                                                                         *)
(* Encryption, decryption, the query and the socket are asynchronous; the  *)
(* user may open another conversation between any two of their steps.  The *)
(* server is reduced to the stored status of each message and the events   *)
(* it emits to this window; MessageWorker and ChatFanout say how it gets   *)
(* there.                                                                  *)
(***************************************************************************)
EXTENDS Integers, Sequences, FiniteSets

CONSTANTS
  Convs,
  Mine, Theirs,  \* messages of this user, and of the other members
  ConvOf,
  NoConv,        \* no conversation is open yet
  MaxMsgs,       \* bound: messages written, by anybody
  MaxFaults,     \* bound: lost connections, refused events, failed queries
  MaxEvents      \* bound: these, conversations opened, refetches

Msgs == Mine \cup Theirs

ASSUME ConvAssumption == ConvOf \in [Msgs -> Convs] /\ NoConv \notin Convs
ASSUME OwnersAssumption == Mine \cap Theirs = {}

VARIABLES
  selected,    \* the open conversation
  key,         \* the conversation whose key useConversationKey returns
  keys,        \* conversationKeyCache
  keyless,     \* the key of the open conversation could not be decrypted
  bubbles,     \* the messages of useConversationMessages
  loaded,      \* conversations with pages in the query cache
  cache,       \* the items of these pages
  fetching,    \* conversations being fetched
  page,        \* the pages in decryption: the key used and the items
  hydrating,   \* isHydratingMessages
  history,     \* the history hook has messages, of this conversation or the last
  opening,     \* new messages in decryption
  encrypting,  \* own messages in encryption
  pending,     \* pendingAcksRef
  sending,     \* the message ChatPanel.isSending stands for
  markedDelivered, markedSeen,   \* the refs of receipts already sent
  connected, up, down,           \* the socket, and the events on their way
  accepted, replying,            \* sends in the stream, and not yet answered
  row,         \* stored status; NONE before the insert
  writing,     \* messages read as QUEUED for a delivered receipt, and not yet written
  stage,       \* how far each message is: draft, sent, out, storing, stored, done
  wasSeen,     \* history: messages that have been stored as seen
  shown,       \* messages of others displayed in their own conversation
  moves, faults

listVars == <<bubbles, shown>>
keyVars == <<selected, key, keys, keyless>>
pageVars == <<loaded, cache, fetching, page, hydrating, history>>
sendVars == <<encrypting, pending, sending>>
refVars == <<markedDelivered, markedSeen>>
netVars == <<connected, up, down>>
rowVars == <<row, writing, wasSeen>>
serverVars == <<accepted, replying, rowVars, stage>>
countVars == <<moves, faults>>
vars == <<listVars, keyVars, pageVars, opening, sendVars, refVars, netVars,
          serverVars, countVars>>

\* MESSAGE_STATUS_RANK
Rank == [PENDING |-> 0, FAILED |-> 1, QUEUED |-> 2, DELIVERED |-> 3, SEEN |-> 4]
Status == DOMAIN Rank
Stored == {"NONE", "QUEUED", "DELIVERED", "SEEN"}

Item == [msg : Msgs, status : Status]
NoPage == [key |-> NoConv, items |-> {}]

\* An entry of the list: id is the row's or still the client's, client says
\* whether it carries the clientMsgId (of own messages only).
Bubble == [msg : Msgs, id : {"client", "row"}, client : BOOLEAN, status : Status]
FromServer(m, st) == [msg |-> m, id |-> "row", client |-> FALSE, status |-> st]
-----------------------------------------------------------------------------
(* The reducer *)

\* resolveMessageStatus
ResolveStatus(old, new) == IF Rank[new] >= Rank[old] THEN new ELSE old

\* Mutant: an entry without clientMsgId never matches.
MatchesByClientId(x, b) == x.msg = b.msg /\ x.client /\ b.client

\* The comparison of upsertMessage.
Matches(x, b) == x.msg = b.msg /\ (x.id = b.id \/ (x.client /\ b.client))

\* The lists upsertMessage may give: the first match is merged, and which one is
\* first depends on the clocks of the client and the server.
Upserts(S, b) ==
  LET found == {x \in S : Matches(x, b)} IN
  IF found = {} THEN {S \cup {b}}
  ELSE {(S \ {x}) \cup {[b EXCEPT !.client = x.client \/ @,
                                  !.status = ResolveStatus(x.status, @)]} : x \in found}

\* The lists hydrate may give for the items of a page: each merges with what there
\* is of its message.
Hydrates(S, items) ==
  LET Of(i) == Upserts({x \in S : x.msg = i.msg}, FromServer(i.msg, i.status))
      rest == {x \in S : \A i \in items : x.msg # i.msg}
  IN  {rest \cup UNION {merged[i] : i \in items} :
         merged \in {f \in [items -> UNION {Of(i) : i \in items}] :
                       \A i \in items : f[i] \in Of(i)}}

\* The lists patchMessage may give: the message is looked up by its clientMsgId,
\* its row, or both, and by the delivery patch gets the row's id.
Patches(S, m, by, st) ==
  LET found == {x \in S : /\ x.msg = m
                         /\ \/ "client" \in by /\ x.client
                            \/ "row" \in by /\ x.id = "row"} IN
  IF found = {} THEN {S}
  ELSE {(S \ {x}) \cup {[x EXCEPT !.id = IF "row" \in by THEN "row" ELSE @,
                                  !.status = ResolveStatus(@, st)]} : x \in found}

\* The list becomes one of these.
Show(lists) ==
  /\ bubbles' \in lists
  /\ shown' = shown \cup {m \in Theirs : ConvOf[m] = selected /\
                            \E b \in bubbles' : b.msg = m}

Init ==
  /\ selected = NoConv /\ key = NoConv /\ keys = {} /\ keyless = FALSE
  /\ bubbles = {} /\ shown = {}
  /\ loaded = {} /\ cache = [c \in Convs |-> {}] /\ fetching = {}
  /\ page = NoPage /\ hydrating = FALSE /\ history = FALSE
  /\ opening = {} /\ encrypting = {} /\ pending = {} /\ sending = {}
  /\ markedDelivered = {} /\ markedSeen = {}
  /\ connected = TRUE /\ up = <<>> /\ down = <<>>
  /\ accepted = {} /\ replying = {}
  /\ row = [m \in Msgs |-> "NONE"] /\ writing = {} /\ wasSeen = {}
  /\ stage = [m \in Msgs |-> IF m \in Mine THEN "draft" ELSE "sent"]
  /\ moves = 0 /\ faults = 0

\* One more switch or fault may happen.
Happens == moves + faults < MaxEvents
-----------------------------------------------------------------------------
(* Opening a conversation *)

\* The effect of the history hook starts to decrypt unless it lacks key or items.
Decryption(k, items) ==
  IF k = NoConv \/ items = {} THEN NoPage ELSE [key |-> k, items |-> items]

\* It runs again, and what it was doing is cancelled.
Rehydrate(k, items) ==
  /\ page' = Decryption(k, items)
  /\ hydrating' = (hydrating \/ page' # NoPage)

\* Another conversation is opened: the list and the refs are reset, the pending
\* acknowledgements are dropped with their timers, and the query is run when the
\* cache has nothing, or nothing recent.
Open(c) ==
  /\ Happens /\ moves' = moves + 1
  /\ c # selected
  /\ selected' = c
  /\ key' = IF c \in keys THEN c ELSE key
  /\ keyless' = FALSE
  /\ bubbles' = {} /\ markedDelivered' = {} /\ markedSeen' = {}
  /\ pending' = {}
  /\ Rehydrate(key', cache[c])
  /\ \/ fetching' = fetching \cup {c}
     \/ c \in loaded /\ UNCHANGED fetching
  /\ UNCHANGED <<shown, keys, loaded, cache, history, opening, encrypting, sending,
                 netVars, serverVars, faults>>

\* decryptConversationKey is under way; until it ends the hook returns the last key.
DecryptingKey == selected # NoConv /\ key # selected /\ ~keyless

\* It ends.
DecryptKey ==
  /\ DecryptingKey
  /\ key' = selected
  /\ keys' = keys \cup {selected}
  /\ Rehydrate(selected, cache[selected])
  /\ UNCHANGED <<selected, keyless, listVars, loaded, cache, fetching, history, opening,
                 sendVars, refVars, netVars, serverVars, countVars>>

\* It fails, or there is no private key: the hook returns null, and tries no more.
DecryptKeyFails ==
  /\ DecryptingKey
  /\ Happens /\ faults < MaxFaults /\ faults' = faults + 1
  /\ key' = NoConv /\ keyless' = TRUE
  /\ Rehydrate(NoConv, cache[selected])
  /\ UNCHANGED <<selected, keys, listVars, loaded, cache, fetching, history, opening,
                 sendVars, refVars, netVars, serverVars, moves>>

\* The effect runs again: the private key has come, or the conversation is selected
\* anew as a refetched list has it.
RetryKey ==
  /\ keyless
  /\ Happens /\ moves' = moves + 1
  /\ keyless' = FALSE
  /\ UNCHANGED <<selected, key, keys, listVars, pageVars, opening, sendVars, refVars,
                 netVars, serverVars, faults>>

\* Mutant: without messages it is loading.
LoadingWhenEmpty == selected = NoConv \/ key # selected \/ ~history

\* isLoading
Loading ==
  \/ selected = NoConv \/ key # selected
  \/ ~history /\ (selected \notin loaded \/ hydrating)
-----------------------------------------------------------------------------
(* The history *)

\* The window gets the focus, and the pages are no longer recent.
Refetch ==
  /\ Happens /\ moves' = moves + 1
  /\ selected \in loaded
  /\ fetching' = fetching \cup {selected}
  /\ UNCHANGED <<listVars, keyVars, loaded, cache, page, hydrating, history, opening,
                 sendVars, refVars, netVars, serverVars, faults>>

\* The pages of c are in the cache; the effect runs again when they are news.
Fetched(c, items) ==
  /\ fetching' = fetching \ {c}
  /\ loaded' = loaded \cup {c}
  /\ cache' = [cache EXCEPT ![c] = items]
  /\ IF c = selected /\ items # cache[c] THEN Rehydrate(key, items)
     ELSE UNCHANGED <<page, hydrating>>
  /\ UNCHANGED <<listVars, keyVars, history, opening, sendVars, refVars, netVars,
                 serverVars, moves>>

\* getMessages: the rows of the conversation.
Fetch(c) ==
  /\ c \in fetching
  /\ Fetched(c, {[msg |-> m, status |-> row[m]] :
                   m \in {n \in Msgs : ConvOf[n] = c /\ row[n] # "NONE"}})
  /\ UNCHANGED faults

\* getMessagesApi returns the error instead of throwing it: pages without items.
FetchFails(c) ==
  /\ c \in fetching
  /\ Happens /\ faults < MaxFaults /\ faults' = faults + 1
  /\ Fetched(c, {})

\* The pages are decrypted and hydrate the list; under the key of another
\* conversation that fails, and the hook has no messages.
DecryptPage ==
  LET readable == \A i \in page.items : ConvOf[i.msg] = page.key IN
  /\ page # NoPage
  /\ page' = NoPage /\ hydrating' = FALSE
  /\ history' = readable
  /\ Show(IF readable THEN Hydrates(bubbles, page.items) ELSE {bubbles})
  /\ UNCHANGED <<keyVars, loaded, cache, fetching, opening, sendVars, refVars,
                 netVars, serverVars, countVars>>
-----------------------------------------------------------------------------
(* Sending *)

\* One more message may be written.
MayWrite ==
  Cardinality({m \in Msgs : stage[m] # "draft" /\ (m \in Mine \/ row[m] # "NONE")}) < MaxMsgs

\* submitMessage, and sendMessage up to its await.  Nothing is sent while the
\* conversation loads, while another send is under way, or without a connection.
Submit(m) ==
  /\ stage[m] = "draft" /\ MayWrite
  /\ selected = ConvOf[m] /\ sending = {} /\ ~Loading /\ connected
  /\ stage' = [stage EXCEPT ![m] = "sent"]
  /\ sending' = {m} /\ encrypting' = {m}
  /\ UNCHANGED <<listVars, keyVars, pageVars, opening, pending, refVars,
                 netVars, accepted, replying, rowVars, countVars>>

\* The message is encrypted: it is shown, in whatever conversation is open by now,
\* and sent; the promise waits for message_queued or the timeout.  Without a
\* socket it has failed at once.
Send(m) ==
  /\ m \in encrypting
  /\ encrypting' = encrypting \ {m}
  /\ Show(Upserts(bubbles, [msg |-> m, id |-> "client", client |-> TRUE,
                            status |-> IF connected THEN "PENDING" ELSE "FAILED"]))
  /\ IF connected
     THEN /\ pending' = pending \cup {m}
          /\ up' = Append(up, [kind |-> "send", msgs |-> {m}])
          /\ UNCHANGED sending
     ELSE /\ sending' = sending \ {m}
          /\ UNCHANGED <<pending, up>>
  /\ UNCHANGED <<keyVars, pageVars, opening, refVars, connected, down, serverVars,
                 countVars>>

\* Mutant: the promise is left alone.
TimeoutUnsettled(m) ==
  /\ m \in pending
  /\ pending' = pending \ {m}
  /\ Show(Patches(bubbles, m, {"client"}, "FAILED"))
  /\ UNCHANGED <<keyVars, pageVars, opening, encrypting, sending, refVars,
                 netVars, serverVars, countVars>>

\* No answer for ten seconds: the promise is rejected.
Timeout(m) ==
  /\ m \in pending
  /\ pending' = pending \ {m}
  /\ sending' = sending \ {m}
  /\ Show(Patches(bubbles, m, {"client"}, "FAILED"))
  /\ UNCHANGED <<keyVars, pageVars, opening, encrypting, refVars, netVars,
                 serverVars, countVars>>
-----------------------------------------------------------------------------
(* Events from the socket *)

Receives(kind) == down # <<>> /\ Head(down).kind = kind
Take == down' = Tail(down) /\ UNCHANGED <<connected, up>>

\* The listeners of the conversation are registered once there is a key.
Listening(m) == selected = ConvOf[m] /\ key # NoConv

\* message_queued settles the promise if it still waits, in whatever
\* conversation.
ReceiveQueued ==
  /\ Receives("queued") /\ Take
  /\ LET m == Head(down).msg IN
       IF m \in pending
       THEN /\ pending' = pending \ {m}
            /\ sending' = sending \ {m}
            /\ Show(Patches(bubbles, m, {"client"}, "QUEUED"))
       ELSE UNCHANGED <<pending, sending, listVars>>
  /\ UNCHANGED <<keyVars, pageVars, opening, encrypting, refVars, serverVars,
                 countVars>>

\* message_delivery: the acknowledgement of the fanout carries the clientMsgId, a
\* receipt of the other member only the id of the row.
ReceiveDelivery ==
  /\ Receives("delivery") /\ Take
  /\ LET e == Head(down) IN
       IF Listening(e.msg) THEN Show(Patches(bubbles, e.msg, e.by, e.status))
       ELSE UNCHANGED listVars
  /\ UNCHANGED <<keyVars, pageVars, opening, sendVars, refVars, serverVars, countVars>>

\* new_message: its decryption starts, and fails at once under the key of the
\* conversation before.
ReceiveNew ==
  /\ Receives("new") /\ Take
  /\ LET m == Head(down).msg IN
       opening' = IF Listening(m) /\ key = selected THEN opening \cup {m} ELSE opening
  /\ UNCHANGED <<listVars, keyVars, pageVars, sendVars, refVars, serverVars, countVars>>

\* A new message is decrypted, and shown in whatever conversation is open by now.
DecryptNew(m) ==
  /\ m \in opening
  /\ opening' = opening \ {m}
  /\ Show(Upserts(bubbles, FromServer(m, "DELIVERED")))
  /\ UNCHANGED <<keyVars, pageVars, sendVars, refVars, netVars, serverVars, countVars>>
-----------------------------------------------------------------------------
(* Receipts: effects that run after the list has changed *)

\* The messages of others in the list that belong to the open conversation.
Others == {b \in bubbles : b.msg \in Theirs /\ ConvOf[b.msg] = selected}

Undelivered == {b.msg : b \in {x \in Others : x.status \notin {"DELIVERED", "SEEN", "FAILED"}}}

\* Mutant: every message in the list counts.
UnseenAnywhere == {b.msg : b \in {x \in bubbles : x.msg \in Theirs /\ x.status = "DELIVERED"}}

Unseen == {b.msg : b \in {x \in Others : x.status = "DELIVERED"}}

\* Mutant: the list does not change.
MarkDeliveredOnly ==
  LET ids == Undelivered \ markedDelivered IN
  /\ ~Loading /\ connected /\ ids # {}
  /\ markedDelivered' = markedDelivered \cup ids
  /\ up' = Append(up, [kind |-> "delivered", msgs |-> ids])
  /\ UNCHANGED <<listVars, keyVars, pageVars, opening, sendVars, markedSeen, connected,
                 down, serverVars, countVars>>

\* mark_messages_delivered, and the list says so at once.
MarkDelivered ==
  LET ids == Undelivered \ markedDelivered IN
  /\ ~Loading /\ connected /\ ids # {}
  /\ markedDelivered' = markedDelivered \cup ids
  /\ up' = Append(up, [kind |-> "delivered", msgs |-> ids])
  /\ Show({{IF b.msg \in ids THEN [b EXCEPT !.status = ResolveStatus(@, "DELIVERED")]
            ELSE b : b \in bubbles}})
  /\ UNCHANGED <<keyVars, pageVars, opening, sendVars, markedSeen, connected, down,
                 serverVars, countVars>>

\* mark_messages_seen; only the ref remembers it.
MarkSeen ==
  LET ids == Unseen \ markedSeen IN
  /\ ~Loading /\ connected /\ ids # {}
  /\ markedSeen' = markedSeen \cup ids
  /\ up' = Append(up, [kind |-> "seen", msgs |-> ids])
  /\ UNCHANGED <<listVars, keyVars, pageVars, opening, sendVars, markedDelivered,
                 connected, down, serverVars, countVars>>
-----------------------------------------------------------------------------
(* The socket *)

\* The connection breaks with the events on their way ...
Lose ==
  /\ connected
  /\ Happens /\ faults < MaxFaults /\ faults' = faults + 1
  /\ connected' = FALSE /\ up' = <<>> /\ down' = <<>>
  /\ replying' = {}
  /\ UNCHANGED <<listVars, keyVars, pageVars, opening, encrypting, pending, sending,
                 refVars, accepted, rowVars, stage, moves>>

\* ... and the context connects again.
Reconnect ==
  /\ ~connected
  /\ connected' = TRUE
  /\ UNCHANGED <<listVars, keyVars, pageVars, opening, sendVars, refVars, up, down,
                 serverVars, countVars>>

\* Emitted to this window, if it is there.
Emit(events) == down' = IF connected THEN down \o events ELSE down

-----------------------------------------------------------------------------
(* The server, as this window sees it *)

\* messageRepository.update of stored messages, whatever their status is by now.
Store(S, st) ==
  LET there == {m \in S : row[m] # "NONE"} IN
  /\ row' = [m \in Msgs |-> IF m \in there THEN st ELSE row[m]]
  /\ wasSeen' = IF st = "SEEN" THEN wasSeen \cup there ELSE wasSeen

\* The gateway handles an event: a message enters the stream, a receipt is
\* published and handled.  One for delivered messages reads their status before it
\* writes it.
HandleUp ==
  /\ up # <<>> /\ up' = Tail(up)
  /\ LET e == Head(up) IN
     \/ /\ e.kind = "send"
        /\ accepted' = accepted \cup e.msgs /\ replying' = replying \cup e.msgs
        /\ UNCHANGED rowVars
     \/ /\ e.kind = "delivered"
        /\ writing' = writing \cup {m \in e.msgs : row[m] = "QUEUED"}
        /\ UNCHANGED <<accepted, replying, row, wasSeen>>
     \/ /\ e.kind = "seen" /\ Store(e.msgs, "SEEN")
        /\ UNCHANGED <<accepted, replying, writing>>
  /\ UNCHANGED <<listVars, keyVars, pageVars, opening, sendVars, refVars, connected,
                 down, stage, countVars>>

\* The event is refused: the socket is not authenticated yet, or Redis fails.
Refuse ==
  /\ up # <<>> /\ up' = Tail(up)
  /\ Happens /\ faults < MaxFaults /\ faults' = faults + 1
  /\ UNCHANGED <<listVars, keyVars, pageVars, opening, sendVars, refVars, connected,
                 down, serverVars, moves>>

\* The gateway answers message_queued.
Reply(m) ==
  /\ m \in replying
  /\ replying' = replying \ {m}
  /\ Emit(<<[kind |-> "queued", msg |-> m]>>)
  /\ UNCHANGED <<listVars, keyVars, pageVars, opening, sendVars, refVars, connected,
                 up, accepted, rowVars, stage, countVars>>

\* The worker saves a message.
Save(m) ==
  /\ row[m] = "NONE" /\ m \in accepted \cup Theirs
  /\ row' = [row EXCEPT ![m] = "QUEUED"]
  /\ UNCHANGED <<listVars, keyVars, pageVars, opening, sendVars, refVars, netVars,
                 accepted, replying, writing, wasSeen, stage, countVars>>

\* The fanout emits it to its recipients ...
Publish(m) ==
  /\ row[m] # "NONE" /\ stage[m] = "sent"
  /\ stage' = [stage EXCEPT ![m] = "out"]
  /\ Emit(IF m \in Theirs THEN <<[kind |-> "new", msg |-> m]>> ELSE <<>>)
  /\ UNCHANGED <<listVars, keyVars, pageVars, opening, sendVars, refVars, connected,
                 up, accepted, replying, rowVars, countVars>>

\* ... reads its status ...
ReadStatus(m) ==
  /\ stage[m] = "out"
  /\ stage' = [stage EXCEPT ![m] = CASE row[m] = "SEEN" -> "done"
                                     [] row[m] = "DELIVERED" -> "stored"
                                     [] OTHER -> "storing"]
  /\ UNCHANGED <<listVars, keyVars, pageVars, opening, sendVars, refVars, netVars,
                 accepted, replying, rowVars, countVars>>

\* ... stores that it is delivered, unless it read that or more ...
StoreDelivered(m) ==
  /\ stage[m] = "storing"
  /\ stage' = [stage EXCEPT ![m] = "stored"]
  /\ Store({m}, "DELIVERED")
  /\ UNCHANGED <<listVars, keyVars, pageVars, opening, sendVars, refVars, netVars,
                 accepted, replying, writing, countVars>>

\* Mutant: the acknowledgement does not wait for the update.
AcknowledgeUnstored(m) ==
  /\ stage[m] \in {"storing", "stored"}
  /\ stage' = [stage EXCEPT ![m] = "done"]
  /\ LET ack == [kind |-> "delivery", msg |-> m, status |-> "DELIVERED",
                 by |-> {"client", "row"}]
     IN  \/ Emit(<<ack>>)
         \/ row[m] = "SEEN" /\ UNCHANGED down
  /\ UNCHANGED <<listVars, keyVars, pageVars, opening, sendVars, refVars, connected,
                 up, accepted, replying, rowVars, countVars>>

\* ... and acknowledges it to its sender, unless handleDeliveryAck reads that it has
\* been seen in the meantime.
Acknowledge(m) ==
  /\ stage[m] = "stored"
  /\ stage' = [stage EXCEPT ![m] = "done"]
  /\ LET ack == [kind |-> "delivery", msg |-> m, status |-> "DELIVERED",
                 by |-> {"client", "row"}]
     IN  \/ Emit(<<ack>>)
         \/ row[m] = "SEEN" /\ UNCHANGED down
  /\ UNCHANGED <<listVars, keyVars, pageVars, opening, sendVars, refVars, connected,
                 up, accepted, replying, rowVars, countVars>>

\* A receipt of the other member, seen or delivered, goes to the sender.
Receipt(m, st) == [kind |-> "delivery", msg |-> m, status |-> st, by |-> {"row"}]

\* The recipient of an own message has it and says so: its status is read ...
PeerDelivered(m) ==
  /\ row[m] = "QUEUED" /\ m \notin writing
  /\ writing' = writing \cup {m}
  /\ UNCHANGED <<listVars, keyVars, pageVars, opening, sendVars, refVars, netVars,
                 accepted, replying, row, wasSeen, stage, countVars>>

\* ... and written, over what has been stored since, unless the second of two reads
\* has seen that.  The sender of the message is told in any case.
WriteDelivered(m) ==
  /\ m \in writing
  /\ writing' = writing \ {m}
  /\ \/ Store({m}, "DELIVERED")
     \/ row[m] # "QUEUED" /\ UNCHANGED <<row, wasSeen>>
  /\ Emit(IF m \in Mine THEN <<Receipt(m, "DELIVERED")>> ELSE <<>>)
  /\ UNCHANGED <<listVars, keyVars, pageVars, opening, sendVars, refVars, connected,
                 up, accepted, replying, stage, countVars>>

\* The recipient of an own message has seen it, and says so.
PeerSeen(m) ==
  /\ row[m] \in {"QUEUED", "DELIVERED"}
  /\ Store({m}, "SEEN")
  /\ Emit(<<Receipt(m, "SEEN")>>)
  /\ UNCHANGED <<listVars, keyVars, pageVars, opening, sendVars, refVars, connected,
                 up, accepted, replying, writing, stage, countVars>>
-----------------------------------------------------------------------------

Window ==
  \/ DecryptKey \/ DecryptPage
  \/ \E m \in Msgs : DecryptNew(m)
  \/ \E m \in Mine : Send(m)
  \/ MarkDelivered \/ MarkSeen
Receive == ReceiveQueued \/ ReceiveDelivery \/ ReceiveNew
Queries == \E c \in Convs : Fetch(c)
User == (\E c \in Convs : Open(c)) \/ RetryKey \/ Refetch \/ \E m \in Mine : Submit(m)
Server ==
  \/ HandleUp
  \/ \E m \in Mine : Reply(m) \/ Save(m) \/ Acknowledge(m)
  \/ \E m \in Msgs : Publish(m) \/ ReadStatus(m) \/ StoreDelivered(m) \/ WriteDelivered(m)
Peers ==
  \/ MayWrite /\ \E m \in Theirs : Save(m)
  \/ \E m \in Mine : PeerDelivered(m) \/ PeerSeen(m)
Faults == Lose \/ Refuse \/ DecryptKeyFails \/ \E c \in Convs : FetchFails(c)

Next ==
  \/ Window \/ Receive \/ Queries \/ User \/ Server \/ Peers \/ Faults
  \/ Reconnect \/ \E m \in Mine : Timeout(m)

Spec == Init /\ [][Next]_vars

\* The event loop of the window, the timers, the network and the server run on:
\* whichever has something to do takes a step.  No user has to act, and nothing has
\* to fail.
Fairness ==
  /\ WF_vars(Window) /\ WF_vars(Receive) /\ WF_vars(\E m \in Mine : Timeout(m))
  /\ \A c \in Convs : WF_vars(Fetch(c))
  /\ WF_vars(Server) /\ WF_vars(Reconnect)

FairSpec == Spec /\ Fairness
-----------------------------------------------------------------------------
(* Properties *)

UpEvent ==
  [kind : {"send"}, msgs : SUBSET Mine] \cup [kind : {"delivered", "seen"}, msgs : SUBSET Theirs]
DownEvent ==
  [kind : {"queued"}, msg : Mine] \cup [kind : {"new"}, msg : Theirs]
    \cup [kind : {"delivery"}, msg : Mine, status : {"DELIVERED", "SEEN"},
          by : {{"row"}, {"client", "row"}}]

Stages == {"draft", "sent", "out", "storing", "stored", "done"}

TypeOK ==
  /\ selected \in Convs \cup {NoConv} /\ key \in Convs \cup {NoConv} /\ keys \subseteq Convs
  /\ keyless \in BOOLEAN
  /\ bubbles \subseteq Bubble /\ shown \subseteq Theirs
  /\ loaded \subseteq Convs /\ fetching \subseteq Convs
  /\ cache \in [Convs -> SUBSET Item]
  /\ page.key \in Convs \cup {NoConv} /\ page.items \subseteq Item
  /\ hydrating \in BOOLEAN /\ history \in BOOLEAN /\ connected \in BOOLEAN
  /\ opening \subseteq Theirs
  /\ encrypting \cup pending \cup sending \cup accepted \cup replying \subseteq Mine
  /\ markedDelivered \cup markedSeen \subseteq Theirs
  /\ up \in Seq(UpEvent) /\ down \in Seq(DownEvent)
  /\ row \in [Msgs -> Stored] /\ writing \subseteq Msgs /\ wasSeen \subseteq Msgs
  /\ stage \in [Msgs -> Stages]

\* A message of another member is in the list at most once, whether it came
\* through the socket, a page, or both in any order; an own message at most twice
\* (as the optimistic entry, and as the row of a page that did not know it).
PeerMessagesOnce ==
  \A m \in Msgs : Cardinality({b \in bubbles : b.msg = m}) <= IF m \in Mine THEN 2 ELSE 1

\* What the list says of an own message is or was so: it is accepted, it is stored as
\* delivered at least, it has been stored as seen (the row may have fallen back to
\* DELIVERED since).  Answers, acknowledgements, receipts and pages race.  An update
\* that fails, after which the event goes out all the same, is in ChatFanout.
StatusIsTrue ==
  \A b \in bubbles : b.msg \in Mine =>
    /\ b.status = "QUEUED" => b.msg \in accepted
    /\ b.status = "DELIVERED" => row[b.msg] \in {"DELIVERED", "SEEN"}
    /\ b.status = "SEEN" => b.msg \in wasSeen

\* A message of another member becomes seen only after this window has displayed
\* it in its own conversation.
SeenOnlyWhenShown ==
  \A m \in Theirs : row[m] = "SEEN" => m \in shown

\* A send is settled, and the composer free again, unless the user leaves the
\* conversation: answered, refused, timed out or failed.
SendSettles ==
  \A m \in Mine :
    (m \in encrypting \cup pending) ~> (sending # {m} \/ selected # ConvOf[m])

\* Hydration was cancelled and not begun again: the flag stays.
Abandoned == hydrating /\ page = NoPage

\* Whatever the user opens, the window does not load for ever, unless hydration was
\* abandoned, or the key could not be decrypted and nothing makes the effect run again.
LoadsAtLast == []<>(selected = NoConv \/ ~Loading \/ Abandoned \/ keyless)

\* A message of another member that is displayed in its conversation is stored as
\* seen at last (a slower DELIVERED may be written over it), unless the user leaves,
\* hydration was abandoned, or a connection, a call or a decryption failed.
ReceiptsArrive ==
  \A m \in Theirs :
    (\E b \in Others : b.msg = m)
      ~> (m \in wasSeen \/ selected # ConvOf[m] \/ Abandoned \/ faults > 0)

=============================================================================
