----------------------------- MODULE ChatFanout -----------------------------
(***************************************************************************)
(* The live half of message delivery.  Every application instance          *)
(* subscribes to the Redis channels of the chat and handles each event on  *)
(* its own: it emits new messages, counts them as unread, moves the stored *)
(* status of a message from QUEUED to DELIVERED and SEEN, tells the sender, *)
(* and resets the unread counts.                                           *)
(*                                                                         *)
(* A subscriber does not wait for a handler to finish, so the handlers of  *)
(* all events interleave at every await; a handler in progress is a task.  *)
(* PUBLISH reaches the instances subscribed at that moment and is kept for *)
(* nobody else.                                                            *)
(***************************************************************************)
EXTENDS Integers, Sequences, FiniteSets

CONSTANTS
  Instances,   \* application instances
  Users, Convs,
  Msgs,        \* messages the worker will save, one row each
  ConvOf, SenderOf, RecipientOf,
  Nowhere,     \* the place of a user without a socket
  NoConv,      \* the active conversation of a socket that has none
  Placements,  \* where the users are, and what they view, at first
  Marking,     \* bound: the kinds of receipts sent, and by whom
  MaxReceipts, \* bound: delivered and seen receipts sent
  Movers,      \* bound: the users who connect, disconnect, open and close
  MaxMoves,    \* bound: connects, disconnects, opened and closed conversations
  MaxFaults    \* bound: failed Redis or Postgres calls, and instance crashes

ASSUME MsgsAssumption ==
  /\ ConvOf \in [Msgs -> Convs]
  /\ SenderOf \in [Msgs -> Users]
  /\ RecipientOf \in [Msgs -> Users]
  /\ \A m \in Msgs : SenderOf[m] # RecipientOf[m]
ASSUME NamesAssumption == Nowhere \notin Instances /\ NoConv \notin Convs
ASSUME PlacementsAssumption ==
  \A p \in Placements :
    /\ p.at \in [Users -> Instances \cup {Nowhere}]
    /\ p.viewing \in [Users -> Convs \cup {NoConv}]
    /\ \A u \in Users : p.at[u] = Nowhere => p.viewing[u] = NoConv

VARIABLES
  status,    \* status column of each message; NONE before the insert
  unread,    \* unreadCount column of each conversation member
  up,        \* instances that are running, and subscribed
  inbox,     \* events Redis has sent to each instance, not yet handled
  tasks,     \* handlers in progress
  at,        \* the instance each user's socket is connected to
  viewing,   \* ChatActivityService: the active conversation of that socket
  published, \* messages the worker published on chat:outbound
  receipts,  \* receipts the clients have sent
  got,       \* messages emitted to their recipient
  told,      \* statuses emitted to the sender of each message
  badge,     \* the unread counts each user's client shows
  putting,   \* mark-as-read requests on their way
  away,      \* <<user, conversation>> pairs not viewed all the time
  moves, faults

dbVars == <<status, unread>>
busVars == <<up, inbox>>
clientVars == <<got, told, badge>>
placeVars == <<at, viewing, putting, away, moves>>
sentVars == <<published, receipts>>
vars == <<status, unread, up, inbox, tasks, at, viewing, published, receipts,
          got, told, badge, putting, away, moves, faults>>

Status == {"NONE", "QUEUED", "DELIVERED", "SEEN"}

Receipt == [kind : {"delivered", "seen"}, by : Users, msgs : SUBSET Msgs \ {{}}]
Event ==
  [kind : {"outbound"}, msg : Msgs]
    \cup [kind : {"ack"}, msg : Msgs, from : Instances]
    \cup [kind : {"unread"}, user : Users, conv : Convs, count : Nat]
    \cup Receipt

Saved == {m \in Msgs : status[m] # "NONE"}

\* isUserViewingConversation on instance i: the map holds the sockets of i only.
IsViewing(i, u, c) == at[u] = i /\ viewing[u] = c

\* PUBLISH: a copy for every instance that is subscribed.
Publish(e) ==
  inbox' = [i \in Instances |-> IF i \in up THEN Append(inbox[i], e) ELSE inbox[i]]

\* emitToUser of message_delivery for the messages S on instance i.
Tell(i, S, st) ==
  told' = [m \in Msgs |->
             told[m] \cup {s \in {st} : m \in S /\ at[SenderOf[m]] = i}]

Init ==
  /\ status = [m \in Msgs |-> "NONE"]
  /\ unread = [c \in Convs |-> [u \in Users |-> 0]]
  /\ up = Instances
  /\ inbox = [i \in Instances |-> <<>>]
  /\ tasks = {}
  /\ \E p \in Placements : at = p.at /\ viewing = p.viewing
  /\ published = {} /\ receipts = {} /\ got = {}
  /\ told = [m \in Msgs |-> {}]
  /\ badge = unread
  /\ putting = {}
  /\ away = {uc \in Users \X Convs : viewing[uc[1]] # uc[2]}
  /\ moves = 0 /\ faults = 0
-----------------------------------------------------------------------------
(* The worker, as this half sees it *)

\* The worker inserts the row with status QUEUED ...
SaveMessage(m) ==
  /\ status[m] = "NONE"
  /\ status' = [status EXCEPT ![m] = "QUEUED"]
  /\ UNCHANGED <<unread, busVars, tasks, placeVars, sentVars, clientVars, faults>>

\* ... and then publishes it, in a later step.
PublishOutbound(m) ==
  /\ m \in Saved \ published
  /\ published' = published \cup {m}
  /\ Publish([kind |-> "outbound", msg |-> m])
  /\ UNCHANGED <<dbVars, up, tasks, placeVars, receipts, clientVars, faults>>

-----------------------------------------------------------------------------
(* Tasks *)

\* A handler of event e on instance i: where it is, the message and the
\* conversation in hand, what is left to do, and the values it has read.
Task(i, e, l) ==
  [inst |-> i, ev |-> e, loc |-> l,
   cur |-> IF e.kind \in {"outbound", "ack"} THEN {e.msg} ELSE {},
   todo |-> {}, fresh |-> {}, convs |-> {}, count |-> 0]

Begin(i, t) ==
  /\ inbox' = [inbox EXCEPT ![i] = Tail(@)]
  /\ tasks' = tasks \cup {t}

Become(t, next) == tasks' = (tasks \ {t}) \cup {next}
Go(t, l) == Become(t, [t EXCEPT !.loc = l])
Return(t) == tasks' = tasks \ {t}

\* The next event of the subscriber connection of i is of this kind.
Receives(i, kind) == i \in up /\ inbox[i] # <<>> /\ Head(inbox[i]).kind = kind

-----------------------------------------------------------------------------
(* handleOutboundMessage *)

\* Up to the first await: emit new_message, and skip the unread count for a
\* recipient who views the conversation through this instance.
HandleOutbound(i) ==
  /\ Receives(i, "outbound")
  /\ LET e == Head(inbox[i])
         m == e.msg
         u == RecipientOf[m]
     IN  /\ got' = got \cup {n \in {m} : at[u] = i}
         /\ Begin(i, Task(i, e, IF IsViewing(i, u, ConvOf[m])
                                THEN "read" ELSE "increment"))
  /\ UNCHANGED <<dbVars, up, placeVars, sentVars, told, badge, faults>>

\* Mutant: the count is read first.
IncrementLast(t) ==
  /\ t.loc = "increment"
  /\ unread' = [unread EXCEPT ![ConvOf[t.ev.msg]][RecipientOf[t.ev.msg]] = @ + 1]
  /\ Become(t, [t EXCEPT !.loc = "announce",
                         !.count = unread[ConvOf[t.ev.msg]][RecipientOf[t.ev.msg]]])
  /\ UNCHANGED <<status, busVars, placeVars, sentVars, clientVars, faults>>

\* Mutant: the new count is computed from the one the handler knows.
IncrementStale(t) ==
  /\ t.loc = "increment"
  /\ unread' = [unread EXCEPT ![ConvOf[t.ev.msg]][RecipientOf[t.ev.msg]] = t.count + 1]
  /\ Go(t, "count")
  /\ UNCHANGED <<status, busVars, placeVars, sentVars, clientVars, faults>>

\* incrementUnreadCount: one atomic UPDATE.
Increment(t) ==
  /\ t.loc = "increment"
  /\ unread' = [unread EXCEPT ![ConvOf[t.ev.msg]][RecipientOf[t.ev.msg]] = @ + 1]
  /\ Go(t, "count")
  /\ UNCHANGED <<status, busVars, placeVars, sentVars, clientVars, faults>>

\* getUnreadCount
ReadCount(t) ==
  /\ t.loc = "count"
  /\ Become(t, [t EXCEPT !.loc = "announce",
                         !.count = unread[ConvOf[t.ev.msg]][RecipientOf[t.ev.msg]]])
  /\ UNCHANGED <<dbVars, busVars, placeVars, sentVars, clientVars, faults>>

\* The new count is published; then the status is persisted.
AnnounceCount(t) ==
  /\ t.loc = "announce"
  /\ Publish([kind |-> "unread", user |-> RecipientOf[t.ev.msg],
              conv |-> ConvOf[t.ev.msg], count |-> t.count])
  /\ Go(t, "read")
  /\ UNCHANGED <<dbVars, up, placeVars, sentVars, clientVars, faults>>

\* The delivery acknowledgement is published, whoever got the message.
PublishAck(t) ==
  /\ t.loc = "ack"
  /\ Publish([kind |-> "ack", msg |-> t.ev.msg, from |-> t.inst])
  /\ Return(t)
  /\ UNCHANGED <<dbVars, up, placeVars, sentVars, clientVars, faults>>

\* handleUnreadCountUpdate: the recipient's client shows the count it is sent.
HandleUnread(i) ==
  /\ Receives(i, "unread")
  /\ inbox' = [inbox EXCEPT ![i] = Tail(@)]
  /\ LET e == Head(inbox[i]) IN
       badge' = IF at[e.user] = i
                THEN [badge EXCEPT ![e.conv][e.user] = e.count] ELSE badge
  /\ UNCHANGED <<dbVars, up, tasks, placeVars, sentVars, got, told, faults>>

-----------------------------------------------------------------------------
(* The other handlers up to their first await *)

HandleAck(i) ==
  /\ Receives(i, "ack")
  /\ Begin(i, Task(i, Head(inbox[i]), "read"))
  /\ UNCHANGED <<dbVars, up, placeVars, sentVars, clientVars, faults>>

HandleReceipt(i) ==
  /\ Receives(i, "delivered") \/ Receives(i, "seen")
  /\ Begin(i, Task(i, Head(inbox[i]), "find"))
  /\ UNCHANGED <<dbVars, up, placeVars, sentVars, clientVars, faults>>

-----------------------------------------------------------------------------
(* Persisting a status, and what follows it *)

Wanted(t) == IF t.ev.kind = "seen" THEN "SEEN" ELSE "DELIVERED"

\* The loop of a receipt handler: the messages told are those done so far and
\* those the snapshot shows as needing no update, up to the next one (if any)
\* whose status must be persisted.  The database lists them in any order.
Proceed(t, s, told1) ==
  \E K \in SUBSET (s.todo \ s.fresh) :
    /\ Tell(t.inst, told1 \cup K, Wanted(t))
    /\ \/ \E m \in s.todo \cap s.fresh :
            Become(t, [s EXCEPT !.loc = "read", !.cur = {m},
                                !.todo = @ \ (K \cup {m})])
       \/ /\ K = s.todo
          /\ IF s.convs = {} THEN Return(t) ELSE Become(t, [s EXCEPT !.loc = "reset"])

\* What a handler does after persistMessageStatus, given its result.
AfterPersist(t, result) ==
  \/ /\ t.ev.kind = "outbound"
     /\ IF result = "SEEN" THEN Return(t) ELSE Go(t, "ack")
     /\ UNCHANGED told
  \/ /\ t.ev.kind = "ack"
     /\ Return(t)
     /\ IF result = "SEEN" THEN UNCHANGED told ELSE Tell(t.inst, t.cur, "DELIVERED")
  \/ /\ t.ev.kind \in {"delivered", "seen"}
     /\ Proceed(t, t, t.cur)

Current(t) == CHOOSE m \in t.cur : TRUE

\* Mutant: the status is never written.
ReadStatusOnly(t) ==
  /\ t.loc = "read"
  /\ AfterPersist(t, status[Current(t)])
  /\ UNCHANGED <<dbVars, busVars, placeVars, sentVars, got, badge, faults>>

\* The findOneBy of persistMessageStatus.  A message already seen, or already
\* in the wanted status, is not updated.
ReadStatus(t) ==
  /\ t.loc = "read"
  /\ IF status[Current(t)] \in {"SEEN", Wanted(t)}
     THEN AfterPersist(t, status[Current(t)])
     ELSE Go(t, "write") /\ UNCHANGED told
  /\ UNCHANGED <<dbVars, busVars, placeVars, sentVars, got, badge, faults>>

\* The update of persistMessageStatus, whatever the status is by now.
WriteStatus(t) ==
  /\ t.loc = "write"
  /\ status' = [status EXCEPT ![Current(t)] = Wanted(t)]
  /\ AfterPersist(t, Wanted(t))
  /\ UNCHANGED <<unread, busVars, placeVars, sentVars, got, badge, faults>>

\* Mutant: the sender's own receipts count.
FindOwnToo(t) ==
  LET found == t.ev.msgs \cap Saved
      behind == {m \in found : status[m] # "SEEN"}
      start == [t EXCEPT !.fresh = behind, !.todo = found,
                         !.convs = {ConvOf[m] : m \in found}]
  IN
  /\ t.loc = "find"
  /\ Proceed(t, start, {})
  /\ UNCHANGED <<dbVars, busVars, placeVars, sentVars, got, badge, faults>>

\* Mutant: the sender is told only of messages whose status changes.
FindOnlyChanged(t) ==
  LET found == t.ev.msgs \cap Saved
      behind == {m \in found : SenderOf[m] # t.ev.by /\ status[m] # "SEEN"}
      start == [t EXCEPT !.fresh = behind, !.todo = behind,
                         !.convs = IF t.ev.kind = "seen"
                                   THEN {ConvOf[m] : m \in found} ELSE {}]
  IN
  /\ t.loc = "find"
  /\ Proceed(t, start, {})
  /\ UNCHANGED <<dbVars, busVars, placeVars, sentVars, got, badge, faults>>

\* findBy: the snapshot a receipt handler works from.  The messages of the
\* user who sent the receipt are skipped.
Find(t) ==
  LET found == t.ev.msgs \cap Saved
      others == {m \in found : SenderOf[m] # t.ev.by}
      behind == IF t.ev.kind = "seen" THEN {m \in others : status[m] # "SEEN"}
                ELSE {m \in others : status[m] = "QUEUED"}
      start == [t EXCEPT !.fresh = behind,
                         !.todo = IF t.ev.kind = "seen" THEN others ELSE behind,
                         !.convs = IF t.ev.kind = "seen"
                                   THEN {ConvOf[m] : m \in found} ELSE {}]
  IN
  /\ t.loc = "find"
  /\ Proceed(t, start, {})
  /\ UNCHANGED <<dbVars, busVars, placeVars, sentVars, got, badge, faults>>

\* resetUnreadCount for one of the conversations ...
Reset(t) ==
  /\ t.loc = "reset"
  /\ \E c \in t.convs :
       /\ unread' = [unread EXCEPT ![c][t.ev.by] = 0]
       /\ Become(t, [t EXCEPT !.loc = "zero", !.cur = {c}, !.convs = @ \ {c}])
  /\ UNCHANGED <<status, busVars, placeVars, sentVars, clientVars, faults>>

\* ... and the count 0 is published.
AnnounceZero(t) ==
  /\ t.loc = "zero"
  /\ \E c \in t.cur :
       Publish([kind |-> "unread", user |-> t.ev.by, conv |-> c, count |-> 0])
  /\ IF t.convs = {} THEN Return(t) ELSE Go(t, "reset")
  /\ UNCHANGED <<dbVars, up, placeVars, sentVars, clientVars, faults>>

-----------------------------------------------------------------------------
(* Failures *)

\* A failed call ends the handler, which catches and logs, except inside
\* persistMessageStatus, which catches by itself and returns null.
CallFails(t) ==
  /\ faults < MaxFaults
  /\ faults' = faults + 1
  /\ \/ t.loc \in {"read", "write"} /\ AfterPersist(t, "NONE")
     \/ t.loc \notin {"read", "write"} /\ Return(t) /\ UNCHANGED told
  /\ UNCHANGED <<dbVars, busVars, placeVars, sentVars, got, badge>>

\* An instance dies with its handlers, its subscription and its sockets ...
Crash(i) ==
  /\ i \in up
  /\ faults < MaxFaults
  /\ faults' = faults + 1
  /\ up' = up \ {i}
  /\ inbox' = [inbox EXCEPT ![i] = <<>>]
  /\ tasks' = {t \in tasks : t.inst # i}
  /\ at' = [u \in Users |-> IF at[u] = i THEN Nowhere ELSE at[u]]
  /\ viewing' = [u \in Users |-> IF at[u] = i THEN NoConv ELSE viewing[u]]
  /\ away' = away \cup {uc \in Users \X Convs : at[uc[1]] = i}
  /\ UNCHANGED <<dbVars, sentVars, clientVars, putting, moves>>

\* ... and subscribes again when it is restarted.
Restart(i) ==
  /\ i \notin up
  /\ up' = up \cup {i}
  /\ UNCHANGED <<dbVars, inbox, tasks, placeVars, sentVars, clientVars, faults>>

-----------------------------------------------------------------------------
(* The clients *)

Moves == moves < MaxMoves /\ moves' = moves + 1

\* A socket is accepted: no conversation is active, and the client fetches the
\* unread counts.
Connect(u, i) ==
  /\ Moves
  /\ at[u] = Nowhere /\ i \in up
  /\ at' = [at EXCEPT ![u] = i]
  /\ badge' = [c \in Convs |-> [badge[c] EXCEPT ![u] = unread[c][u]]]
  /\ UNCHANGED <<dbVars, busVars, tasks, viewing, putting, away, sentVars, got,
                 told, faults>>

Disconnect(u) ==
  /\ Moves
  /\ at[u] # Nowhere
  /\ at' = [at EXCEPT ![u] = Nowhere]
  /\ viewing' = [viewing EXCEPT ![u] = NoConv]
  /\ away' = away \cup ({u} \X Convs)
  /\ UNCHANGED <<dbVars, busVars, tasks, putting, sentVars, clientVars, faults>>

\* set_active_conversation with another conversation; the client shows no
\* unread messages in it and sends mark-as-read.
OpenConversation(u, c) ==
  /\ Moves
  /\ at[u] # Nowhere /\ viewing[u] # c
  /\ viewing' = [viewing EXCEPT ![u] = c]
  /\ away' = away \cup {uc \in {u} \X Convs : uc[2] # c}
  /\ badge' = [badge EXCEPT ![c][u] = 0]
  /\ putting' = putting \cup {<<u, c>>}
  /\ UNCHANGED <<dbVars, busVars, tasks, at, sentVars, got, told, faults>>

\* set_active_conversation with null.
CloseConversation(u) ==
  /\ Moves
  /\ viewing[u] # NoConv
  /\ viewing' = [viewing EXCEPT ![u] = NoConv]
  /\ away' = away \cup ({u} \X Convs)
  /\ UNCHANGED <<dbVars, busVars, tasks, at, putting, sentVars, clientVars, faults>>

\* markConversationAsRead: resets the count and publishes nothing.
MarkAsRead(u, c) ==
  /\ <<u, c>> \in putting
  /\ putting' = putting \ {<<u, c>>}
  /\ unread' = [unread EXCEPT ![c][u] = 0]
  /\ UNCHANGED <<status, busVars, tasks, at, viewing, away, moves, sentVars,
                 clientVars, faults>>

\* mark_messages_delivered and mark_messages_seen: the receipt is published.
\* Clients name saved messages: those of another user, their own, or messages of
\* a conversation they do not belong to; nothing checks the membership.
SendReceipt(r) ==
  /\ Cardinality(receipts) < MaxReceipts
  /\ <<r.kind, r.by>> \in Marking
  /\ r \notin receipts /\ r.msgs \subseteq Saved /\ at[r.by] # Nowhere
  /\ receipts' = receipts \cup {r}
  /\ Publish(r)
  /\ UNCHANGED <<dbVars, up, tasks, placeVars, published, clientVars, faults>>

-----------------------------------------------------------------------------

Worker == \E m \in Msgs : SaveMessage(m) \/ PublishOutbound(m)
Receive(i) ==
  HandleOutbound(i) \/ HandleUnread(i) \/ HandleAck(i) \/ HandleReceipt(i)
StepTask(t) ==
  \/ Increment(t) \/ ReadCount(t) \/ AnnounceCount(t) \/ PublishAck(t)
  \/ ReadStatus(t) \/ WriteStatus(t)
  \/ Find(t) \/ Reset(t) \/ AnnounceZero(t)
Client(u) ==
  \/ /\ u \in Movers
     /\ \/ \E i \in Instances : Connect(u, i)
        \/ Disconnect(u) \/ CloseConversation(u)
        \/ \E c \in Convs : OpenConversation(u, c)
  \/ \E c \in Convs : MarkAsRead(u, c)

Next ==
  \/ Worker
  \/ \E i \in Instances : Receive(i) \/ Crash(i) \/ Restart(i)
  \/ \E t \in tasks : StepTask(t) \/ CallFails(t)
  \/ \E u \in Users : Client(u)
  \/ \E r \in Receipt : SendReceipt(r)

Spec == Init /\ [][Next]_vars

\* The event loops run on: the worker, every subscriber and every handler take
\* their next step, and requests arrive.  No client has to act.
Fairness ==
  /\ WF_vars(Worker)
  /\ \A i \in Instances : WF_vars(Receive(i))
  /\ WF_vars(\E t \in tasks : StepTask(t))
  /\ WF_vars(\E u \in Users, c \in Convs : MarkAsRead(u, c))

FairSpec == Spec /\ Fairness

-----------------------------------------------------------------------------
(* Properties *)

Locs == {"increment", "count", "announce", "read", "write", "ack", "find", "reset", "zero"}
Handler ==
  [inst : up, ev : Event, loc : Locs, cur : SUBSET (Msgs \cup Convs), todo : SUBSET Msgs,
   fresh : SUBSET Msgs, convs : SUBSET Convs, count : Nat]

TypeOK ==
  /\ status \in [Msgs -> Status]
  /\ unread \in [Convs -> [Users -> Nat]]
  /\ up \subseteq Instances
  /\ inbox \in [Instances -> Seq(Event)]
  /\ tasks \subseteq Handler
  /\ at \in [Users -> Instances \cup {Nowhere}]
  /\ viewing \in [Users -> Convs \cup {NoConv}]
  /\ published \subseteq Saved /\ receipts \subseteq Receipt /\ got \subseteq Msgs
  /\ told \in [Msgs -> SUBSET Status]
  /\ badge \in [Convs -> [Users -> Nat]]

\* Somebody other than its sender has marked the message as seen.
MarkedSeen(m) ==
  \E r \in receipts : r.kind = "seen" /\ r.by # SenderOf[m] /\ m \in r.msgs

\* A message counts as seen, and its sender is told so, only when somebody else
\* marked it: not through the sender's own receipts, not through a delivery.  The
\* handlers ask no more: whoever names the message counts, a member or not.
SeenOnlyByOthers ==
  \A m \in Msgs : (status[m] = "SEEN" \/ "SEEN" \in told[m]) => MarkedSeen(m)

\* Somebody other than its sender has named the message in a receipt of delivery.
MarkedDelivered(m) ==
  \E r \in receipts : r.kind = "delivered" /\ r.by # SenderOf[m] /\ m \in r.msgs

\* However handlers interleave, repeat and fail on all instances: a status is stored
\* only on the grounds LiveDelivery names, and a sender is told of nothing else, and of
\* nothing that was not stored unless a call has failed.
Promise == INSTANCE LiveDelivery WITH
  Messages <- Msgs,
  received <- {m \in Msgs : MarkedDelivered(m)},
  marked <- {m \in Msgs : MarkedSeen(m)},
  failed <- faults > 0
ImplementsLiveDelivery == Promise!Spec

\* Nothing takes a message back to QUEUED once it was delivered or seen.
NeverRequeued ==
  [][\A m \in Msgs : status'[m] \in {"NONE", "QUEUED"} =>
       status[m] \in {"NONE", "QUEUED"}]_vars

\* Messages published for a user in a conversation.
PublishedFor(c, u) == {m \in published : ConvOf[m] = c /\ RecipientOf[m] = u}

\* Nothing is on its way and no handler is at work.
Quiet ==
  /\ \A i \in Instances : inbox[i] = <<>>
  /\ tasks = {} /\ putting = {}

\* No call failed and no instance died: every handler ran to its end.
Unharmed == faults = 0

\* The member may have read messages of the conversation.
HasRead(c, u) ==
  \/ \E r \in receipts : r.kind = "seen" /\ r.by = u /\ \E m \in r.msgs : ConvOf[m] = c
  \/ <<u, c>> \notin away \/ viewing[u] = c \/ moves > 0

\* A member who never opened the conversation and marked nothing has an unread
\* count of exactly the messages published for them.
UnreadIsExact ==
  Quiet /\ Unharmed => \A c \in Convs, u \in Users :
    HasRead(c, u) \/ unread[c][u] = Cardinality(PublishedFor(c, u))

\* A message stays seen.
SeenStaysSeen ==
  [][\A m \in Msgs : status[m] = "SEEN" => status'[m] = "SEEN"]_vars

\* A connected client that has read nothing shows the stored count, as long as
\* one message was published for it: the counts of two messages may arrive in
\* the wrong order.
BadgeAgrees ==
  Quiet /\ Unharmed =>
    \A c \in Convs, u \in Users :
      (at[u] # Nowhere /\ Cardinality(PublishedFor(c, u)) <= 1) =>
        HasRead(c, u) \/ badge[c][u] = unread[c][u]

\* A connected sender eventually hears that somebody has marked the message as
\* seen, through whichever instances the two are connected.
SenderLearnsSeen ==
  \A m \in Msgs :
    (MarkedSeen(m) /\ at[SenderOf[m]] # Nowhere) ~>
      ("SEEN" \in told[m] \/ at[SenderOf[m]] = Nowhere)

\* A published message eventually leaves QUEUED, and reaches the socket of its
\* recipient if it stays open, on whichever instance the worker ran.
PublishedIsDelivered ==
  \A m \in Msgs :
    /\ (m \in published) ~> (status[m] # "QUEUED")
    /\ (m \in published /\ at[RecipientOf[m]] # Nowhere) ~>
         (m \in got \/ at[RecipientOf[m]] = Nowhere)
=============================================================================
