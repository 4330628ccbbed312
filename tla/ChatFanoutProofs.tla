-------------------------- MODULE ChatFanoutProofs --------------------------
(***************************************************************************)
(* Proofs about ChatFanout, for any instances, users, conversations and    *)
(* messages, and any numbers of receipts, moves and faults.                *)
(***************************************************************************)
EXTENDS ChatFanout, TLAPS, FiniteSetTheorems

-----------------------------------------------------------------------------
(* The inductive invariant *)

\* A seen event on its way is a receipt that was sent.
InboxSound ==
  \A i \in Instances : \A n \in DOMAIN inbox[i] :
    inbox[i][n].kind = "seen" => inbox[i][n] \in receipts

\* The messages of a receipt that its user has not sent.
Others(r) == {m \in r.msgs : SenderOf[m] # r.by}

\* A handler works on what its event names: on the path of a seen receipt, only on
\* messages that the user of the receipt has not sent.
TaskSound(t) ==
  /\ t.ev.kind # "unread"
  /\ t.loc \in {"increment", "count", "announce", "ack"} => t.ev.kind = "outbound"
  /\ t.loc \in {"find", "reset", "zero"} => t.ev.kind \in {"delivered", "seen"}
  /\ t.loc \in {"increment", "count", "announce", "read", "write"} =>
       t.cur # {} /\ t.cur \subseteq Msgs
  /\ t.loc = "zero" => t.cur \subseteq Convs
  /\ t.ev.kind = "seen" =>
       /\ t.ev \in receipts
       /\ t.todo \subseteq Others(t.ev)
       /\ t.loc \in {"read", "write"} => t.cur \subseteq Others(t.ev)

IInv ==
  /\ TypeOK
  /\ InboxSound
  /\ \A t \in tasks : TaskSound(t)
  /\ SeenOnlyByOthers

-----------------------------------------------------------------------------
(* Lemmas *)

\* What an event of each kind carries.
LEMMA EventKinds ==
  ASSUME NEW e \in Event
  PROVE  /\ e.kind \in {"outbound", "ack", "unread", "delivered", "seen"}
         /\ e.kind \in {"outbound", "ack"} => e.msg \in Msgs
         /\ e.kind = "unread" => e.user \in Users /\ e.conv \in Convs /\ e.count \in Nat
         /\ e.kind \in {"delivered", "seen"} =>
              e \in Receipt /\ e.by \in Users /\ e.msgs \subseteq Msgs
BY DEF Event, Receipt

\* A seen receipt marks the messages its user has not sent.
LEMMA OthersMarked ==
  ASSUME NEW r \in receipts, r.kind = "seen", NEW m \in Others(r)
  PROVE  MarkedSeen(m)
BY DEF Others, MarkedSeen

\* A message handed to every inbox.
LEMMA PublishSound ==
  ASSUME TypeOK, NEW e \in Event, Publish(e),
         e.kind = "seen" => e \in receipts', receipts \subseteq receipts', InboxSound
  PROVE  inbox' \in [Instances -> Seq(Event)] /\ InboxSound'
<1>1. inbox' \in [Instances -> Seq(Event)]
  BY DEF TypeOK, Publish
<1>2. ASSUME NEW i \in Instances, NEW n \in DOMAIN inbox'[i], inbox'[i][n].kind = "seen"
      PROVE  inbox'[i][n] \in receipts'
  <2>1. inbox[i] \in Seq(Event)
    BY DEF TypeOK
  <2>2. inbox'[i] = inbox[i] \/ inbox'[i] = Append(inbox[i], e)
    BY DEF Publish
  <2>3. \/ n \in DOMAIN inbox[i] /\ inbox'[i][n] = inbox[i][n]
        \/ inbox'[i][n] = e
    BY <2>1, <2>2
  <2> QED
    BY <1>2, <2>3 DEF InboxSound
<1> QED
  BY <1>1, <1>2 DEF InboxSound

\* An event is taken from an inbox.
LEMMA TakeSound ==
  ASSUME TypeOK, InboxSound, NEW i \in Instances, inbox[i] # <<>>,
         inbox' = [inbox EXCEPT ![i] = Tail(@)], receipts' = receipts
  PROVE  /\ inbox' \in [Instances -> Seq(Event)] /\ InboxSound'
         /\ Head(inbox[i]) \in Event
         /\ Head(inbox[i]).kind = "seen" => Head(inbox[i]) \in receipts
<1>1. inbox[i] \in Seq(Event) /\ Len(inbox[i]) > 0 /\ Tail(inbox[i]) \in Seq(Event)
  BY DEF TypeOK
<1>2. Head(inbox[i]) = inbox[i][1] /\ 1 \in DOMAIN inbox[i] /\ Head(inbox[i]) \in Event
  BY <1>1
<1>3. \A n \in DOMAIN Tail(inbox[i]) :
        n + 1 \in DOMAIN inbox[i] /\ Tail(inbox[i])[n] = inbox[i][n + 1]
  BY <1>1
<1>4. inbox' \in [Instances -> Seq(Event)]
  BY <1>1 DEF TypeOK
<1>5. ASSUME NEW j \in Instances, NEW n \in DOMAIN inbox'[j], inbox'[j][n].kind = "seen"
      PROVE  inbox'[j][n] \in receipts'
  <2>1. CASE j = i
    BY <1>3, <1>5, <2>1 DEF TypeOK, InboxSound
  <2>2. CASE j # i
    BY <1>5, <2>2 DEF TypeOK, InboxSound
  <2> QED
    BY <2>1, <2>2
<1> QED
  BY <1>2, <1>4, <1>5 DEF InboxSound

-----------------------------------------------------------------------------
(* Handlers *)

\* A step of a handler leaves sound handlers, and tells of "SEEN" only what was marked.
TasksGood ==
  \A x \in tasks' : x \in tasks \/ (x \in Handler /\ TaskSound(x))
ToldGood ==
  /\ told' \in [Msgs -> SUBSET Status]
  /\ \A m \in Msgs : "SEEN" \in told'[m] => "SEEN" \in told[m] \/ MarkedSeen(m)

\* A handler goes on at another place.
LEMMA GoSound ==
  ASSUME IInv, NEW t \in tasks, NEW l \in Locs, Go(t, l),
         l \in {"increment", "count", "announce", "ack"} => t.ev.kind = "outbound",
         l \notin {"find", "zero"},
         l = "reset" => t.ev.kind \in {"delivered", "seen"},
         l \in {"increment", "count", "announce", "read", "write"} =>
           t.cur # {} /\ t.cur \subseteq Msgs,
         l \in {"read", "write"} /\ t.ev.kind = "seen" => t.cur \subseteq Others(t.ev)
  PROVE  TasksGood
<1>1. t \in Handler /\ TaskSound(t)
  BY DEF IInv, TypeOK
<1> DEFINE n == [t EXCEPT !.loc = l]
<1>2. /\ n \in Handler /\ n.loc = l /\ n.ev = t.ev /\ n.cur = t.cur /\ n.todo = t.todo
  BY <1>1 DEF Handler
<1>3. TaskSound(n)
  BY <1>1, <1>2 DEF TaskSound
<1> QED
  BY <1>2, <1>3 DEF Go, Become, TasksGood

\* Messages are told a status other than "SEEN", or one they are marked with.
LEMMA TellSound ==
  ASSUME TypeOK, NEW i, NEW S \in SUBSET Msgs, NEW st \in Status, Tell(i, S, st),
         st = "SEEN" => \A m \in S : MarkedSeen(m)
  PROVE  ToldGood
BY DEF Tell, TypeOK, ToldGood

\* The loop of a receipt handler.
LEMMA ProceedSound ==
  ASSUME IInv, NEW t \in tasks, t.ev.kind \in {"delivered", "seen"},
         NEW s \in Handler, s.ev = t.ev, s.inst = t.inst,
         NEW T \in SUBSET Msgs,
         t.ev.kind = "seen" => s.todo \cup T \subseteq Others(t.ev),
         Proceed(t, s, T)
  PROVE  TasksGood /\ ToldGood
<1>1. /\ t \in Handler /\ TaskSound(t)
      /\ t.ev.kind = "seen" => t.ev \in receipts
  BY DEF IInv, TypeOK, TaskSound
<1>2. PICK K \in SUBSET (s.todo \ s.fresh) :
        /\ Tell(t.inst, T \cup K, Wanted(t))
        /\ \/ \E m \in s.todo \cap s.fresh :
                Become(t, [s EXCEPT !.loc = "read", !.cur = {m}, !.todo = @ \ (K \cup {m})])
           \/ IF s.convs = {} THEN Return(t) ELSE Become(t, [s EXCEPT !.loc = "reset"])
  BY DEF Proceed
<1>3. s.todo \subseteq Msgs /\ T \cup K \in SUBSET Msgs
  BY DEF Handler
<1>4. ToldGood
  <2>1. Wanted(t) \in Status /\ (Wanted(t) = "SEEN" => t.ev.kind = "seen")
    BY DEF Wanted, Status
  <2>2. Wanted(t) = "SEEN" => \A m \in T \cup K : MarkedSeen(m)
    BY <1>1, <2>1, OthersMarked DEF IInv, TaskSound
  <2> QED
    BY <1>2, <1>3, <2>1, <2>2, TellSound DEF IInv
<1>5. TasksGood
  <2>1. ASSUME NEW m \in s.todo \cap s.fresh
        PROVE  LET n == [s EXCEPT !.loc = "read", !.cur = {m}, !.todo = @ \ (K \cup {m})]
               IN  n \in Handler /\ TaskSound(n)
    <3> DEFINE n == [s EXCEPT !.loc = "read", !.cur = {m}, !.todo = @ \ (K \cup {m})]
    <3>1. /\ n \in Handler /\ n.loc = "read" /\ n.cur = {m} /\ n.ev = t.ev
          /\ n.todo = s.todo \ (K \cup {m})
      BY <1>3 DEF Handler, Locs
    <3>2. TaskSound(n)
      BY <1>1, <1>3, <3>1 DEF TaskSound
    <3> QED
      BY <3>1, <3>2
  <2>2. LET n == [s EXCEPT !.loc = "reset"] IN n \in Handler /\ TaskSound(n)
    <3> DEFINE n == [s EXCEPT !.loc = "reset"]
    <3>1. n \in Handler /\ n.loc = "reset" /\ n.ev = t.ev /\ n.todo = s.todo
      BY DEF Handler, Locs
    <3>2. TaskSound(n)
      BY <1>1, <3>1 DEF TaskSound
    <3> QED
      BY <3>1, <3>2
  <2> QED
    BY <1>2, <2>1, <2>2 DEF Become, Return, TasksGood
<1> QED
  BY <1>4, <1>5

\* What follows when a status is persisted.
LEMMA AfterPersistSound ==
  ASSUME IInv, NEW t \in tasks, t.loc \in {"read", "write"}, NEW result, AfterPersist(t, result)
  PROVE  TasksGood /\ ToldGood
<1>1. t \in Handler /\ TaskSound(t) /\ t.cur \subseteq Msgs
  BY DEF IInv, TypeOK, TaskSound
<1>2. UNCHANGED told => ToldGood
  BY DEF ToldGood, IInv, TypeOK
<1>3. Return(t) => TasksGood
  BY DEF Return, TasksGood
<1>4. CASE t.ev.kind = "outbound"
  <2>1. UNCHANGED told /\ (Return(t) \/ Go(t, "ack"))
    BY <1>4 DEF AfterPersist
  <2> QED
    BY <1>2, <1>3, <1>4, <2>1, GoSound DEF Locs
<1>5. CASE t.ev.kind = "ack"
  <2>1. Return(t) /\ (UNCHANGED told \/ Tell(t.inst, t.cur, "DELIVERED"))
    BY <1>5 DEF AfterPersist
  <2> QED
    BY <1>1, <1>2, <1>3, <2>1, TellSound DEF IInv, Status
<1>6. CASE t.ev.kind \in {"delivered", "seen"}
  <2>1. Proceed(t, t, t.cur)
    BY <1>6 DEF AfterPersist
  <2>2. t.ev.kind = "seen" => t.todo \cup t.cur \subseteq Others(t.ev)
    BY <1>1 DEF TaskSound
  <2> QED
    BY <1>1, <1>6, <2>1, <2>2, ProceedSound
<1> QED
  BY <1>4, <1>5, <1>6 DEF AfterPersist

\* The message in hand is one of those its handler works on.
LEMMA CurrentSound ==
  ASSUME NEW t \in Handler, TaskSound(t), t.loc \in {"read", "write"}
  PROVE  Current(t) \in t.cur /\ Current(t) \in Msgs
BY DEF TaskSound, Current

\* A good step of a handler keeps the invariant.
LEMMA GoodStep ==
  ASSUME IInv, TasksGood, ToldGood, UNCHANGED <<up, at, viewing, published, receipts, got, badge>>,
         status' \in [Msgs -> Status],
         \A m \in Msgs : status'[m] = "SEEN" => status[m] = "SEEN" \/ MarkedSeen(m),
         \A m \in Msgs : status'[m] = "NONE" => status[m] = "NONE",
         unread' \in [Convs -> [Users -> Nat]],
         inbox' \in [Instances -> Seq(Event)], InboxSound'
  PROVE  IInv'
<1>1. Handler' = Handler
  BY DEF Handler
<1>2. \A t : TaskSound(t)' <=> TaskSound(t)
  BY DEF TaskSound
<1>3. \A m : MarkedSeen(m)' <=> MarkedSeen(m)
  BY DEF MarkedSeen
<1>4. tasks' \subseteq Handler' /\ \A t \in tasks' : TaskSound(t)'
  BY <1>1, <1>2 DEF TasksGood, IInv, TypeOK
<1>5. SeenOnlyByOthers'
  BY <1>3 DEF SeenOnlyByOthers, IInv, ToldGood
<1>6. published' \subseteq Saved'
  BY DEF IInv, TypeOK, Saved
<1>7. TypeOK'
  BY <1>4, <1>6 DEF TypeOK, IInv, ToldGood
<1> QED
  BY <1>4, <1>5, <1>7 DEF IInv

\* The same, for a step that leaves the tables, the inboxes and what is told alone.
LEMMA QuietStep ==
  ASSUME IInv, TasksGood,
         UNCHANGED <<status, unread, up, inbox, at, viewing, published, receipts, got, told, badge>>
  PROVE  IInv'
<1>1. ToldGood /\ InboxSound'
  BY DEF ToldGood, InboxSound, IInv, TypeOK
<1> QED
  BY <1>1, GoodStep DEF IInv, TypeOK

\* Each step of a handler, and the failure of one, keeps the invariant.
LEMMA StepTaskSound ==
  ASSUME IInv, NEW t \in tasks, StepTask(t) \/ CallFails(t)
  PROVE  IInv'
<1> USE DEF dbVars, busVars, clientVars, placeVars, sentVars
<1>1. /\ t \in Handler /\ TaskSound(t) /\ TypeOK /\ InboxSound
      /\ t.ev \in Event /\ t.inst \in up /\ up \subseteq Instances
  BY DEF IInv, TypeOK, Handler
<1>2. t.ev.kind = "outbound" =>
        t.ev.msg \in Msgs /\ ConvOf[t.ev.msg] \in Convs /\ RecipientOf[t.ev.msg] \in Users
  BY <1>1, EventKinds, MsgsAssumption
<1>3. t.ev.kind \in {"delivered", "seen"} => t.ev.by \in Users /\ t.ev.msgs \subseteq Msgs
  BY <1>1, EventKinds
<1>4. UNCHANGED told => ToldGood
  BY <1>1 DEF ToldGood, TypeOK
<1>5. UNCHANGED <<inbox, receipts>> => InboxSound'
  BY <1>1 DEF InboxSound
<1>6. Return(t) => TasksGood
  BY DEF Return, TasksGood
<1>7. CASE Increment(t)
  <2>1. t.ev.kind = "outbound" /\ Go(t, "count")
    BY <1>1, <1>7 DEF Increment, TaskSound
  <2>2. unread' \in [Convs -> [Users -> Nat]]
    BY <1>1, <1>2, <1>7, <2>1 DEF Increment, TypeOK
  <2>3. TasksGood
    BY <1>1, <1>7, <2>1, GoSound DEF Increment, TaskSound, Locs
  <2> QED
    BY <1>1, <1>4, <1>5, <1>7, <2>2, <2>3, GoodStep DEF Increment, TypeOK
<1>8. CASE ReadCount(t)
  <2>1. t.ev.kind = "outbound" /\ t.loc = "count"
    BY <1>1, <1>8 DEF ReadCount, TaskSound
  <2> DEFINE c == unread[ConvOf[t.ev.msg]][RecipientOf[t.ev.msg]]
             n == [t EXCEPT !.loc = "announce", !.count = c]
  <2>2. c \in Nat
    BY <1>1, <1>2, <2>1 DEF TypeOK
  <2>3. /\ n \in Handler /\ n.loc = "announce" /\ n.ev = t.ev /\ n.todo = t.todo
        /\ n.cur = t.cur
    BY <1>1, <2>2 DEF Handler, Locs
  <2>4. TaskSound(n)
    BY <1>1, <2>1, <2>3 DEF TaskSound
  <2>5. TasksGood
    BY <1>8, <2>3, <2>4 DEF ReadCount, Become, TasksGood
  <2> QED
    BY <1>8, <2>5, QuietStep DEF ReadCount
<1>9. CASE AnnounceCount(t)
  <2>1. t.ev.kind = "outbound" /\ Go(t, "read")
    BY <1>1, <1>9 DEF AnnounceCount, TaskSound
  <2> DEFINE e == [kind |-> "unread", user |-> RecipientOf[t.ev.msg],
                   conv |-> ConvOf[t.ev.msg], count |-> t.count]
  <2>2. e \in Event /\ e.kind # "seen"
    BY <1>1, <1>2, <2>1 DEF Event, Handler
  <2>3. inbox' \in [Instances -> Seq(Event)] /\ InboxSound'
    BY <1>1, <1>9, <2>2, PublishSound DEF AnnounceCount
  <2>4. TasksGood
    BY <1>1, <1>9, <2>1, GoSound DEF AnnounceCount, TaskSound, Locs
  <2> QED
    BY <1>1, <1>4, <1>9, <2>3, <2>4, GoodStep DEF AnnounceCount, TypeOK
<1>10. CASE PublishAck(t)
  <2>1. t.ev.kind = "outbound"
    BY <1>1, <1>10 DEF PublishAck, TaskSound
  <2> DEFINE e == [kind |-> "ack", msg |-> t.ev.msg, from |-> t.inst]
  <2>2. e \in Event /\ e.kind # "seen"
    BY <1>1, <1>2, <2>1 DEF Event
  <2>3. inbox' \in [Instances -> Seq(Event)] /\ InboxSound'
    BY <1>1, <1>10, <2>2, PublishSound DEF PublishAck
  <2> QED
    BY <1>1, <1>4, <1>6, <1>10, <2>3, GoodStep DEF PublishAck, TypeOK
<1>11. CASE ReadStatus(t)
  <2>1. TasksGood /\ ToldGood
    <3>1. CASE AfterPersist(t, status[Current(t)])
      BY <1>11, <3>1, AfterPersistSound DEF ReadStatus
    <3>2. CASE Go(t, "write") /\ UNCHANGED told
      BY <1>1, <1>4, <1>11, <3>2, GoSound DEF ReadStatus, TaskSound, Locs
    <3> QED
      BY <1>11, <3>1, <3>2 DEF ReadStatus
  <2> QED
    BY <1>1, <1>5, <1>11, <2>1, GoodStep DEF ReadStatus, TypeOK
<1>12. CASE WriteStatus(t)
  <2>1. TasksGood /\ ToldGood
    BY <1>12, AfterPersistSound DEF WriteStatus
  <2>2. Current(t) \in t.cur /\ Current(t) \in Msgs
    BY <1>1, <1>12, CurrentSound DEF WriteStatus
  <2>3. Wanted(t) \in {"DELIVERED", "SEEN"} /\ (Wanted(t) = "SEEN" => t.ev.kind = "seen")
    BY DEF Wanted
  <2>4. Wanted(t) = "SEEN" => MarkedSeen(Current(t))
    BY <1>1, <1>12, <2>2, <2>3, OthersMarked DEF TaskSound, WriteStatus, IInv
  <2>5. /\ status' \in [Msgs -> Status]
        /\ \A m \in Msgs : status'[m] = "SEEN" => status[m] = "SEEN" \/ MarkedSeen(m)
        /\ \A m \in Msgs : status'[m] = "NONE" => status[m] = "NONE"
    BY <1>1, <1>12, <2>2, <2>3, <2>4 DEF WriteStatus, TypeOK, Status
  <2> QED
    BY <1>1, <1>5, <1>12, <2>1, <2>5, GoodStep DEF WriteStatus, TypeOK
<1>13. CASE Find(t)
  <2> DEFINE found == t.ev.msgs \cap Saved
             others == {m \in found : SenderOf[m] # t.ev.by}
             behind == IF t.ev.kind = "seen" THEN {m \in others : status[m] # "SEEN"}
                       ELSE {m \in others : status[m] = "QUEUED"}
             todo == IF t.ev.kind = "seen" THEN others ELSE behind
             convs == IF t.ev.kind = "seen" THEN {ConvOf[m] : m \in found} ELSE {}
             start == [t EXCEPT !.fresh = behind, !.todo = todo, !.convs = convs]
  <2>1. t.ev.kind \in {"delivered", "seen"}
    BY <1>1, <1>13 DEF Find, TaskSound
  <2>2. /\ todo \subseteq Msgs /\ behind \subseteq Msgs /\ convs \subseteq Convs
        /\ todo \subseteq Others(t.ev)
    BY <1>3, <2>1, MsgsAssumption DEF Others
  <2> HIDE DEF todo, behind, convs
  <2>3. /\ start \in Handler /\ start.ev = t.ev /\ start.inst = t.inst /\ start.todo = todo
    BY <1>1, <2>2 DEF Handler
  <2>4. Proceed(t, start, {})
    BY <1>13 DEF Find, todo, behind, convs
  <2> HIDE DEF start
  <2>5. TasksGood /\ ToldGood
    <3>1. t.ev.kind = "seen" => start.todo \cup {} \subseteq Others(t.ev)
      BY <2>2, <2>3
    <3> QED
      BY <2>1, <2>3, <2>4, <3>1, ProceedSound
  <2> QED
    BY <1>1, <1>5, <1>13, <2>5, GoodStep DEF Find, TypeOK
<1>14. CASE Reset(t)
  <2>1. t.ev.kind \in {"delivered", "seen"}
    BY <1>1, <1>14 DEF Reset, TaskSound
  <2>2. PICK c \in t.convs :
          /\ unread' = [unread EXCEPT ![c][t.ev.by] = 0]
          /\ Become(t, [t EXCEPT !.loc = "zero", !.cur = {c}, !.convs = @ \ {c}])
    BY <1>14 DEF Reset
  <2> DEFINE n == [t EXCEPT !.loc = "zero", !.cur = {c}, !.convs = @ \ {c}]
  <2>3. /\ n \in Handler /\ n.loc = "zero" /\ n.cur = {c} /\ n.ev = t.ev /\ n.todo = t.todo
        /\ c \in Convs
    BY <1>1 DEF Handler, Locs
  <2>4. TaskSound(n)
    BY <1>1, <2>1, <2>3 DEF TaskSound
  <2>5. TasksGood
    BY <2>2, <2>3, <2>4 DEF Become, TasksGood
  <2>6. unread' \in [Convs -> [Users -> Nat]]
    BY <1>1, <1>3, <2>1, <2>2, <2>3 DEF TypeOK
  <2> QED
    BY <1>1, <1>4, <1>5, <1>14, <2>5, <2>6, GoodStep DEF Reset, TypeOK
<1>15. CASE AnnounceZero(t)
  <2>1. t.ev.kind \in {"delivered", "seen"} /\ t.cur \subseteq Convs
    BY <1>1, <1>15 DEF AnnounceZero, TaskSound
  <2>2. PICK c \in t.cur : Publish([kind |-> "unread", user |-> t.ev.by, conv |-> c, count |-> 0])
    BY <1>15 DEF AnnounceZero
  <2> DEFINE e == [kind |-> "unread", user |-> t.ev.by, conv |-> c, count |-> 0]
  <2>3. e \in Event /\ e.kind # "seen"
    BY <1>3, <2>1 DEF Event
  <2>4. inbox' \in [Instances -> Seq(Event)] /\ InboxSound'
    BY <1>1, <1>15, <2>2, <2>3, PublishSound DEF AnnounceZero
  <2>5. TasksGood
    BY <1>6, <1>15, <2>1, GoSound DEF AnnounceZero, Locs
  <2> QED
    BY <1>1, <1>4, <1>15, <2>4, <2>5, GoodStep DEF AnnounceZero, TypeOK
<1>16. CASE CallFails(t)
  <2>1. TasksGood /\ ToldGood
    BY <1>4, <1>6, <1>16, AfterPersistSound DEF CallFails
  <2> QED
    BY <1>1, <1>5, <1>16, <2>1, GoodStep DEF CallFails, TypeOK
<1> QED
  BY <1>7, <1>8, <1>9, <1>10, <1>11, <1>12, <1>13, <1>14, <1>15, <1>16 DEF StepTask

-----------------------------------------------------------------------------
(* The other steps *)

\* The initial states satisfy the invariant.
LEMMA InitSound == Init => IInv
<1> SUFFICES ASSUME Init PROVE IInv
  OBVIOUS
<1>1. PICK p \in Placements : at = p.at /\ viewing = p.viewing
  BY DEF Init
<1>2. TypeOK
  BY <1>1, PlacementsAssumption DEF Init, TypeOK, Status, Saved
<1>3. InboxSound /\ \A t \in tasks : TaskSound(t)
  BY DEF Init, InboxSound
<1>4. SeenOnlyByOthers
  BY DEF Init, SeenOnlyByOthers
<1> QED
  BY <1>2, <1>3, <1>4 DEF IInv

\* A step that begins no handler, and changes no receipt, status or event.
LEMMA HandlersKept ==
  ASSUME IInv, UNCHANGED <<status, inbox, published, receipts, told>>,
         \A t \in tasks' : t \in tasks /\ t.inst \in up', TypeOK'
  PROVE  IInv'
<1>1. \A t : TaskSound(t)' <=> TaskSound(t)
  BY DEF TaskSound
<1>2. \A m : MarkedSeen(m)' <=> MarkedSeen(m)
  BY DEF MarkedSeen
<1>3. InboxSound' /\ SeenOnlyByOthers'
  BY <1>2 DEF InboxSound, SeenOnlyByOthers, IInv
<1> QED
  BY <1>1, <1>3 DEF IInv

\* A handler begins, with a message of its own for new messages and acknowledgements.
LEMMA BeginSound ==
  ASSUME IInv, NEW i \in Instances, i \in up, inbox[i] # <<>>,
         NEW l \in {"increment", "read", "find"}, Begin(i, Task(i, Head(inbox[i]), l)),
         l = "find" <=> Head(inbox[i]).kind \in {"delivered", "seen"},
         l = "increment" => Head(inbox[i]).kind = "outbound",
         Head(inbox[i]).kind # "unread",
         UNCHANGED <<status, unread, up, at, viewing, published, receipts, told, badge>>,
         got' \subseteq Msgs
  PROVE  IInv'
<1> DEFINE e == Head(inbox[i])
           n == Task(i, e, l)
<1>1. /\ inbox' = [inbox EXCEPT ![i] = Tail(@)] /\ tasks' = tasks \cup {n}
  BY DEF Begin
<1>2. /\ inbox' \in [Instances -> Seq(Event)] /\ InboxSound'
      /\ e \in Event /\ (e.kind = "seen" => e \in receipts)
  BY <1>1, TakeSound DEF IInv
<1>3. e.kind \in {"outbound", "ack", "delivered", "seen"}
  BY <1>2, EventKinds
<1>4. /\ n.inst = i /\ n.ev = e /\ n.loc = l /\ n.todo = {} /\ n.fresh = {} /\ n.convs = {}
      /\ n.count = 0 /\ n.cur = IF e.kind \in {"outbound", "ack"} THEN {e.msg} ELSE {}
      /\ n \in Handler
  <2>1. (IF e.kind \in {"outbound", "ack"} THEN {e.msg} ELSE {}) \subseteq Msgs
    BY <1>2, EventKinds
  <2> HIDE DEF e
  <2> QED
    BY <1>2, <2>1 DEF Task, Handler, Locs
<1>5. TaskSound(n)
  <2>1. l \in {"increment", "read"} => e.kind \in {"outbound", "ack"} /\ e.msg \in Msgs
    BY <1>2, <1>3, EventKinds
  <2> HIDE DEF n, e
  <2> QED
    BY <1>2, <1>3, <1>4, <2>1 DEF TaskSound, e
<1>6. Handler' = Handler /\ \A t : TaskSound(t)' <=> TaskSound(t)
  BY DEF Handler, TaskSound
<1> HIDE DEF n
<1>7. tasks' \subseteq Handler' /\ \A t \in tasks' : TaskSound(t)'
  BY <1>1, <1>4, <1>5, <1>6 DEF IInv, TypeOK
<1>8. TypeOK'
  BY <1>2, <1>7 DEF TypeOK, IInv, Saved
<1>9. \A m : MarkedSeen(m)' <=> MarkedSeen(m)
  BY DEF MarkedSeen
<1> QED
  BY <1>2, <1>7, <1>8, <1>9 DEF IInv, SeenOnlyByOthers

\* An instance takes an event.
LEMMA ReceiveSound ==
  ASSUME IInv, NEW i \in Instances, Receive(i)
  PROVE  IInv'
<1> USE DEF dbVars, busVars, clientVars, placeVars, sentVars
<1>1. /\ inbox[i] # <<>> /\ i \in up
      /\ Head(inbox[i]) \in Event
  BY DEF Receive, HandleOutbound, HandleUnread, HandleAck, HandleReceipt, Receives, IInv, TypeOK
<1>2. CASE HandleOutbound(i)
  <2>1. Head(inbox[i]).kind = "outbound" /\ Head(inbox[i]).msg \in Msgs
    BY <1>1, <1>2, EventKinds DEF HandleOutbound, Receives
  <2>2. got' \subseteq Msgs
    BY <1>2, <2>1 DEF HandleOutbound, IInv, TypeOK
  <2>3. \E l \in {"read", "increment"} : Begin(i, Task(i, Head(inbox[i]), l))
    BY <1>2 DEF HandleOutbound
  <2> QED
    BY <1>1, <1>2, <2>1, <2>2, <2>3, BeginSound DEF HandleOutbound
<1>3. CASE HandleAck(i)
  <2>1. Head(inbox[i]).kind = "ack" /\ got' \subseteq Msgs
    BY <1>3 DEF HandleAck, Receives, IInv, TypeOK
  <2> QED
    BY <1>1, <1>3, <2>1, BeginSound DEF HandleAck
<1>4. CASE HandleReceipt(i)
  <2>1. Head(inbox[i]).kind \in {"delivered", "seen"} /\ got' \subseteq Msgs
    BY <1>4 DEF HandleReceipt, Receives, IInv, TypeOK
  <2> QED
    BY <1>1, <1>4, <2>1, BeginSound DEF HandleReceipt
<1>5. CASE HandleUnread(i)
  <2>1. /\ Head(inbox[i]).kind = "unread" /\ inbox' = [inbox EXCEPT ![i] = Tail(@)]
        /\ UNCHANGED <<status, unread, up, tasks, at, viewing, published, receipts, got, told>>
    BY <1>5 DEF HandleUnread, Receives
  <2>2. inbox' \in [Instances -> Seq(Event)] /\ InboxSound'
    BY <1>1, <2>1, TakeSound DEF IInv
  <2>3. badge' \in [Convs -> [Users -> Nat]]
    BY <1>1, <1>5, <2>1, EventKinds DEF HandleUnread, IInv, TypeOK
  <2>4. Handler' = Handler /\ \A t : TaskSound(t)' <=> TaskSound(t)
    BY <2>1 DEF Handler, TaskSound
  <2>5. \A m : MarkedSeen(m)' <=> MarkedSeen(m)
    BY <2>1 DEF MarkedSeen
  <2>6. TypeOK'
    BY <2>1, <2>2, <2>3, <2>4 DEF TypeOK, IInv, Saved
  <2> QED
    BY <2>1, <2>2, <2>4, <2>5, <2>6 DEF IInv, SeenOnlyByOthers
<1> QED
  BY <1>2, <1>3, <1>4, <1>5 DEF Receive

\* A row is inserted, and published.
LEMMA WorkerSound ==
  ASSUME IInv, Worker
  PROVE  IInv'
<1> USE DEF dbVars, busVars, clientVars, placeVars, sentVars
<1>1. UNCHANGED tasks /\ UNCHANGED told => TasksGood /\ ToldGood
  BY DEF TasksGood, ToldGood, IInv, TypeOK
<1>2. ASSUME NEW m \in Msgs, SaveMessage(m) PROVE IInv'
  <2>1. InboxSound'
    BY <1>2 DEF SaveMessage, InboxSound, IInv
  <2>2. /\ status' \in [Msgs -> Status]
        /\ \A x \in Msgs : status'[x] = "SEEN" => status[x] = "SEEN"
        /\ \A x \in Msgs : status'[x] = "NONE" => status[x] = "NONE"
    BY <1>2 DEF SaveMessage, IInv, TypeOK, Status
  <2> QED
    BY <1>1, <1>2, <2>1, <2>2, GoodStep DEF SaveMessage, IInv, TypeOK
<1>3. ASSUME NEW m \in Msgs, PublishOutbound(m) PROVE IInv'
  <2> DEFINE e == [kind |-> "outbound", msg |-> m]
  <2>1. e \in Event /\ e.kind # "seen"
    BY DEF Event
  <2>2. inbox' \in [Instances -> Seq(Event)] /\ InboxSound'
    BY <1>3, <2>1, PublishSound DEF PublishOutbound, IInv
  <2>3. Handler' = Handler /\ \A t : TaskSound(t)' <=> TaskSound(t)
    BY <1>3 DEF PublishOutbound, Handler, TaskSound
  <2>4. \A x : MarkedSeen(x)' <=> MarkedSeen(x)
    BY <1>3 DEF PublishOutbound, MarkedSeen
  <2>5. TypeOK'
    BY <1>3, <2>2, <2>3 DEF PublishOutbound, TypeOK, IInv, Saved
  <2> QED
    BY <1>3, <2>2, <2>3, <2>4, <2>5
    DEF PublishOutbound, IInv, SeenOnlyByOthers
<1> QED
  BY <1>2, <1>3 DEF Worker

\* A client sends a receipt.
LEMMA SendReceiptSound ==
  ASSUME IInv, NEW r \in Receipt, SendReceipt(r)
  PROVE  IInv'
<1> USE DEF dbVars, busVars, clientVars, placeVars, sentVars
<1>1. receipts' = receipts \cup {r} /\ Publish(r) /\ r \in Event
  BY DEF SendReceipt, Event
<1>2. inbox' \in [Instances -> Seq(Event)] /\ InboxSound'
  BY <1>1, PublishSound DEF IInv
<1>4. Handler' = Handler /\ \A t : TaskSound(t) => TaskSound(t)'
  BY <1>1 DEF SendReceipt, Handler, TaskSound
<1>5. \A x : MarkedSeen(x) => MarkedSeen(x)'
  BY <1>1 DEF MarkedSeen
<1>6. TypeOK'
  BY <1>1, <1>2, <1>4 DEF SendReceipt, TypeOK, IInv, Saved
<1> QED
  BY <1>2, <1>4, <1>5, <1>6 DEF SendReceipt, IInv, SeenOnlyByOthers

\* An instance dies and comes back, and clients connect, look and leave.
LEMMA PlacesSound ==
  ASSUME IInv,
         \/ \E i \in Instances : Crash(i) \/ Restart(i)
         \/ \E u \in Users : Client(u)
  PROVE  IInv'
<1> USE DEF dbVars, busVars, clientVars, placeVars, sentVars
<1>1. ASSUME NEW i \in Instances, Crash(i) PROVE IInv'
  <2>1. /\ inbox' \in [Instances -> Seq(Event)] /\ InboxSound'
    <3>1. /\ inbox' = [inbox EXCEPT ![i] = <<>>] /\ receipts' = receipts
          /\ inbox \in [Instances -> Seq(Event)]
      BY <1>1 DEF Crash, IInv, TypeOK
    <3>2. <<>> \in Seq(Event) /\ DOMAIN <<>> = {}
      OBVIOUS
    <3> QED
      BY <3>1, <3>2 DEF IInv, InboxSound
  <2>2. tasks' \subseteq Handler' /\ tasks' \subseteq tasks
    BY <1>1 DEF Crash, IInv, TypeOK, Handler
  <2>3. /\ at' \in [Users -> Instances \cup {Nowhere}]
        /\ viewing' \in [Users -> Convs \cup {NoConv}]
    BY <1>1 DEF Crash, IInv, TypeOK
  <2>4. TypeOK'
    BY <1>1, <2>1, <2>2, <2>3 DEF Crash, IInv, TypeOK, Saved
  <2>5. \A t : TaskSound(t)' <=> TaskSound(t)
    BY <1>1 DEF Crash, TaskSound
  <2>6. \A m : MarkedSeen(m)' <=> MarkedSeen(m)
    BY <1>1 DEF Crash, MarkedSeen
  <2> QED
    BY <1>1, <2>1, <2>2, <2>4, <2>5, <2>6 DEF Crash, IInv, SeenOnlyByOthers
<1>2. ASSUME NEW i \in Instances, Restart(i) PROVE IInv'
  <2>1. tasks' \subseteq Handler' /\ tasks' = tasks
    BY <1>2 DEF Restart, IInv, TypeOK, Handler
  <2>2. TypeOK'
    BY <1>2, <2>1 DEF Restart, IInv, TypeOK, Saved
  <2> QED
    BY <1>2, <2>1, <2>2, HandlersKept DEF Restart, Handler, TypeOK
<1>3. ASSUME NEW u \in Users, Client(u) PROVE IInv'
  <2>1. /\ UNCHANGED <<status, up, inbox, tasks, published, receipts, got, told>>
        /\ at' \in [Users -> Instances \cup {Nowhere}]
        /\ viewing' \in [Users -> Convs \cup {NoConv}]
        /\ unread' \in [Convs -> [Users -> Nat]]
        /\ badge' \in [Convs -> [Users -> Nat]]
    <3> USE DEF IInv, TypeOK
    <3>1. ASSUME NEW i \in Instances, Connect(u, i)
          PROVE  badge' \in [Convs -> [Users -> Nat]]
      BY <3>1 DEF Connect
    <3>2. CASE \E i \in Instances : Connect(u, i)
      BY <3>1, <3>2 DEF Connect
    <3>3. CASE Disconnect(u) \/ CloseConversation(u)
      BY <3>3 DEF Disconnect, CloseConversation
    <3>4. ASSUME NEW c \in Convs, OpenConversation(u, c)
          PROVE  badge' \in [Convs -> [Users -> Nat]]
      BY <3>4 DEF OpenConversation
    <3>5. CASE \E c \in Convs : OpenConversation(u, c)
      BY <3>4, <3>5 DEF OpenConversation
    <3>6. CASE \E c \in Convs : MarkAsRead(u, c)
      BY <3>6 DEF MarkAsRead
    <3> QED
      BY <1>3, <3>2, <3>3, <3>5, <3>6 DEF Client
  <2>2. Handler' = Handler
    BY <2>1 DEF Handler
  <2>3. TypeOK'
    BY <2>1, <2>2 DEF TypeOK, IInv, Saved
  <2> QED
    BY <2>1, <2>3, HandlersKept DEF IInv, TypeOK, Handler
<1> QED
  BY <1>1, <1>2, <1>3

-----------------------------------------------------------------------------
(* Theorems *)

\* The invariant is inductive.
THEOREM Invariance == Spec => []IInv
<1>1. IInv /\ UNCHANGED vars => IInv'
  BY HandlersKept
  DEF vars, IInv, TypeOK, Handler, Saved
<1>2. IInv /\ [Next]_vars => IInv'
  BY <1>1, WorkerSound, ReceiveSound, StepTaskSound, SendReceiptSound, PlacesSound DEF Next
<1> QED
  BY InitSound, <1>2, PTL DEF Spec

\* The variables keep their types.
THEOREM TypeCorrect == Spec => []TypeOK
<1>1. IInv => TypeOK
  BY DEF IInv
<1> QED
  BY <1>1, Invariance, PTL

\* However the handlers of however many instances interleave and fail: a message is seen,
\* and its sender is told so, only when somebody other than its sender marked it.
THEOREM SeenByOthers == Spec => []SeenOnlyByOthers
<1>1. IInv => SeenOnlyByOthers
  BY DEF IInv
<1> QED
  BY <1>1, Invariance, PTL

\* No handler, late or repeated, takes a delivered message back to QUEUED.
THEOREM StaysDelivered == Spec => NeverRequeued
<1>1. ASSUME IInv, [Next]_vars
      PROVE  [\A m \in Msgs : status'[m] \in {"NONE", "QUEUED"} =>
                status[m] \in {"NONE", "QUEUED"}]_vars
  <2> DEFINE Goal == \A m \in Msgs : status'[m] \in {"NONE", "QUEUED"} =>
                       status[m] \in {"NONE", "QUEUED"}
  <2> USE DEF dbVars
  <2>1. UNCHANGED status => Goal
    OBVIOUS
  <2>2. ASSUME NEW m \in Msgs, SaveMessage(m) PROVE Goal
    BY <1>1, <2>2 DEF SaveMessage, IInv, TypeOK
  <2>3. ASSUME NEW t \in tasks, WriteStatus(t) PROVE Goal
    BY <1>1, <2>3 DEF WriteStatus, Wanted, IInv, TypeOK
  <2>4. ASSUME NEW i \in Instances, Receive(i) \/ Crash(i) \/ Restart(i) PROVE Goal
    BY <2>1, <2>4
    DEF Receive, HandleOutbound, HandleUnread, HandleAck, HandleReceipt, Crash, Restart
  <2>5. ASSUME NEW t \in tasks, (StepTask(t) /\ ~WriteStatus(t)) \/ CallFails(t) PROVE Goal
    BY <2>1, <2>5
    DEF StepTask, Increment, ReadCount, AnnounceCount, PublishAck, ReadStatus, Find, Reset,
        AnnounceZero, CallFails
  <2>6. ASSUME NEW u \in Users, Client(u) PROVE Goal
    BY <2>1, <2>6
    DEF Client, Connect, Disconnect, OpenConversation, CloseConversation, MarkAsRead
  <2>7. ASSUME \/ \E m \in Msgs : PublishOutbound(m)
               \/ \E r \in Receipt : SendReceipt(r)
        PROVE  Goal
    BY <2>1, <2>7 DEF PublishOutbound, SendReceipt
  <2> QED
    BY <1>1, <2>2, <2>3, <2>4, <2>5, <2>6, <2>7 DEF Next, Worker
<1> QED
  BY <1>1, Invariance, PTL DEF Spec, NeverRequeued
-----------------------------------------------------------------------------
(* Every instance counts every message once *)

Outbound(m) == [kind |-> "outbound", msg |-> m]

\* The handler of message m on instance i that is about to count it.
CountTask(i, m) == Task(i, Outbound(m), "increment")

\* Message m is among the events s.
Holds(s, m) == \E n \in DOMAIN s : s[n].kind = "outbound" /\ s[n].msg = m

\* The events s hold no message twice.
HoldsOnce(s) ==
  \A j, k \in DOMAIN s :
    (s[j].kind = "outbound" /\ s[k].kind = "outbound" /\ s[j].msg = s[k].msg) => j = k

\* A message comes to an instance once: it waits in the inbox, or a handler is about
\* to count it, or neither, and only after the worker published it.
OnceEach ==
  /\ \A i \in Instances : HoldsOnce(inbox[i])
  /\ \A i \in Instances, m \in Msgs :
       Holds(inbox[i], m) => m \in published /\ CountTask(i, m) \notin tasks
  /\ \A t \in tasks : t.loc = "increment" =>
       t.ev.msg \in published /\ t = CountTask(t.inst, t.ev.msg)

\* A handler resets only the conversations of the messages marked as seen.
MarkedConvs(e) == IF e.kind = "seen" THEN {ConvOf[m] : m \in e.msgs} ELSE {}
ConvsMarked(t) ==
  /\ t.convs \subseteq MarkedConvs(t.ev)
  /\ t.loc = "zero" => t.cur \subseteq MarkedConvs(t.ev)

\* Without a fault every instance is subscribed, without a move no mark-as-read is sent.
Healthy ==
  /\ moves \in Nat /\ faults \in Nat
  /\ moves = 0 => putting = {}
  /\ faults = 0 => up = Instances
  /\ IsFiniteSet(published)

\* Instance i has not counted the published message m, but will.
Uncounted(i, m) == Holds(inbox[i], m) \/ CountTask(i, m) \in tasks

\* The messages for u in c that were counted, each with the instance that did.
Counted(c, u) ==
  {im \in Instances \X PublishedFor(c, u) : ~Uncounted(im[1], im[2])}

CountExact(c, u) ==
  /\ IsFiniteSet(Counted(c, u))
  /\ unread[c][u] = Cardinality(Counted(c, u))

CountInv ==
  /\ OnceEach /\ Healthy
  /\ \A t \in tasks : ConvsMarked(t)
  /\ Unharmed => \A c \in Convs, u \in Users : HasRead(c, u) \/ CountExact(c, u)

-----------------------------------------------------------------------------
(* Lemmas on inboxes *)

\* An event is added to an inbox.
LEMMA HoldsAppend ==
  ASSUME NEW s \in Seq(Event), NEW e \in Event
  PROVE  /\ \A m : Holds(Append(s, e), m) <=>
                     Holds(s, m) \/ (e.kind = "outbound" /\ e.msg = m)
         /\ HoldsOnce(s) /\ (e.kind = "outbound" => ~Holds(s, e.msg)) =>
              HoldsOnce(Append(s, e))
<1> DEFINE r == Append(s, e)
<1>1. /\ Len(s) \in Nat /\ DOMAIN s = 1..Len(s) /\ DOMAIN r = 1..(Len(s) + 1)
      /\ r[Len(s) + 1] = e /\ \A n \in 1..Len(s) : r[n] = s[n]
  OBVIOUS
<1> HIDE DEF r
<1>2. ASSUME NEW n \in DOMAIN r
      PROVE  (n \in DOMAIN s /\ r[n] = s[n]) \/ (n = Len(s) + 1 /\ r[n] = e)
  <2>1. n \in 1..(Len(s) + 1)
    BY <1>1
  <2>2. n \in 1..Len(s) \/ n = Len(s) + 1
    BY <2>1, <1>1
  <2> QED
    BY <2>2, <1>1
<1>3. \A n \in DOMAIN s : n \in DOMAIN r /\ r[n] = s[n]
  BY <1>1
<1>4. Len(s) + 1 \in DOMAIN r /\ r[Len(s) + 1] = e
  BY <1>1
<1>5. \A m : Holds(r, m) <=> Holds(s, m) \/ (e.kind = "outbound" /\ e.msg = m)
  BY <1>2, <1>3, <1>4 DEF Holds
<1>6. ASSUME HoldsOnce(s), e.kind = "outbound" => ~Holds(s, e.msg) PROVE HoldsOnce(r)
  BY <1>2, <1>6 DEF HoldsOnce, Holds
<1> QED
  BY <1>5, <1>6 DEF r

\* The first event is taken from an inbox.
LEMMA HoldsTail ==
  ASSUME NEW s \in Seq(Event), s # <<>>, HoldsOnce(s)
  PROVE  /\ Tail(s) \in Seq(Event) /\ HoldsOnce(Tail(s))
         /\ \A m : Holds(s, m) <=>
                     Holds(Tail(s), m) \/ (Head(s).kind = "outbound" /\ Head(s).msg = m)
         /\ Head(s).kind = "outbound" => ~Holds(Tail(s), Head(s).msg)
<1> DEFINE r == Tail(s)
<1>1. /\ Len(s) \in Nat /\ Len(s) > 0 /\ DOMAIN s = 1..Len(s) /\ DOMAIN r = 1..(Len(s) - 1)
      /\ Head(s) = s[1] /\ \A n \in 1..(Len(s) - 1) : r[n] = s[n + 1]
      /\ r \in Seq(Event)
  OBVIOUS
<1> HIDE DEF r
<1>2. ASSUME NEW n \in DOMAIN r
      PROVE  n + 1 \in DOMAIN s /\ r[n] = s[n + 1] /\ n + 1 # 1 /\ n \in Nat
  <2>1. n \in 1..(Len(s) - 1)
    BY <1>1
  <2>2. n + 1 \in 1..Len(s) /\ n + 1 # 1 /\ n \in Nat
    BY <2>1, <1>1
  <2> QED
    BY <2>1, <2>2, <1>1
<1>3. \A n \in DOMAIN s : n = 1 \/ (n - 1 \in DOMAIN r /\ r[n - 1] = s[n])
  BY <1>1
<1>4. 1 \in DOMAIN s /\ Head(s) = s[1]
  BY <1>1
<1>5. HoldsOnce(r)
  BY <1>2 DEF HoldsOnce
<1>6. ASSUME NEW m PROVE Holds(s, m) <=>
        Holds(r, m) \/ (Head(s).kind = "outbound" /\ Head(s).msg = m)
  <2>1. Holds(s, m) => Holds(r, m) \/ (Head(s).kind = "outbound" /\ Head(s).msg = m)
    BY <1>3, <1>4 DEF Holds
  <2>2. Holds(r, m) => Holds(s, m)
    BY <1>2 DEF Holds
  <2>3. Head(s).kind = "outbound" /\ Head(s).msg = m => Holds(s, m)
    BY <1>4 DEF Holds
  <2> QED
    BY <2>1, <2>2, <2>3
<1>7. Head(s).kind = "outbound" => ~Holds(r, Head(s).msg)
  BY <1>2, <1>4 DEF Holds, HoldsOnce
<1> QED
  BY <1>1, <1>5, <1>6, <1>7 DEF r

\* An event on chat:outbound is its message.
LEMMA OutboundEvent ==
  ASSUME NEW e \in Event, e.kind = "outbound"
  PROVE  e = Outbound(e.msg) /\ e.msg \in Msgs
BY DEF Event, Receipt, Outbound

\* The counting handler of a message names the message and the instance.
LEMMA CountTaskFields ==
  ASSUME NEW i, NEW m
  PROVE  /\ CountTask(i, m).loc = "increment" /\ CountTask(i, m).inst = i
         /\ CountTask(i, m).ev = Outbound(m) /\ CountTask(i, m).ev.msg = m
         /\ CountTask(i, m).convs = {}
BY DEF CountTask, Task, Outbound

\* The published event is no new message: every inbox holds the messages it held.
LEMMA PublishOther ==
  ASSUME TypeOK, OnceEach, NEW e \in Event, Publish(e), e.kind # "outbound"
  PROVE  \A i \in Instances :
           HoldsOnce(inbox'[i]) /\ \A m : Holds(inbox'[i], m) <=> Holds(inbox[i], m)
<1> SUFFICES ASSUME NEW i \in Instances
             PROVE  HoldsOnce(inbox'[i]) /\ \A m : Holds(inbox'[i], m) <=> Holds(inbox[i], m)
  OBVIOUS
<1>1. inbox[i] \in Seq(Event) /\ HoldsOnce(inbox[i])
  BY DEF TypeOK, OnceEach
<1>2. inbox'[i] = Append(inbox[i], e) \/ inbox'[i] = inbox[i]
  BY DEF Publish
<1>3. /\ HoldsOnce(Append(inbox[i], e))
      /\ \A m : Holds(Append(inbox[i], e), m) <=> Holds(inbox[i], m)
  BY <1>1, HoldsAppend
<1> QED
  BY <1>1, <1>2, <1>3

\* The event taken is no message.
LEMMA TakeOther ==
  ASSUME TypeOK, OnceEach, NEW i \in Instances, inbox[i] # <<>>,
         Head(inbox[i]).kind # "outbound", inbox' = [inbox EXCEPT ![i] = Tail(@)]
  PROVE  \A j \in Instances :
           HoldsOnce(inbox'[j]) /\ \A m : Holds(inbox'[j], m) <=> Holds(inbox[j], m)
<1> SUFFICES ASSUME NEW j \in Instances
             PROVE  HoldsOnce(inbox'[j]) /\ \A m : Holds(inbox'[j], m) <=> Holds(inbox[j], m)
  OBVIOUS
<1>1. inbox[i] \in Seq(Event) /\ HoldsOnce(inbox[i]) /\ HoldsOnce(inbox[j])
  BY DEF TypeOK, OnceEach
<1>2. inbox'[j] = IF j = i THEN Tail(inbox[i]) ELSE inbox[j]
  BY DEF TypeOK
<1> QED
  BY <1>1, <1>2, HoldsTail

\* No message comes to an instance, and no handler that counts one.
LEMMA OnceKept ==
  ASSUME OnceEach, UNCHANGED published,
         \A i \in Instances :
           HoldsOnce(inbox'[i]) /\ \A m \in Msgs : Holds(inbox'[i], m) => Holds(inbox[i], m),
         \A t \in tasks' : t.loc = "increment" => t \in tasks
  PROVE  OnceEach'
<1>1. \A i, m : CountTask(i, m) \in tasks' => CountTask(i, m) \in tasks
  BY CountTaskFields
<1> QED
  BY <1>1 DEF OnceEach

\* What an instance has still to count.
LEMMA UncountedKept ==
  ASSUME \A i \in Instances : \A m \in Msgs : Holds(inbox'[i], m) <=> Holds(inbox[i], m),
         \A t : t.loc = "increment" => (t \in tasks' <=> t \in tasks)
  PROVE  \A i \in Instances, m \in Msgs : Uncounted(i, m)' <=> Uncounted(i, m)
<1>1. \A i, m : CountTask(i, m) \in tasks' <=> CountTask(i, m) \in tasks
  BY CountTaskFields
<1> QED
  BY <1>1 DEF Uncounted

LEMMA CountedKept ==
  ASSUME TypeOK, UNCHANGED published, NEW c \in Convs, NEW u \in Users, unread'[c][u] = unread[c][u],
         \A i \in Instances, m \in PublishedFor(c, u) : Uncounted(i, m)' <=> Uncounted(i, m)
  PROVE  Counted(c, u)' = Counted(c, u) /\ (CountExact(c, u) => CountExact(c, u)')
<1>1. PublishedFor(c, u)' = PublishedFor(c, u)
  BY DEF PublishedFor
<1>2. Counted(c, u)' = Counted(c, u)
  BY <1>1 DEF Counted
<1> QED
  BY <1>2 DEF CountExact

-----------------------------------------------------------------------------
(* What a step of a handler leaves of the handlers *)

\* Handler t is replaced by one at a place of L, or by none, and no other changes.
Replaced(t, L) ==
  /\ tasks \ {t} \subseteq tasks'
  /\ \A n \in tasks' : n \in tasks \ {t} \/ (n.loc \in L /\ ConvsMarked(n))

Later == {"read", "write", "ack", "find", "reset", "zero"}

LEMMA GoReplaced ==
  ASSUME NEW t \in Handler, ConvsMarked(t), NEW l \in Locs \ {"zero"}, Go(t, l)
  PROVE  Replaced(t, {l})
<1> DEFINE n == [t EXCEPT !.loc = l]
<1>1. n.loc = l /\ n.convs = t.convs /\ n.ev = t.ev
  BY DEF Handler
<1>2. ConvsMarked(n)
  BY <1>1 DEF ConvsMarked
<1> QED
  BY <1>1, <1>2 DEF Go, Become, Replaced

LEMMA ProceedReplaced ==
  ASSUME NEW t, NEW s \in Handler, ConvsMarked(s), NEW T, Proceed(t, s, T)
  PROVE  Replaced(t, Later)
<1>1. PICK K \in SUBSET (s.todo \ s.fresh) :
        \/ \E m \in s.todo \cap s.fresh :
             Become(t, [s EXCEPT !.loc = "read", !.cur = {m}, !.todo = @ \ (K \cup {m})])
        \/ IF s.convs = {} THEN Return(t) ELSE Become(t, [s EXCEPT !.loc = "reset"])
  BY DEF Proceed
<1>2. ASSUME NEW m
      PROVE  LET n == [s EXCEPT !.loc = "read", !.cur = {m}, !.todo = @ \ (K \cup {m})]
             IN  n.loc = "read" /\ ConvsMarked(n)
  BY DEF Handler, ConvsMarked
<1>3. LET n == [s EXCEPT !.loc = "reset"] IN n.loc = "reset" /\ ConvsMarked(n)
  BY DEF Handler, ConvsMarked
<1> QED
  BY <1>1, <1>2, <1>3 DEF Become, Return, Replaced, Later

LEMMA AfterPersistReplaced ==
  ASSUME NEW t \in Handler, ConvsMarked(t), NEW result, AfterPersist(t, result)
  PROVE  Replaced(t, Later)
<1>1. Return(t) => Replaced(t, Later)
  BY DEF Return, Replaced
<1>2. Go(t, "ack") => Replaced(t, Later)
  <2> SUFFICES ASSUME Go(t, "ack") PROVE Replaced(t, Later)
    OBVIOUS
  <2>1. Replaced(t, {"ack"})
    BY GoReplaced DEF Locs
  <2> QED
    BY <2>1 DEF Replaced, Later
<1>3. Proceed(t, t, t.cur) => Replaced(t, Later)
  BY ProceedReplaced
<1> QED
  BY <1>1, <1>2, <1>3 DEF AfterPersist

\* Where the steps of a handler lead.
LEMMA StepReplaces ==
  ASSUME IInv, NEW t \in tasks, ConvsMarked(t)
  PROVE  /\ Increment(t) => Replaced(t, {"count"})
         /\ ReadCount(t) => Replaced(t, {"announce"})
         /\ (\/ AnnounceCount(t) \/ PublishAck(t) \/ ReadStatus(t) \/ WriteStatus(t)
             \/ Find(t) \/ Reset(t) \/ AnnounceZero(t) \/ CallFails(t)) => Replaced(t, Later)
<1>1. t \in Handler /\ TaskSound(t)
  BY DEF IInv, TypeOK
<1>2. Return(t) => Replaced(t, Later)
  BY DEF Return, Replaced
<1>3. \A l \in Later \ {"zero"} : Go(t, l) => Replaced(t, Later)
  <2> SUFFICES ASSUME NEW l \in Later \ {"zero"}, Go(t, l) PROVE Replaced(t, Later)
    OBVIOUS
  <2>1. Replaced(t, {l})
    BY <1>1, GoReplaced DEF Later, Locs
  <2> QED
    BY <2>1 DEF Replaced
<1>4. \A result : AfterPersist(t, result) => Replaced(t, Later)
  BY <1>1, AfterPersistReplaced
<1>5. Increment(t) => Replaced(t, {"count"})
  BY <1>1, GoReplaced DEF Increment, Locs
<1>6. ASSUME ReadCount(t) PROVE Replaced(t, {"announce"})
  <2> DEFINE n == [t EXCEPT !.loc = "announce",
                            !.count = unread[ConvOf[t.ev.msg]][RecipientOf[t.ev.msg]]]
  <2>1. n.loc = "announce" /\ n.convs = t.convs /\ n.ev = t.ev
    BY <1>1 DEF Handler
  <2>2. ConvsMarked(n)
    BY <2>1 DEF ConvsMarked
  <2> QED
    BY <1>6, <2>1, <2>2 DEF ReadCount, Become, Replaced
<1>7. ASSUME AnnounceCount(t) \/ PublishAck(t) \/ AnnounceZero(t)
      PROVE  Replaced(t, Later)
  BY <1>2, <1>3, <1>7 DEF AnnounceCount, PublishAck, AnnounceZero, Later
<1>8. ASSUME ReadStatus(t) \/ WriteStatus(t) \/ CallFails(t)
      PROVE  Replaced(t, Later)
  BY <1>2, <1>3, <1>4, <1>8 DEF ReadStatus, WriteStatus, CallFails, Later
<1>9. ASSUME Find(t) PROVE Replaced(t, Later)
  <2> DEFINE found == t.ev.msgs \cap Saved
             others == {m \in found : SenderOf[m] # t.ev.by}
             behind == IF t.ev.kind = "seen" THEN {m \in others : status[m] # "SEEN"}
                       ELSE {m \in others : status[m] = "QUEUED"}
             todo == IF t.ev.kind = "seen" THEN others ELSE behind
             convs == IF t.ev.kind = "seen" THEN {ConvOf[m] : m \in found} ELSE {}
             start == [t EXCEPT !.fresh = behind, !.todo = todo, !.convs = convs]
  <2>1. Proceed(t, start, {}) /\ t.loc = "find"
    BY <1>9 DEF Find
  <2>2. convs \subseteq MarkedConvs(t.ev)
    BY DEF MarkedConvs
  <2>3. /\ behind \subseteq Msgs /\ todo \subseteq Msgs /\ convs \subseteq Convs
    BY MsgsAssumption DEF Saved
  <2> HIDE DEF behind, todo, convs
  <2>4. start \in Handler /\ start.ev = t.ev /\ start.convs = convs /\ start.loc = "find"
    BY <1>1, <2>1, <2>3 DEF Handler
  <2>5. ConvsMarked(start)
    BY <2>2, <2>4 DEF ConvsMarked
  <2> HIDE DEF start
  <2> QED
    BY <2>1, <2>4, <2>5, ProceedReplaced
<1>10. ASSUME Reset(t) PROVE Replaced(t, Later)
  <2>1. PICK c \in t.convs : Become(t, [t EXCEPT !.loc = "zero", !.cur = {c}, !.convs = @ \ {c}])
    BY <1>10 DEF Reset
  <2> DEFINE n == [t EXCEPT !.loc = "zero", !.cur = {c}, !.convs = @ \ {c}]
  <2>2. n.loc = "zero" /\ n.convs = t.convs \ {c} /\ n.ev = t.ev /\ n.cur = {c}
    BY <1>1 DEF Handler
  <2>3. ConvsMarked(n)
    BY <2>2 DEF ConvsMarked
  <2> QED
    BY <2>1, <2>2, <2>3 DEF Become, Replaced, Later
<1> QED
  BY <1>5, <1>6, <1>7, <1>8, <1>9, <1>10

-----------------------------------------------------------------------------
(* Every step keeps the counts *)

\* Reading is never forgotten while nobody moves and nothing fails.
LEMMA ReadForGood ==
  ASSUME receipts \subseteq receipts',
         moves' \in Nat, moves' > 0 \/ UNCHANGED <<away, viewing, moves>>,
         NEW c, NEW u, HasRead(c, u)
  PROVE  HasRead(c, u)'
BY DEF HasRead

\* The shape of a proof that a step keeps the counts.
LEMMA CountsKept ==
  ASSUME CountInv, OnceEach', Healthy', \A t \in tasks' : ConvsMarked(t),
         faults' = 0 => /\ faults = 0
                        /\ \A c \in Convs, u \in Users :
                             HasRead(c, u)' \/ (~HasRead(c, u) /\ CountExact(c, u)')
  PROVE  CountInv'
<1>1. \A t \in tasks' : ConvsMarked(t)'
  BY DEF ConvsMarked, MarkedConvs
<1> QED
  BY <1>1 DEF CountInv, Unharmed

\* A step of a handler other than an increment, a reset and a failure.
LEMMA HandlerCounts ==
  ASSUME IInv, CountInv, NEW t \in tasks,
         \/ ReadCount(t) \/ AnnounceCount(t) \/ PublishAck(t) \/ ReadStatus(t)
         \/ WriteStatus(t) \/ Find(t) \/ AnnounceZero(t)
  PROVE  /\ CountInv'
         /\ UNCHANGED <<unread, published, faults>>
         /\ \A i \in Instances, m \in Msgs : Uncounted(i, m)' <=> Uncounted(i, m)
<1> USE DEF dbVars, busVars, clientVars, placeVars, sentVars
<1>1. /\ t \in Handler /\ TaskSound(t) /\ ConvsMarked(t) /\ TypeOK /\ OnceEach
      /\ t.ev \in Event /\ t.inst \in Instances
  BY DEF IInv, TypeOK, Handler, CountInv
<1>2. /\ UNCHANGED <<unread, up, published, receipts, placeVars, faults>>
      /\ t.loc # "increment"
  BY DEF ReadCount, AnnounceCount, PublishAck, ReadStatus, WriteStatus, Find, AnnounceZero
<1>3. \/ inbox' = inbox
      \/ \E e \in Event : Publish(e) /\ e.kind # "outbound"
  <2>1. CASE ReadCount(t) \/ ReadStatus(t) \/ WriteStatus(t) \/ Find(t)
    BY <2>1 DEF ReadCount, ReadStatus, WriteStatus, Find
  <2>2. CASE AnnounceCount(t)
    <3> DEFINE e == [kind |-> "unread", user |-> RecipientOf[t.ev.msg],
                     conv |-> ConvOf[t.ev.msg], count |-> t.count]
    <3>1. t.ev.kind = "outbound" /\ t.ev.msg \in Msgs
      BY <1>1, <2>2, EventKinds DEF AnnounceCount, TaskSound
    <3>2. e \in Event /\ e.kind # "outbound"
      BY <1>1, <3>1, MsgsAssumption DEF Event, Handler
    <3> QED
      BY <2>2, <3>2 DEF AnnounceCount
  <2>3. CASE PublishAck(t)
    <3> DEFINE e == [kind |-> "ack", msg |-> t.ev.msg, from |-> t.inst]
    <3>1. t.ev.kind = "outbound" /\ t.ev.msg \in Msgs
      BY <1>1, <2>3, EventKinds DEF PublishAck, TaskSound
    <3>2. e \in Event /\ e.kind # "outbound"
      BY <1>1, <3>1 DEF Event
    <3> QED
      BY <2>3, <3>2 DEF PublishAck
  <2>4. CASE AnnounceZero(t)
    <3>1. PICK c \in t.cur : Publish([kind |-> "unread", user |-> t.ev.by, conv |-> c, count |-> 0])
      BY <2>4 DEF AnnounceZero
    <3> DEFINE e == [kind |-> "unread", user |-> t.ev.by, conv |-> c, count |-> 0]
    <3>2. t.ev.by \in Users /\ c \in Convs
      BY <1>1, <2>4, EventKinds DEF AnnounceZero, TaskSound
    <3>3. e \in Event /\ e.kind # "outbound"
      BY <3>2 DEF Event
    <3> QED
      BY <3>1, <3>3
  <2> QED
    BY <2>1, <2>2, <2>3, <2>4
<1>4. \A i \in Instances :
        HoldsOnce(inbox'[i]) /\ \A m : Holds(inbox'[i], m) <=> Holds(inbox[i], m)
  BY <1>1, <1>3, PublishOther DEF OnceEach
<1>5. Replaced(t, {"announce"} \cup Later)
  BY <1>1, StepReplaces DEF Replaced
<1>6. /\ \A x : x.loc = "increment" => (x \in tasks' <=> x \in tasks)
      /\ \A x \in tasks' : ConvsMarked(x)
  BY <1>2, <1>5 DEF Replaced, Later, CountInv
<1>7. \A i \in Instances, m \in Msgs : Uncounted(i, m)' <=> Uncounted(i, m)
  BY <1>4, <1>6, UncountedKept
<1>8. OnceEach'
  BY <1>1, <1>2, <1>4, <1>6, OnceKept
<1>9. Healthy'
  BY <1>2 DEF CountInv, Healthy
<1>10. ASSUME NEW c \in Convs, NEW u \in Users
       PROVE  HasRead(c, u)' <=> HasRead(c, u)
  BY <1>2 DEF HasRead
<1>11. ASSUME NEW c \in Convs, NEW u \in Users, CountExact(c, u)
       PROVE  CountExact(c, u)'
  <2>1. PublishedFor(c, u) \subseteq Msgs
    BY <1>1 DEF TypeOK, Saved, PublishedFor
  <2> QED
    BY <1>1, <1>2, <1>7, <1>11, <2>1, CountedKept
<1> QED
  BY <1>2, <1>6, <1>7, <1>8, <1>9, <1>10, <1>11, CountsKept DEF CountInv, Unharmed

\* The increment: the message in hand is counted, for the first time on this instance.
LEMMA IncrementCounts ==
  ASSUME IInv, CountInv, NEW t \in tasks, Increment(t)
  PROVE  /\ CountInv'
         /\ t.ev.msg \in published /\ Uncounted(t.inst, t.ev.msg) /\ ~Uncounted(t.inst, t.ev.msg)'
         /\ \A j, x : j # t.inst \/ x # t.ev.msg => (Uncounted(j, x)' <=> Uncounted(j, x))
<1> USE DEF dbVars, busVars, clientVars, placeVars, sentVars
<1> DEFINE i == t.inst
           m == t.ev.msg
<1>1. /\ t \in Handler /\ TaskSound(t) /\ ConvsMarked(t) /\ TypeOK /\ OnceEach
      /\ t.ev \in Event /\ i \in Instances /\ t.loc = "increment"
  BY DEF IInv, TypeOK, Handler, CountInv, Increment
<1>2. /\ t.ev.kind = "outbound" /\ m \in Msgs /\ m \in published
      /\ t = CountTask(i, m)
  BY <1>1, EventKinds DEF TaskSound, OnceEach
<1>3. /\ unread' = [unread EXCEPT ![ConvOf[m]][RecipientOf[m]] = @ + 1]
      /\ UNCHANGED <<inbox, up, published, receipts, placeVars, faults>>
  BY DEF Increment
<1>4. ~Holds(inbox[i], m) /\ Uncounted(i, m)
  BY <1>1, <1>2 DEF OnceEach, Uncounted
<1>5. Replaced(t, {"count"})
  BY <1>1, StepReplaces
<1>6. /\ \A x : x.loc = "increment" => (x \in tasks' <=> x \in tasks \ {t})
      /\ \A x \in tasks' : ConvsMarked(x)
  BY <1>5 DEF Replaced, CountInv
<1>7. ~Uncounted(i, m)'
  BY <1>2, <1>3, <1>4, <1>6, CountTaskFields DEF Uncounted
<1>8. ASSUME NEW j, NEW x, j # i \/ x # m
      PROVE  Uncounted(j, x)' <=> Uncounted(j, x)
  <2>1. CountTask(j, x) # CountTask(i, m)
    BY <1>8, CountTaskFields
  <2>2. CountTask(j, x) \in tasks' <=> CountTask(j, x) \in tasks
    BY <1>2, <1>6, <2>1, CountTaskFields
  <2> QED
    BY <1>3, <2>2 DEF Uncounted
<1>9. OnceEach'
  BY <1>1, <1>3, <1>6, OnceKept DEF OnceEach
<1>10. Healthy'
  BY <1>3 DEF CountInv, Healthy
<1>11. ASSUME NEW c \in Convs, NEW u \in Users
       PROVE  /\ HasRead(c, u)' <=> HasRead(c, u)
              /\ PublishedFor(c, u)' = PublishedFor(c, u)
  BY <1>3 DEF HasRead, PublishedFor
<1>12. ASSUME NEW c \in Convs, NEW u \in Users, CountExact(c, u)
       PROVE  CountExact(c, u)'
  <2>1. CASE c = ConvOf[m] /\ u = RecipientOf[m]
    <3>1. unread'[c][u] = unread[c][u] + 1
      BY <1>1, <1>3, <2>1 DEF TypeOK
    <3>2. <<i, m>> \in Instances \X PublishedFor(c, u)
      BY <1>1, <1>2, <2>1 DEF PublishedFor
    <3>3. <<i, m>> \notin Counted(c, u)
      BY <1>4 DEF Counted
    <3>4. ASSUME NEW im \in Instances \X PublishedFor(c, u)
          PROVE  ~Uncounted(im[1], im[2])' <=> im = <<i, m>> \/ ~Uncounted(im[1], im[2])
      <4>1. CASE im = <<i, m>>
        BY <1>7, <4>1
      <4>2. CASE im # <<i, m>>
        <5>1. im[1] # i \/ im[2] # m
          BY <4>2
        <5> QED
          BY <1>8, <4>2, <5>1
      <4> QED
        BY <4>1, <4>2
    <3> HIDE DEF i, m
    <3>5. Counted(c, u)' = Counted(c, u) \cup {<<i, m>>}
      BY <1>11, <3>2, <3>4 DEF Counted
    <3>6. IsFiniteSet(Counted(c, u)) /\ unread[c][u] = Cardinality(Counted(c, u))
      BY <1>12 DEF CountExact
    <3>7. /\ IsFiniteSet(Counted(c, u) \cup {<<i, m>>})
          /\ Cardinality(Counted(c, u) \cup {<<i, m>>}) = Cardinality(Counted(c, u)) + 1
      BY <3>3, <3>6, FS_AddElement
    <3> QED
      BY <3>1, <3>5, <3>6, <3>7 DEF CountExact
  <2>2. CASE ~(c = ConvOf[m] /\ u = RecipientOf[m])
    <3>1. unread'[c][u] = unread[c][u]
      BY <1>1, <1>2, <1>3, <2>2, MsgsAssumption DEF TypeOK
    <3>2. m \notin PublishedFor(c, u)
      BY <2>2 DEF PublishedFor
    <3>3. \A j \in Instances, x \in PublishedFor(c, u) : Uncounted(j, x)' <=> Uncounted(j, x)
      BY <1>8, <3>2
    <3> QED
      BY <1>1, <1>3, <1>12, <3>1, <3>3, CountedKept
  <2> QED
    BY <2>1, <2>2
<1>13. CountInv'
  BY <1>3, <1>6, <1>9, <1>10, <1>11, <1>12, CountsKept DEF CountInv, Unharmed
<1> QED
  BY <1>2, <1>4, <1>7, <1>8, <1>13

\* A reset touches a conversation its user has marked.
LEMMA ResetCounts ==
  ASSUME IInv, CountInv, NEW t \in tasks, Reset(t)
  PROVE  CountInv'
<1> USE DEF dbVars, busVars, clientVars, placeVars, sentVars
<1>1. /\ t \in Handler /\ TaskSound(t) /\ ConvsMarked(t) /\ TypeOK /\ OnceEach
      /\ t.ev \in Event /\ t.loc = "reset"
  BY DEF IInv, TypeOK, Handler, CountInv, Reset
<1>2. PICK c \in t.convs : unread' = [unread EXCEPT ![c][t.ev.by] = 0]
  BY DEF Reset
<1>3. UNCHANGED <<inbox, up, published, receipts, placeVars, faults>>
  BY DEF Reset
<1>4. /\ t.ev.kind = "seen" /\ t.ev \in receipts
      /\ \E m \in t.ev.msgs : ConvOf[m] = c
  BY <1>1, <1>2 DEF ConvsMarked, MarkedConvs, TaskSound
<1>5. HasRead(c, t.ev.by)
  BY <1>4 DEF HasRead
<1>6. Replaced(t, Later)
  BY <1>1, StepReplaces
<1>7. /\ \A x : x.loc = "increment" => (x \in tasks' <=> x \in tasks)
      /\ \A x \in tasks' : ConvsMarked(x)
  BY <1>1, <1>6 DEF Replaced, Later, CountInv
<1>8. OnceEach'
  BY <1>1, <1>3, <1>7, OnceKept DEF OnceEach
<1>9. Healthy'
  BY <1>3 DEF CountInv, Healthy
<1>10. \A i \in Instances, m \in Msgs : Uncounted(i, m)' <=> Uncounted(i, m)
  BY <1>3, <1>7, UncountedKept
<1>11. ASSUME NEW d \in Convs, NEW u \in Users
       PROVE  HasRead(d, u)' <=> HasRead(d, u)
  BY <1>3 DEF HasRead
<1>12. ASSUME NEW d \in Convs, NEW u \in Users, ~HasRead(d, u), CountExact(d, u)
       PROVE  CountExact(d, u)'
  <2>1. PublishedFor(d, u) \subseteq Msgs
    BY <1>1 DEF TypeOK, Saved, PublishedFor
  <2>2. d # c \/ u # t.ev.by
    BY <1>5, <1>12
  <2>3. t.ev.by \in Users /\ c \in Convs
    BY <1>1, <1>4, EventKinds DEF Handler
  <2>4. unread'[d][u] = unread[d][u]
    BY <1>1, <1>2, <2>2, <2>3 DEF TypeOK
  <2> QED
    BY <1>1, <1>3, <1>10, <1>12, <2>1, <2>4, CountedKept
<1> QED
  BY <1>3, <1>7, <1>8, <1>9, <1>11, <1>12, CountsKept DEF CountInv, Unharmed

\* The worker publishes a message: every instance has it to count.
LEMMA WorkerCounts ==
  ASSUME IInv, CountInv, Worker
  PROVE  /\ CountInv'
         /\ faults = 0 => \A c \in Convs, u \in Users : Counted(c, u)' = Counted(c, u)
<1> USE DEF dbVars, busVars, clientVars, placeVars, sentVars
<1>1. TypeOK /\ OnceEach /\ Healthy
  BY DEF IInv, CountInv
<1>2. ASSUME NEW m \in Msgs, SaveMessage(m)
      PROVE  CountInv' /\ \A c \in Convs, u \in Users : Counted(c, u)' = Counted(c, u)
  <2>1. UNCHANGED <<unread, inbox, tasks, up, published, receipts, placeVars, faults>>
    BY <1>2 DEF SaveMessage
  <2>2. OnceEach' /\ Healthy'
    BY <1>1, <2>1 DEF OnceEach, Healthy
  <2>3. ASSUME NEW c \in Convs, NEW u \in Users
        PROVE  /\ HasRead(c, u)' = HasRead(c, u) /\ CountExact(c, u)' = CountExact(c, u)
               /\ Counted(c, u)' = Counted(c, u)
    BY <2>1 DEF HasRead, CountExact, Counted, PublishedFor, Uncounted
  <2> QED
    BY <2>1, <2>2, <2>3, CountsKept DEF CountInv, Unharmed
<1>3. ASSUME NEW m \in Msgs, PublishOutbound(m)
      PROVE  /\ CountInv'
             /\ faults = 0 => \A c \in Convs, u \in Users : Counted(c, u)' = Counted(c, u)
  <2> DEFINE e == Outbound(m)
  <2>1. /\ e \in Event /\ e.kind = "outbound" /\ e.msg = m /\ Publish(e)
        /\ m \notin published /\ published' = published \cup {m}
        /\ UNCHANGED <<unread, tasks, up, receipts, placeVars, faults>>
    BY <1>3 DEF PublishOutbound, Outbound, Event
  <2> HIDE DEF e
  <2>2. ASSUME NEW i \in Instances
        PROVE  /\ HoldsOnce(inbox'[i])
               /\ \A x : Holds(inbox'[i], x) => Holds(inbox[i], x) \/ x = m
               /\ \A x : Holds(inbox[i], x) => Holds(inbox'[i], x)
               /\ i \in up => Holds(inbox'[i], m)
    <3>1. inbox[i] \in Seq(Event) /\ HoldsOnce(inbox[i]) /\ ~Holds(inbox[i], m)
      BY <1>1, <2>1 DEF TypeOK, OnceEach
    <3>2. inbox'[i] = IF i \in up THEN Append(inbox[i], e) ELSE inbox[i]
      BY <2>1 DEF Publish
    <3>3. /\ HoldsOnce(Append(inbox[i], e))
          /\ \A x : Holds(Append(inbox[i], e), x) <=> Holds(inbox[i], x) \/ x = m
      BY <2>1, <3>1, HoldsAppend
    <3> QED
      BY <3>1, <3>2, <3>3
  <2>3. \A i : CountTask(i, m) \notin tasks
    BY <1>1, <2>1, CountTaskFields DEF OnceEach
  <2>4. OnceEach'
    BY <1>1, <2>1, <2>2, <2>3 DEF OnceEach
  <2>5. Healthy'
    BY <1>1, <2>1, FS_AddElement DEF Healthy
  <2>6. ASSUME NEW c \in Convs, NEW u \in Users
        PROVE  HasRead(c, u)' <=> HasRead(c, u)
    BY <2>1 DEF HasRead
  <2>7. ASSUME NEW c \in Convs, NEW u \in Users, faults = 0
        PROVE  Counted(c, u)' = Counted(c, u)
    <3>1. \A i \in Instances : Uncounted(i, m)'
      BY <1>1, <2>2, <2>7 DEF Healthy, Uncounted
    <3>2. \A i \in Instances : \A x : x # m => (Uncounted(i, x)' <=> Uncounted(i, x))
      BY <2>1, <2>2 DEF Uncounted
    <3>3. /\ PublishedFor(c, u) \subseteq PublishedFor(c, u)'
          /\ PublishedFor(c, u)' \subseteq PublishedFor(c, u) \cup {m}
          /\ m \notin PublishedFor(c, u)
      BY <2>1 DEF PublishedFor
    <3> QED
      <4>1. ASSUME NEW im \in Counted(c, u)' PROVE im \in Counted(c, u)
        <5>1. im \in Instances \X PublishedFor(c, u)' /\ ~Uncounted(im[1], im[2])'
          BY <4>1 DEF Counted
        <5>2. im[2] # m
          BY <3>1, <5>1
        <5> QED
          BY <3>2, <3>3, <5>1, <5>2 DEF Counted
      <4>2. ASSUME NEW im \in Counted(c, u) PROVE im \in Counted(c, u)'
        <5>1. im \in Instances \X PublishedFor(c, u) /\ ~Uncounted(im[1], im[2])
          BY <4>2 DEF Counted
        <5>2. im[2] # m
          BY <3>3, <5>1
        <5>3. ~Uncounted(im[1], im[2])'
          BY <3>2, <5>1, <5>2
        <5>4. im \in Instances \X PublishedFor(c, u)'
          BY <3>3, <5>1
        <5> QED
          BY <5>3, <5>4 DEF Counted
      <4> QED
        BY <4>1, <4>2
  <2>8. ASSUME NEW c \in Convs, NEW u \in Users, faults = 0, CountExact(c, u)
        PROVE  CountExact(c, u)'
    BY <2>1, <2>7, <2>8 DEF CountExact
  <2> QED
    BY <2>1, <2>4, <2>5, <2>6, <2>7, <2>8, CountsKept DEF CountInv, Unharmed
<1> QED
  BY <1>2, <1>3 DEF Worker

\* A message is taken from an inbox: its handler goes on to count it, unless the
\* recipient views the conversation here.
LEMMA OutboundCounts ==
  ASSUME IInv, CountInv, NEW i \in Instances, HandleOutbound(i)
  PROVE  /\ CountInv'
         /\ UNCHANGED <<unread, badge, published, receipts, placeVars, faults>>
         /\ \A c \in Convs, u \in Users : HasRead(c, u) \/
              \A j \in Instances, x \in PublishedFor(c, u) : Uncounted(j, x)' <=> Uncounted(j, x)
<1> USE DEF dbVars, busVars, clientVars, placeVars, sentVars
<1> DEFINE e == Head(inbox[i])
           m == e.msg
           u0 == RecipientOf[m]
           views == IsViewing(i, u0, ConvOf[m])
           n == Task(i, e, IF views THEN "read" ELSE "increment")
<1>1. TypeOK /\ OnceEach /\ Healthy
  BY DEF IInv, CountInv
<1>2. /\ i \in up /\ inbox[i] # <<>> /\ e.kind = "outbound"
      /\ inbox[i] \in Seq(Event) /\ HoldsOnce(inbox[i])
  BY <1>1 DEF HandleOutbound, Receives, TypeOK, OnceEach
<1>3. e \in Event
  BY <1>2
<1>4. /\ inbox' = [inbox EXCEPT ![i] = Tail(@)] /\ tasks' = tasks \cup {n}
      /\ UNCHANGED <<unread, badge, up, published, receipts, placeVars, faults>>
  BY DEF HandleOutbound, Begin
<1>5. e = Outbound(m) /\ m \in Msgs
  BY <1>2, <1>3, OutboundEvent
<1>6. /\ n.loc = (IF views THEN "read" ELSE "increment") /\ n.convs = {}
      /\ n.inst = i /\ n.ev.msg = m
      /\ ~views => n = CountTask(i, m)
  BY <1>5 DEF Task, CountTask
<1>7. /\ HoldsOnce(Tail(inbox[i])) /\ ~Holds(Tail(inbox[i]), m)
      /\ \A x : Holds(inbox[i], x) <=> Holds(Tail(inbox[i]), x) \/ m = x
  BY <1>2, HoldsTail
<1> HIDE DEF n, views, e
<1>8. ASSUME NEW j \in Instances
      PROVE  inbox'[j] = IF j = i THEN Tail(inbox[i]) ELSE inbox[j]
  BY <1>1, <1>4 DEF TypeOK
<1>9. Holds(inbox[i], m) /\ m \in published /\ CountTask(i, m) \notin tasks
  BY <1>1, <1>5, <1>7 DEF OnceEach
<1>10. \A j, x : CountTask(j, x) \in tasks' <=>
                   CountTask(j, x) \in tasks \/ (~views /\ j = i /\ x = m)
  <2>1. ASSUME NEW j, NEW x, CountTask(j, x) = n
        PROVE  ~views /\ j = i /\ x = m
    BY <1>6, <2>1, CountTaskFields
  <2> QED
    BY <1>4, <1>6, <2>1
<1>11. ASSUME NEW j \in Instances, NEW x \in Msgs, ~views \/ x # m
       PROVE  Uncounted(j, x)' <=> Uncounted(j, x)
  <2>1. Holds(inbox'[j], x) <=> Holds(inbox[j], x) /\ (j # i \/ x # m)
    BY <1>7, <1>8
  <2> QED
    BY <1>9, <1>10, <1>11, <2>1 DEF Uncounted
<1>12. OnceEach'
  <2>1. \A j \in Instances : HoldsOnce(inbox'[j])
    BY <1>1, <1>7, <1>8 DEF OnceEach
  <2>2. ASSUME NEW j \in Instances, NEW x \in Msgs, Holds(inbox'[j], x)
        PROVE  x \in published' /\ CountTask(j, x) \notin tasks'
    BY <1>1, <1>4, <1>7, <1>8, <1>10, <2>2 DEF OnceEach
  <2>3. ASSUME NEW t \in tasks', t.loc = "increment"
        PROVE  t.ev.msg \in published' /\ t = CountTask(t.inst, t.ev.msg)
    BY <1>1, <1>4, <1>6, <1>9, <2>3 DEF OnceEach
  <2> QED
    BY <2>1, <2>2, <2>3 DEF OnceEach
<1>13. Healthy'
  BY <1>1, <1>4 DEF Healthy
<1>14. \A t \in tasks' : ConvsMarked(t)
  BY <1>4, <1>6 DEF CountInv, ConvsMarked
<1>15. ASSUME NEW c \in Convs, NEW u \in Users
       PROVE  HasRead(c, u)' <=> HasRead(c, u)
  BY <1>4 DEF HasRead
<1>16. ASSUME NEW c \in Convs, NEW u \in Users, ~HasRead(c, u),
              NEW j \in Instances, NEW x \in PublishedFor(c, u)
       PROVE  Uncounted(j, x)' <=> Uncounted(j, x)
  <2>1. x \in Msgs /\ ConvOf[x] = c /\ RecipientOf[x] = u
    BY <1>1 DEF TypeOK, Saved, PublishedFor
  <2>2. viewing[u] # c
    BY <1>16 DEF HasRead
  <2>3. x = m => ~views
    BY <2>1, <2>2 DEF views, IsViewing
  <2> QED
    BY <1>11, <2>1, <2>3
<1>17. ASSUME NEW c \in Convs, NEW u \in Users, ~HasRead(c, u), CountExact(c, u)
       PROVE  CountExact(c, u)'
  BY <1>1, <1>4, <1>16, <1>17, CountedKept
<1>18. CountInv'
  BY <1>4, <1>12, <1>13, <1>14, <1>15, <1>17, CountsKept DEF CountInv, Unharmed
<1> QED
  BY <1>4, <1>16, <1>18

\* Any other event is taken from an inbox, or a receipt is sent.
LEMMA OtherEventCounts ==
  ASSUME IInv, CountInv,
         \/ \E i \in Instances : HandleUnread(i) \/ HandleAck(i) \/ HandleReceipt(i)
         \/ \E r \in Receipt : SendReceipt(r)
  PROVE  /\ CountInv'
         /\ UNCHANGED <<unread, published, placeVars, faults>> /\ receipts \subseteq receipts'
         /\ \A i \in Instances, m \in Msgs : Uncounted(i, m)' <=> Uncounted(i, m)
<1> USE DEF dbVars, busVars, clientVars, placeVars, sentVars
<1>1. TypeOK /\ OnceEach /\ Healthy
  BY DEF IInv, CountInv
<1>2. /\ UNCHANGED <<unread, up, published, placeVars, faults>>
      /\ receipts \subseteq receipts'
  BY DEF HandleUnread, HandleAck, HandleReceipt, SendReceipt
<1>3. \A j \in Instances :
        HoldsOnce(inbox'[j]) /\ \A m : Holds(inbox'[j], m) <=> Holds(inbox[j], m)
  <2>1. ASSUME NEW i \in Instances, HandleUnread(i) \/ HandleAck(i) \/ HandleReceipt(i)
        PROVE  /\ inbox[i] # <<>> /\ Head(inbox[i]).kind # "outbound"
               /\ inbox' = [inbox EXCEPT ![i] = Tail(@)]
    BY <2>1 DEF HandleUnread, HandleAck, HandleReceipt, Receives, Begin
  <2>2. ASSUME NEW r \in Receipt, SendReceipt(r)
        PROVE  Publish(r) /\ r \in Event /\ r.kind # "outbound"
    BY <2>2 DEF SendReceipt, Event, Receipt
  <2> QED
    BY <1>1, <2>1, <2>2, TakeOther, PublishOther
<1>4. \A t \in tasks' : t \in tasks \/ (t.loc # "increment" /\ ConvsMarked(t))
  <2>1. ASSUME NEW i, NEW e, NEW l \in {"read", "find"}
        PROVE  Task(i, e, l).loc # "increment" /\ ConvsMarked(Task(i, e, l))
    BY DEF Task, ConvsMarked
  <2>2. \/ tasks' = tasks
        \/ \E i \in Instances : \E e : \E l \in {"read", "find"} : tasks' = tasks \cup {Task(i, e, l)}
    BY DEF HandleUnread, HandleAck, HandleReceipt, SendReceipt, Begin
  <2> QED
    BY <2>1, <2>2
<1>5. tasks \subseteq tasks'
  BY DEF HandleUnread, HandleAck, HandleReceipt, SendReceipt, Begin
<1>6. /\ \A t : t.loc = "increment" => (t \in tasks' <=> t \in tasks)
      /\ \A t \in tasks' : ConvsMarked(t)
  BY <1>4, <1>5 DEF CountInv
<1>7. OnceEach'
  BY <1>1, <1>2, <1>3, <1>6, OnceKept
<1>8. Healthy'
  BY <1>1, <1>2 DEF Healthy
<1>9. \A i \in Instances, m \in Msgs : Uncounted(i, m)' <=> Uncounted(i, m)
  BY <1>3, <1>6, UncountedKept
<1>10. ASSUME NEW c \in Convs, NEW u \in Users, HasRead(c, u)
       PROVE  HasRead(c, u)'
  BY <1>2, <1>8, <1>10, ReadForGood DEF Healthy
<1>11. ASSUME NEW c \in Convs, NEW u \in Users, CountExact(c, u)
       PROVE  CountExact(c, u)'
  <2>1. PublishedFor(c, u) \subseteq Msgs
    BY <1>1 DEF TypeOK, Saved, PublishedFor
  <2> QED
    BY <1>1, <1>2, <1>9, <1>11, <2>1, CountedKept
<1>12. CountInv'
  BY <1>2, <1>6, <1>7, <1>8, <1>10, <1>11, CountsKept DEF CountInv, Unharmed
<1> QED
  BY <1>2, <1>9, <1>12

\* A failure: from now on nothing is said about the counts.
LEMMA HarmCounts ==
  ASSUME IInv, CountInv,
         \/ \E t \in tasks : CallFails(t)
         \/ \E i \in Instances : Crash(i)
  PROVE  CountInv' /\ faults' # 0
<1> USE DEF dbVars, busVars, clientVars, placeVars, sentVars
<1>1. TypeOK /\ OnceEach /\ Healthy
  BY DEF IInv, CountInv
<1>2. faults' = faults + 1 /\ faults' # 0 /\ UNCHANGED <<published, moves, putting>>
  BY <1>1 DEF CallFails, Crash, Healthy
<1>3. \A j \in Instances :
        HoldsOnce(inbox'[j]) /\ \A m \in Msgs : Holds(inbox'[j], m) => Holds(inbox[j], m)
  <2>1. HoldsOnce(<<>>) /\ \A m : ~Holds(<<>>, m)
    BY DEF HoldsOnce, Holds
  <2>2. inbox' = inbox \/ \E i \in Instances : inbox' = [inbox EXCEPT ![i] = <<>>]
    BY DEF CallFails, Crash
  <2> QED
    BY <1>1, <2>1, <2>2 DEF TypeOK, OnceEach
<1>4. \A t \in tasks' : (t.loc = "increment" => t \in tasks) /\ ConvsMarked(t)
  <2>1. ASSUME NEW t \in tasks, CallFails(t) PROVE Replaced(t, Later)
    BY <2>1, StepReplaces DEF CountInv
  <2>2. ASSUME NEW i \in Instances, Crash(i) PROVE tasks' \subseteq tasks
    BY <2>2 DEF Crash
  <2> QED
    BY <2>1, <2>2 DEF Replaced, Later, CountInv
<1>5. OnceEach'
  BY <1>1, <1>2, <1>3, <1>4, OnceKept
<1>6. Healthy'
  BY <1>1, <1>2 DEF Healthy
<1> QED
  BY <1>2, <1>4, <1>5, <1>6, CountsKept

\* An instance is restarted, and clients connect, look, leave and read.
LEMMA PlacesCounts ==
  ASSUME IInv, CountInv,
         \/ \E i \in Instances : Restart(i)
         \/ \E u \in Users : Client(u)
  PROVE  /\ CountInv'
         /\ UNCHANGED <<inbox, tasks, published, receipts, faults>>
         /\ faults = 0 => moves' > 0
<1> USE DEF dbVars, busVars, clientVars, placeVars, sentVars
<1>1. TypeOK /\ OnceEach /\ Healthy
  BY DEF IInv, CountInv
<1>2. UNCHANGED <<inbox, tasks, published, receipts, faults>>
  BY DEF Restart, Client, Connect, Disconnect, CloseConversation, OpenConversation, MarkAsRead
<1>3. OnceEach'
  BY <1>1, <1>2 DEF OnceEach
<1>4. ASSUME NEW i \in Instances, Restart(i)
      PROVE  Healthy' /\ faults # 0
  BY <1>1, <1>4 DEF Restart, Healthy
<1>5. ASSUME NEW u \in Users, Client(u)
      PROVE  Healthy' /\ moves' > 0
  <2>1. CASE \E c \in Convs : MarkAsRead(u, c)
    <3>1. putting # {} /\ UNCHANGED <<moves, up, faults, published>>
      BY <2>1 DEF MarkAsRead
    <3> QED
      BY <1>1, <3>1 DEF Healthy
  <2>2. CASE ~\E c \in Convs : MarkAsRead(u, c)
    <3>1. moves' = moves + 1 /\ UNCHANGED <<up, faults, published>>
      BY <1>5, <2>2
      DEF Client, Connect, Disconnect, CloseConversation, OpenConversation, Moves
    <3> QED
      BY <1>1, <3>1 DEF Healthy
  <2> QED
    BY <2>1, <2>2
<1>6. Healthy' /\ (faults = 0 => moves' > 0)
  BY <1>4, <1>5
<1>7. ASSUME faults = 0, NEW c \in Convs, NEW u \in Users PROVE HasRead(c, u)'
  BY <1>6, <1>7 DEF HasRead
<1>8. CountInv'
  BY <1>2, <1>3, <1>6, <1>7, CountsKept DEF CountInv
<1> QED
  BY <1>2, <1>6, <1>8

LEMMA InitCounts == Init => CountInv
<1> SUFFICES ASSUME Init PROVE CountInv
  OBVIOUS
<1>1. TypeOK
  BY InitSound DEF IInv
<1>2. \A i \in Instances : HoldsOnce(inbox[i]) /\ \A m : ~Holds(inbox[i], m)
  BY DEF Init, HoldsOnce, Holds
<1>3. OnceEach
  BY <1>2 DEF Init, OnceEach
<1>4. Healthy
  BY FS_EmptySet DEF Init, Healthy
<1>5. ASSUME NEW c \in Convs, NEW u \in Users PROVE CountExact(c, u)
  <2>1. Counted(c, u) = {} /\ unread[c][u] = 0
    BY DEF Init, Counted, PublishedFor
  <2> QED
    BY <2>1, FS_EmptySet DEF CountExact
<1> QED
  BY <1>3, <1>4, <1>5 DEF CountInv, Init

LEMMA StepKeepsCounts == IInv /\ CountInv /\ [Next]_vars => CountInv'
<1> SUFFICES ASSUME IInv, CountInv, [Next]_vars PROVE CountInv'
  OBVIOUS
<1>1. CASE UNCHANGED vars
  BY <1>1 DEF vars, CountInv, OnceEach, Healthy, ConvsMarked, Unharmed, HasRead, CountExact,
       Counted, PublishedFor, Uncounted
<1>2. ASSUME NEW t \in tasks, StepTask(t) \/ CallFails(t) PROVE CountInv'
  BY <1>2, HandlerCounts, IncrementCounts, ResetCounts, HarmCounts DEF StepTask
<1>3. ASSUME NEW i \in Instances, Receive(i) \/ Crash(i) \/ Restart(i) PROVE CountInv'
  BY <1>3, OutboundCounts, OtherEventCounts, HarmCounts, PlacesCounts DEF Receive
<1> QED
  BY <1>1, <1>2, <1>3, WorkerCounts, OtherEventCounts, PlacesCounts DEF Next

\* Without a fault, every count of a member who read nothing is the number of pairs of an
\* instance and a message that the instance has handled.
THEOREM CountsAreKept == Spec => []CountInv
<1>1. IInv /\ CountInv /\ [Next]_vars => CountInv'
  BY StepKeepsCounts
<1> QED
  BY InitCounts, <1>1, Invariance, PTL DEF Spec

\* When all is handled, each of however many instances has counted each message once:
\* the count of a member is the number of messages times the number of instances.
CountedByEach ==
  Quiet /\ Unharmed => \A c \in Convs, u \in Users :
    HasRead(c, u) \/ unread[c][u] = Cardinality(Instances \X PublishedFor(c, u))

\* The unread count multiplies with the instances: each one increments it on its own.
THEOREM EachInstanceCounts == Spec => []CountedByEach
<1>1. CountInv => CountedByEach
  <2> SUFFICES ASSUME CountInv, Quiet, Unharmed, NEW c \in Convs, NEW u \in Users, ~HasRead(c, u)
               PROVE  unread[c][u] = Cardinality(Instances \X PublishedFor(c, u))
    BY DEF CountedByEach
  <2>1. \A i \in Instances : \A m : ~Uncounted(i, m)
    BY DEF Quiet, Uncounted, Holds
  <2>2. Counted(c, u) = Instances \X PublishedFor(c, u)
    BY <2>1 DEF Counted
  <2> QED
    BY <2>2 DEF CountInv, CountExact
<1> QED
  BY <1>1, CountsAreKept, PTL

\* On a single instance the count of a member who read nothing is exact.
THEOREM OneInstanceIsExact ==
  ASSUME NEW i, Instances = {i}
  PROVE  Spec => []UnreadIsExact
<1>1. CountInv /\ CountedByEach => UnreadIsExact
  <2> SUFFICES ASSUME CountInv, CountedByEach, Quiet, Unharmed,
                      NEW c \in Convs, NEW u \in Users, ~HasRead(c, u)
               PROVE  unread[c][u] = Cardinality(PublishedFor(c, u))
    BY DEF UnreadIsExact
  <2>1. IsFiniteSet(PublishedFor(c, u))
    BY FS_Subset DEF PublishedFor, CountInv, Healthy
  <2>2. Cardinality(PublishedFor(c, u)) \in Nat
    BY <2>1, FS_CardinalityType
  <2>3. IsFiniteSet({i}) /\ Cardinality({i}) = 1
    BY FS_Singleton
  <2>4. Cardinality({i} \X PublishedFor(c, u)) = 1 * Cardinality(PublishedFor(c, u))
    BY <2>1, <2>3, FS_Product
  <2>5. unread[c][u] = Cardinality({i} \X PublishedFor(c, u))
    BY DEF CountedByEach
  <2> QED
    BY <2>2, <2>4, <2>5
<1> QED
  BY <1>1, CountsAreKept, EachInstanceCounts, PTL

-----------------------------------------------------------------------------
(* The badge of a client comes to the stored count *)

\* The counts for u in c among the events s.
NewsOf(e, c, u) == e.kind = "unread" /\ e.user = u /\ e.conv = c
News(s, c, u) == {s[k].count : k \in {n \in DOMAIN s : NewsOf(s[n], c, u)}}

\* A handler has counted a message for u in c and has not announced the count.
Counting(t, c, u) ==
  t.loc \in {"count", "announce"} /\ ConvOf[t.ev.msg] = c /\ RecipientOf[t.ev.msg] = u

\* The user is connected, and at most one message was published for it.
Followed(c, u) == at[u] # Nowhere /\ \A m, n \in PublishedFor(c, u) : m = n

\* Every count on its way is the stored one, and if the client does not show it one
\* is on its way or about to be.
BadgeComing(c, u) ==
  /\ \A i \in Instances : News(inbox[i], c, u) \subseteq {unread[c][u]}
  /\ \A i \in Instances : News(inbox[i], c, u) # {} => Counted(c, u) # {}
  /\ \A t \in tasks : Counting(t, c, u) =>
       Counted(c, u) # {} /\ (t.loc = "announce" => t.count = unread[c][u])
  /\ \/ badge[c][u] = unread[c][u]
     \/ \E i \in Instances : News(inbox[i], c, u) # {}
     \/ \E t \in tasks : Counting(t, c, u)

BadgeInv ==
  Unharmed => \A c \in Convs, u \in Users :
    HasRead(c, u) \/ ~Followed(c, u) \/ BadgeComing(c, u)

\* An event is added to an inbox, or the first is taken.
LEMMA NewsAppend ==
  ASSUME NEW s \in Seq(Event), NEW e \in Event, NEW c, NEW u
  PROVE  News(Append(s, e), c, u) =
           News(s, c, u) \cup (IF NewsOf(e, c, u) THEN {e.count} ELSE {})
<1> DEFINE r == Append(s, e)
<1>1. /\ Len(s) \in Nat /\ DOMAIN s = 1..Len(s) /\ DOMAIN r = 1..(Len(s) + 1)
      /\ r[Len(s) + 1] = e /\ \A n \in 1..Len(s) : r[n] = s[n]
  OBVIOUS
<1> HIDE DEF r
<1>2. DOMAIN r = DOMAIN s \cup {Len(s) + 1} /\ Len(s) + 1 \notin DOMAIN s
  BY <1>1
<1>3. \A n \in DOMAIN s : r[n] = s[n]
  BY <1>1
<1>4. News(r, c, u) = News(s, c, u) \cup (IF NewsOf(e, c, u) THEN {e.count} ELSE {})
  BY <1>1, <1>2, <1>3 DEF News
<1> QED
  BY <1>4 DEF r

LEMMA NewsTail ==
  ASSUME NEW s \in Seq(Event), s # <<>>, NEW c, NEW u
  PROVE  News(s, c, u) =
           News(Tail(s), c, u) \cup (IF NewsOf(Head(s), c, u) THEN {Head(s).count} ELSE {})
<1> DEFINE r == Tail(s)
           here == IF NewsOf(Head(s), c, u) THEN {Head(s).count} ELSE {}
<1>1. /\ Len(s) \in Nat /\ Len(s) > 0 /\ DOMAIN s = 1..Len(s) /\ DOMAIN r = 1..(Len(s) - 1)
      /\ Head(s) = s[1] /\ \A n \in 1..(Len(s) - 1) : r[n] = s[n + 1]
  OBVIOUS
<1> HIDE DEF r
<1>2. ASSUME NEW n \in DOMAIN r PROVE n + 1 \in DOMAIN s /\ r[n] = s[n + 1]
  BY <1>1
<1>3. \A n \in DOMAIN s : n = 1 \/ (n - 1 \in DOMAIN r /\ r[n - 1] = s[n])
  BY <1>1
<1>4. 1 \in DOMAIN s /\ Head(s) = s[1]
  BY <1>1
<1>5. ASSUME NEW k \in News(s, c, u) PROVE k \in News(r, c, u) \cup here
  <2>1. PICK n \in DOMAIN s : NewsOf(s[n], c, u) /\ k = s[n].count
    BY DEF News
  <2> QED
    BY <1>3, <1>4, <2>1 DEF News
<1>6. ASSUME NEW k \in News(r, c, u) \cup here PROVE k \in News(s, c, u)
  <2>1. CASE k \in News(r, c, u)
    <3>1. PICK n \in DOMAIN r : NewsOf(r[n], c, u) /\ k = r[n].count
      BY <2>1 DEF News
    <3> QED
      BY <1>2, <3>1 DEF News
  <2>2. CASE k \in here
    BY <1>4, <2>2 DEF News
  <2> QED
    BY <2>1, <2>2
<1> QED
  BY <1>5, <1>6 DEF r

\* The published event is no count for u in c.
LEMMA PublishNoNews ==
  ASSUME TypeOK, NEW e \in Event, Publish(e), NEW c, NEW u, ~NewsOf(e, c, u)
  PROVE  \A i \in Instances : News(inbox'[i], c, u) = News(inbox[i], c, u)
<1> SUFFICES ASSUME NEW i \in Instances
             PROVE  News(inbox'[i], c, u) = News(inbox[i], c, u)
  OBVIOUS
<1>1. inbox[i] \in Seq(Event)
  BY DEF TypeOK
<1>2. inbox'[i] = Append(inbox[i], e) \/ inbox'[i] = inbox[i]
  BY DEF Publish
<1>3. News(Append(inbox[i], e), c, u) =
        News(inbox[i], c, u) \cup (IF NewsOf(e, c, u) THEN {e.count} ELSE {})
  BY <1>1, NewsAppend
<1> QED
  BY <1>2, <1>3

\* The event taken is no count for u in c.
LEMMA TakeNoNews ==
  ASSUME TypeOK, NEW i \in Instances, inbox[i] # <<>>,
         inbox' = [inbox EXCEPT ![i] = Tail(@)], NEW c, NEW u, ~NewsOf(Head(inbox[i]), c, u)
  PROVE  \A j \in Instances : News(inbox'[j], c, u) = News(inbox[j], c, u)
<1>1. inbox[i] \in Seq(Event)
  BY DEF TypeOK
<1>2. \A j \in Instances : inbox'[j] = IF j = i THEN Tail(inbox[i]) ELSE inbox[j]
  BY DEF TypeOK
<1>3. News(Tail(inbox[i]), c, u) = News(inbox[i], c, u)
  <2>1. News(inbox[i], c, u) = News(Tail(inbox[i]), c, u)
          \cup (IF NewsOf(Head(inbox[i]), c, u) THEN {Head(inbox[i]).count} ELSE {})
    BY <1>1, NewsTail
  <2> QED
    BY <2>1
<1> QED
  BY <1>2, <1>3

\* A step that neither counts, nor announces, nor shows anything for u in c.
LEMMA BadgeKept ==
  ASSUME NEW c \in Convs, NEW u \in Users, BadgeComing(c, u),
         unread'[c][u] = unread[c][u], badge'[c][u] = badge[c][u],
         Counted(c, u) \subseteq Counted(c, u)',
         \A i \in Instances : News(inbox'[i], c, u) = News(inbox[i], c, u),
         \A t : Counting(t, c, u) => (t \in tasks' <=> t \in tasks)
  PROVE  BadgeComing(c, u)'
<1>1. Counted(c, u) # {} => Counted(c, u)' # {}
  OBVIOUS
<1>2. \A t : Counting(t, c, u)' <=> Counting(t, c, u)
  BY DEF Counting
<1>3. \A i \in Instances : News(inbox[i], c, u)' = News(inbox[i], c, u)
  BY DEF News, NewsOf
<1> HIDE DEF Counted, News, Counting
<1>4. \A i \in Instances : /\ News(inbox[i], c, u)' \subseteq {unread'[c][u]}
                          /\ News(inbox[i], c, u)' # {} => Counted(c, u)' # {}
  BY <1>1, <1>3 DEF BadgeComing
<1>5. \A t \in tasks' : Counting(t, c, u)' =>
        Counted(c, u)' # {} /\ (t.loc = "announce" => t.count = unread'[c][u])
  BY <1>1, <1>2 DEF BadgeComing
<1>6. \/ badge'[c][u] = unread'[c][u]
      \/ \E i \in Instances : News(inbox[i], c, u)' # {}
      \/ \E t \in tasks' : Counting(t, c, u)'
  BY <1>2, <1>3 DEF BadgeComing
<1> QED
  BY <1>4, <1>5, <1>6 DEF BadgeComing

\* The shape of a proof that a step keeps the badges coming.
LEMMA BadgeShape ==
  ASSUME BadgeInv, moves' \in Nat, receipts \subseteq receipts', published \subseteq published',
         UNCHANGED placeVars, faults' = faults,
         \A c \in Convs, u \in Users :
           faults = 0 /\ ~HasRead(c, u) /\ Followed(c, u) /\ BadgeComing(c, u) =>
             BadgeComing(c, u)'
  PROVE  BadgeInv'
<1> SUFFICES ASSUME Unharmed', NEW c \in Convs, NEW u \in Users, ~HasRead(c, u)', Followed(c, u)'
             PROVE  BadgeComing(c, u)'
  BY DEF BadgeInv
<1>1. ~HasRead(c, u)
  BY ReadForGood DEF placeVars
<1>2. Followed(c, u)
  BY DEF Followed, PublishedFor, placeVars
<1>3. faults = 0 /\ BadgeComing(c, u)
  BY <1>1, <1>2 DEF BadgeInv, Unharmed
<1> QED
  BY <1>1, <1>2, <1>3

\* The worker, and the handlers that count nothing and announce no count.
LEMMA WorkerBadge ==
  ASSUME IInv, CountInv, CountInv', BadgeInv, Worker
  PROVE  BadgeInv'
<1> USE DEF dbVars, busVars, clientVars, placeVars, sentVars
<1>1. /\ UNCHANGED <<unread, badge, tasks, receipts, placeVars, faults>>
      /\ published \subseteq published'
  BY DEF Worker, SaveMessage, PublishOutbound
<1>2. \A c, u : \A i \in Instances : News(inbox'[i], c, u) = News(inbox[i], c, u)
  <2>1. ASSUME NEW m \in Msgs, PublishOutbound(m)
        PROVE  /\ Outbound(m) \in Event /\ Publish(Outbound(m))
               /\ \A c, u : ~NewsOf(Outbound(m), c, u)
    BY <2>1 DEF PublishOutbound, Outbound, Event, NewsOf
  <2>2. TypeOK
    BY DEF IInv
  <2>3. ASSUME NEW m \in Msgs, PublishOutbound(m), NEW c, NEW u
        PROVE  \A i \in Instances : News(inbox'[i], c, u) = News(inbox[i], c, u)
    <3>1. Outbound(m) \in Event /\ Publish(Outbound(m)) /\ ~NewsOf(Outbound(m), c, u)
      BY <2>1, <2>3
    <3> QED
      BY <2>2, <3>1, PublishNoNews
  <2>4. CASE inbox' = inbox
    BY <2>4
  <2> QED
    BY <2>3, <2>4 DEF Worker, SaveMessage
<1>3. faults = 0 => \A c \in Convs, u \in Users : Counted(c, u)' = Counted(c, u)
  BY WorkerCounts
<1>4. ASSUME NEW c \in Convs, NEW u \in Users, faults = 0, BadgeComing(c, u)
      PROVE  BadgeComing(c, u)'
  <2>1. Counted(c, u) \subseteq Counted(c, u)'
    BY <1>3, <1>4
  <2>2. unread'[c][u] = unread[c][u] /\ badge'[c][u] = badge[c][u]
    BY <1>1
  <2>3. \A x : Counting(x, c, u) => (x \in tasks' <=> x \in tasks)
    BY <1>1
  <2>4. \A i \in Instances : News(inbox'[i], c, u) = News(inbox[i], c, u)
    BY <1>2
  <2> QED
    BY <1>4, <2>1, <2>2, <2>3, <2>4, BadgeKept
<1>5. OnceEach' /\ Healthy'
  BY DEF CountInv
<1> QED
  BY <1>1, <1>4, <1>5, BadgeShape DEF Healthy

\* A handler that is not about to count or to announce leaves the badges alone.
LEMMA HandlerBadge ==
  ASSUME IInv, CountInv, CountInv', BadgeInv, NEW t \in tasks,
         \/ PublishAck(t) \/ ReadStatus(t) \/ WriteStatus(t)
         \/ Find(t) \/ AnnounceZero(t) \/ Reset(t)
  PROVE  BadgeInv'
<1> USE DEF dbVars, busVars, clientVars, placeVars, sentVars
<1>1. /\ t \in Handler /\ TaskSound(t) /\ ConvsMarked(t) /\ TypeOK /\ t.ev \in Event
  BY DEF IInv, TypeOK, Handler, CountInv
<1>2. /\ UNCHANGED <<badge, published, receipts, placeVars, faults>>
      /\ t.loc \in Later
  BY DEF PublishAck, ReadStatus, WriteStatus, Find, AnnounceZero, Reset, Later
<1>3. Replaced(t, Later)
  BY <1>1, StepReplaces
<1>4. \A c, u, x : Counting(x, c, u) => (x \in tasks' <=> x \in tasks)
  BY <1>2, <1>3 DEF Replaced, Counting, Later
<1>5. ASSUME NEW c \in Convs, NEW u \in Users, ~HasRead(c, u)
      PROVE  /\ unread'[c][u] = unread[c][u] /\ Counted(c, u)' = Counted(c, u)
             /\ \A i \in Instances : News(inbox'[i], c, u) = News(inbox[i], c, u)
  <2>1. PublishedFor(c, u) \subseteq Msgs
    BY <1>1 DEF TypeOK, Saved, PublishedFor
  <2>2. ASSUME NEW d, \/ Reset(t) /\ d \in t.convs
                      \/ AnnounceZero(t) /\ d \in t.cur
        PROVE  d # c \/ t.ev.by # u
    <3>1. t.ev.kind = "seen" /\ t.ev \in receipts /\ \E m \in t.ev.msgs : ConvOf[m] = d
      BY <1>1, <2>2 DEF ConvsMarked, MarkedConvs, TaskSound, AnnounceZero
    <3> QED
      BY <1>5, <3>1 DEF HasRead
  <2>3. CASE Reset(t)
    <3>1. PICK d \in t.convs : unread' = [unread EXCEPT ![d][t.ev.by] = 0]
      BY <2>3 DEF Reset
    <3>2. unread'[c][u] = unread[c][u]
      BY <1>1, <2>2, <2>3, <3>1 DEF TypeOK
    <3>3. UNCHANGED inbox
      BY <2>3 DEF Reset
    <3>4. \A x : x.loc = "increment" => (x \in tasks' <=> x \in tasks)
      BY <1>2, <1>3 DEF Replaced, Later
    <3>5. \A i \in Instances, m \in Msgs : Uncounted(i, m)' <=> Uncounted(i, m)
      BY <3>3, <3>4, UncountedKept
    <3> QED
      BY <1>1, <1>2, <2>1, <3>2, <3>3, <3>5, CountedKept
  <2>4. CASE AnnounceZero(t)
    <3>1. PICK d \in t.cur : Publish([kind |-> "unread", user |-> t.ev.by, conv |-> d, count |-> 0])
      BY <2>4 DEF AnnounceZero
    <3> DEFINE e == [kind |-> "unread", user |-> t.ev.by, conv |-> d, count |-> 0]
    <3>2. e \in Event /\ ~NewsOf(e, c, u)
      <4>1. t.ev.by \in Users /\ d \in Convs
        BY <1>1, <2>4, EventKinds DEF AnnounceZero, TaskSound
      <4> QED
        BY <2>2, <2>4, <4>1 DEF Event, NewsOf
    <3>3. \A i \in Instances : News(inbox'[i], c, u) = News(inbox[i], c, u)
      BY <1>1, <3>1, <3>2, PublishNoNews
    <3> QED
      BY <1>1, <1>2, <2>1, <2>4, <3>3, HandlerCounts, CountedKept
  <2>5. CASE PublishAck(t) \/ ReadStatus(t) \/ WriteStatus(t) \/ Find(t)
    <3>1. CASE PublishAck(t)
      <4> DEFINE e == [kind |-> "ack", msg |-> t.ev.msg, from |-> t.inst]
      <4>1. t.ev.kind = "outbound" /\ t.ev.msg \in Msgs
        BY <1>1, <3>1, EventKinds DEF PublishAck, TaskSound
      <4>2. e \in Event /\ ~NewsOf(e, c, u)
        BY <1>1, <4>1 DEF Event, NewsOf, Handler, TypeOK
      <4>3. Publish(e)
        BY <3>1 DEF PublishAck
      <4> QED
        BY <1>1, <4>2, <4>3, PublishNoNews, <1>2, <2>1, <3>1, HandlerCounts, CountedKept
    <3>2. CASE ReadStatus(t) \/ WriteStatus(t) \/ Find(t)
      <4>1. UNCHANGED inbox
        BY <3>2 DEF ReadStatus, WriteStatus, Find
      <4> QED
        BY <1>1, <1>2, <2>1, <3>2, <4>1, HandlerCounts, CountedKept
    <3> QED
      BY <2>5, <3>1, <3>2
  <2> QED
    BY <2>3, <2>4, <2>5
<1>6. ASSUME NEW c \in Convs, NEW u \in Users, ~HasRead(c, u), BadgeComing(c, u)
      PROVE  BadgeComing(c, u)'
  BY <1>2, <1>4, <1>5, <1>6, BadgeKept
<1> QED
  BY <1>2, <1>6, BadgeShape DEF CountInv, Healthy

\* Nor is a message, an acknowledgement or a receipt.
LEMMA TakenNoNews ==
  ASSUME TypeOK, NEW i \in Instances, HandleOutbound(i) \/ HandleAck(i) \/ HandleReceipt(i),
         NEW c, NEW u
  PROVE  \A j \in Instances : News(inbox'[j], c, u) = News(inbox[j], c, u)
<1>1. /\ inbox[i] # <<>> /\ ~NewsOf(Head(inbox[i]), c, u)
      /\ inbox' = [inbox EXCEPT ![i] = Tail(@)]
  BY DEF HandleOutbound, HandleAck, HandleReceipt, Receives, Begin, NewsOf
<1>2. inbox[i] \in Seq(Event)
  BY DEF TypeOK
<1>3. \A j \in Instances : inbox'[j] = IF j = i THEN Tail(inbox[i]) ELSE inbox[j]
  BY <1>1 DEF TypeOK
<1>4. News(Tail(inbox[i]), c, u) = News(inbox[i], c, u)
  <2>1. News(inbox[i], c, u) = News(Tail(inbox[i]), c, u)
          \cup (IF NewsOf(Head(inbox[i]), c, u) THEN {Head(inbox[i]).count} ELSE {})
    BY <1>1, <1>2, NewsTail
  <2> QED
    BY <1>1, <2>1
<1> QED
  BY <1>3, <1>4

\* A message, an acknowledgement or a receipt is taken, or a receipt is sent.
LEMMA EventBadge ==
  ASSUME IInv, CountInv, CountInv', BadgeInv,
         \/ \E i \in Instances : HandleOutbound(i) \/ HandleAck(i) \/ HandleReceipt(i)
         \/ \E r \in Receipt : SendReceipt(r)
  PROVE  BadgeInv'
<1> USE DEF dbVars, busVars, clientVars, placeVars, sentVars
<1>1. TypeOK
  BY DEF IInv
<1>2. /\ UNCHANGED <<unread, badge, published, placeVars, faults>>
      /\ receipts \subseteq receipts'
  BY DEF HandleOutbound, HandleAck, HandleReceipt, SendReceipt
<1>3. ASSUME NEW c \in Convs, NEW u \in Users
      PROVE  \A j \in Instances : News(inbox'[j], c, u) = News(inbox[j], c, u)
  <2>1. ASSUME NEW r \in Receipt, SendReceipt(r)
        PROVE  Publish(r) /\ r \in Event /\ ~NewsOf(r, c, u)
    BY <2>1 DEF SendReceipt, Event, Receipt, NewsOf
  <2>2. ASSUME NEW i \in Instances, HandleOutbound(i) \/ HandleAck(i) \/ HandleReceipt(i)
        PROVE  \A j \in Instances : News(inbox'[j], c, u) = News(inbox[j], c, u)
    BY <1>1, <2>2, TakenNoNews
  <2>3. ASSUME NEW r \in Receipt, SendReceipt(r)
        PROVE  \A j \in Instances : News(inbox'[j], c, u) = News(inbox[j], c, u)
    <3>1. Publish(r) /\ r \in Event /\ ~NewsOf(r, c, u)
      BY <2>1, <2>3
    <3> QED
      BY <1>1, <3>1, PublishNoNews
  <2> QED
    BY <2>2, <2>3
<1>4. \A c, u, x : Counting(x, c, u) => (x \in tasks' <=> x \in tasks)
  <2>1. \A i, e : \A l \in {"read", "find", "increment"} : Task(i, e, l).loc = l
    BY DEF Task
  <2>2. \/ tasks' = tasks
        \/ \E i, e : \E l \in {"read", "find", "increment"} : tasks' = tasks \cup {Task(i, e, l)}
    BY DEF HandleOutbound, HandleAck, HandleReceipt, SendReceipt, Begin
  <2> QED
    BY <2>1, <2>2 DEF Counting
<1>5. ASSUME NEW c \in Convs, NEW u \in Users, ~HasRead(c, u)
      PROVE  Counted(c, u)' = Counted(c, u)
  <2>1. PublishedFor(c, u) \subseteq Msgs
    BY <1>1 DEF TypeOK, Saved, PublishedFor
  <2>2. CASE \E i \in Instances : HandleOutbound(i)
    <3>1. \A j \in Instances, x \in PublishedFor(c, u) : Uncounted(j, x)' <=> Uncounted(j, x)
      BY <1>5, <2>2, OutboundCounts
    <3> QED
      BY <1>1, <1>2, <3>1, CountedKept
  <2>3. CASE \/ \E i \in Instances : HandleAck(i) \/ HandleReceipt(i)
             \/ \E r \in Receipt : SendReceipt(r)
    BY <1>1, <1>2, <2>1, <2>3, OtherEventCounts, CountedKept
  <2> QED
    BY <2>2, <2>3
<1>6. ASSUME NEW c \in Convs, NEW u \in Users, ~HasRead(c, u), BadgeComing(c, u)
      PROVE  BadgeComing(c, u)'
  BY <1>2, <1>3, <1>4, <1>5, <1>6, BadgeKept
<1> QED
  BY <1>2, <1>6, BadgeShape DEF CountInv, Healthy

\* The client shows the count it is sent.
LEMMA ShowBadge ==
  ASSUME IInv, CountInv, CountInv', BadgeInv, NEW i, Instances = {i}, HandleUnread(i)
  PROVE  BadgeInv'
<1> USE DEF dbVars, busVars, clientVars, placeVars, sentVars
<1> DEFINE e == Head(inbox[i])
<1>1. /\ TypeOK /\ inbox[i] # <<>> /\ e.kind = "unread" /\ i \in Instances
      /\ inbox[i] \in Seq(Event) /\ e \in Event
  BY DEF IInv, TypeOK, HandleUnread, Receives
<1>2. /\ UNCHANGED <<unread, tasks, published, receipts, placeVars, faults>>
      /\ inbox' = [inbox EXCEPT ![i] = Tail(@)]
      /\ badge' = IF at[e.user] = i THEN [badge EXCEPT ![e.conv][e.user] = e.count] ELSE badge
  BY DEF HandleUnread
<1>3. e.user \in Users /\ e.conv \in Convs /\ e.count \in Nat
  BY <1>1, EventKinds
<1> HIDE DEF e
<1>4. ASSUME NEW c \in Convs, NEW u \in Users PROVE Counted(c, u)' = Counted(c, u)
  <2>1. PublishedFor(c, u) \subseteq Msgs
    BY <1>1 DEF TypeOK, Saved, PublishedFor
  <2> QED
    BY <1>1, <1>2, <2>1, OtherEventCounts, CountedKept
<1>5. ASSUME NEW c \in Convs, NEW u \in Users, Followed(c, u), BadgeComing(c, u)
      PROVE  BadgeComing(c, u)'
  <2>1. CASE ~NewsOf(e, c, u)
    <3>1. badge'[c][u] = badge[c][u]
      BY <1>1, <1>2, <1>3, <2>1 DEF NewsOf, TypeOK
    <3>2. \A j \in Instances : News(inbox'[j], c, u) = News(inbox[j], c, u)
      BY <1>1, <1>2, <2>1, TakeNoNews DEF e
    <3> QED
      BY <1>2, <1>4, <1>5, <3>1, <3>2, BadgeKept
  <2>2. CASE NewsOf(e, c, u)
    <3>1. News(inbox[i], c, u) = News(Tail(inbox[i]), c, u) \cup {e.count}
      BY <1>1, <2>2, NewsTail DEF e
    <3>2. inbox'[i] = Tail(inbox[i])
      BY <1>1, <1>2 DEF TypeOK
    <3>3. at[u] = i
      BY <1>1, <1>5 DEF Followed, TypeOK
    <3>4. e.count = unread[c][u] /\ badge'[c][u] = e.count
      BY <1>1, <1>2, <1>3, <1>5, <2>2, <3>1, <3>3 DEF BadgeComing, NewsOf, TypeOK
    <3>5. \A t : Counting(t, c, u)' <=> Counting(t, c, u)
      BY DEF Counting
    <3>6. \A j \in Instances : News(inbox[j], c, u)' = News(inbox'[j], c, u)
      BY DEF News, NewsOf
    <3>7. News(inbox'[i], c, u) \subseteq News(inbox[i], c, u)
      BY <3>1, <3>2
    <3> HIDE DEF News, Counting, Counted
    <3> QED
      BY <1>2, <1>4, <1>5, <3>4, <3>5, <3>6, <3>7 DEF BadgeComing
  <2> QED
    BY <2>1, <2>2
<1>6. OnceEach' /\ Healthy'
  BY DEF CountInv
<1> QED
  BY <1>2, <1>5, <1>6, BadgeShape DEF Healthy

\* Every count on its way is for a message the single instance counted.
LEMMA NothingComing ==
  ASSUME NEW i, Instances = {i}, NEW c \in Convs, NEW u \in Users, BadgeComing(c, u), Followed(c, u),
         NEW m \in PublishedFor(c, u), Uncounted(i, m)
  PROVE  /\ Counted(c, u) = {} /\ badge[c][u] = unread[c][u]
         /\ News(inbox[i], c, u) = {}
         /\ \A t \in tasks : ~Counting(t, c, u)
<1>1. \A im \in Instances \X PublishedFor(c, u) : im[1] = i /\ im[2] = m
  BY DEF Followed
<1>2. Counted(c, u) = {}
  BY <1>1 DEF Counted
<1> HIDE DEF Counted, News, Counting
<1> QED
  BY <1>2 DEF BadgeComing

\* The message is counted: its handler will announce the count.
LEMMA IncrementBadge ==
  ASSUME IInv, CountInv, CountInv', BadgeInv, NEW i, Instances = {i},
         NEW t \in tasks, Increment(t)
  PROVE  BadgeInv'
<1> USE DEF dbVars, busVars, clientVars, placeVars, sentVars
<1> DEFINE m == t.ev.msg
           n == [t EXCEPT !.loc = "count"]
<1>1. /\ t \in Handler /\ TaskSound(t) /\ TypeOK /\ t.ev \in Event /\ t.inst = i
      /\ t.loc = "increment"
  BY DEF IInv, TypeOK, Handler, Increment
<1>2. /\ m \in published /\ Uncounted(i, m) /\ ~Uncounted(i, m)'
      /\ \A j, x : j # i \/ x # m => (Uncounted(j, x)' <=> Uncounted(j, x))
  BY <1>1, IncrementCounts
<1>3. /\ unread' = [unread EXCEPT ![ConvOf[m]][RecipientOf[m]] = @ + 1]
      /\ UNCHANGED <<badge, inbox, published, receipts, placeVars, faults>>
      /\ tasks' = (tasks \ {t}) \cup {n}
  BY DEF Increment, Go, Become
<1>4. n.loc = "count" /\ n.ev.msg = m
  BY <1>1 DEF Handler
<1>5. m \in Msgs
  BY <1>1, <1>2 DEF TypeOK, Saved
<1> HIDE DEF n, m
<1>6. ASSUME NEW c \in Convs, NEW u \in Users, Followed(c, u), BadgeComing(c, u)
      PROVE  BadgeComing(c, u)'
  <2>1. PublishedFor(c, u)' = PublishedFor(c, u)
    BY <1>3 DEF PublishedFor
  <2>2. Counted(c, u) \subseteq Counted(c, u)'
    BY <1>2, <2>1 DEF Counted
  <2>3. CASE ConvOf[m] = c /\ RecipientOf[m] = u
    <3>1. m \in PublishedFor(c, u)
      BY <1>2, <2>3 DEF PublishedFor
    <3>2. News(inbox[i], c, u) = {} /\ \A x \in tasks : ~Counting(x, c, u)
      BY <1>2, <1>6, <3>1, NothingComing
    <3>3. <<i, m>> \in Counted(c, u)'
      BY <1>2, <2>1, <3>1 DEF Counted
    <3>4. Counting(n, c, u)' /\ n \in tasks' /\ n.loc = "count"
      BY <1>3, <1>4, <2>3 DEF Counting
    <3>5. \A x \in tasks' : Counting(x, c, u)' => x = n
      BY <1>3, <3>2 DEF Counting
    <3>6. News(inbox[i], c, u)' = {}
      BY <1>3, <3>2 DEF News, NewsOf
    <3> HIDE DEF News, Counting, Counted
    <3> QED
      BY <3>3, <3>4, <3>5, <3>6 DEF BadgeComing
  <2>4. CASE ~(ConvOf[m] = c /\ RecipientOf[m] = u)
    <3>1. unread'[c][u] = unread[c][u]
      BY <1>1, <1>3, <1>5, <2>4, MsgsAssumption DEF TypeOK
    <3>2. \A x : Counting(x, c, u) => (x \in tasks' <=> x \in tasks)
      BY <1>1, <1>3, <1>4, <2>4 DEF Counting
    <3>3. \A j \in Instances : News(inbox'[j], c, u) = News(inbox[j], c, u)
      BY <1>3
    <3> QED
      BY <1>3, <1>6, <2>2, <3>1, <3>2, <3>3, BadgeKept
  <2> QED
    BY <2>3, <2>4
<1>7. OnceEach' /\ Healthy'
  BY DEF CountInv
<1> QED
  BY <1>3, <1>6, <1>7, BadgeShape DEF Healthy

\* The count is read, and then announced to the one instance.
LEMMA AnnounceBadge ==
  ASSUME IInv, CountInv, CountInv', BadgeInv, NEW i, Instances = {i},
         NEW t \in tasks, ReadCount(t) \/ AnnounceCount(t)
  PROVE  BadgeInv'
<1> USE DEF dbVars, busVars, clientVars, placeVars, sentVars
<1> DEFINE m == t.ev.msg
           e == [kind |-> "unread", user |-> RecipientOf[m], conv |-> ConvOf[m], count |-> t.count]
           read == [t EXCEPT !.loc = "announce", !.count = unread[ConvOf[m]][RecipientOf[m]]]
           told0 == [t EXCEPT !.loc = "read"]
<1>1. /\ t \in Handler /\ TaskSound(t) /\ TypeOK /\ t.ev \in Event
  BY DEF IInv, TypeOK, Handler
<1>2. t.ev.kind = "outbound" /\ m \in Msgs
  BY <1>1, EventKinds DEF ReadCount, AnnounceCount, TaskSound
<1>3. /\ UNCHANGED <<unread, badge, published, receipts, placeVars, faults, up>>
      /\ \A j \in Instances, x \in Msgs : Uncounted(j, x)' <=> Uncounted(j, x)
  <2>1. UNCHANGED <<badge, receipts, placeVars, up>>
    BY DEF ReadCount, AnnounceCount
  <2> QED
    BY <2>1, HandlerCounts
<1>4. ASSUME NEW c \in Convs, NEW u \in Users
      PROVE  Counted(c, u)' = Counted(c, u)
  <2>1. PublishedFor(c, u) \subseteq Msgs
    BY <1>1 DEF TypeOK, Saved, PublishedFor
  <2> QED
    BY <1>1, <1>3, <2>1, CountedKept
<1>5. e \in Event /\ \A c, u : NewsOf(e, c, u) <=> ConvOf[m] = c /\ RecipientOf[m] = u
  BY <1>1, <1>2, MsgsAssumption DEF Event, Handler, NewsOf
<1>6. /\ read.loc = "announce" /\ read.count = unread[ConvOf[m]][RecipientOf[m]]
      /\ read.ev.msg = m /\ told0.loc = "read" /\ e.count = t.count
  BY <1>1 DEF Handler
<1>7. \/ t.loc = "count" /\ tasks' = (tasks \ {t}) \cup {read} /\ UNCHANGED inbox
      \/ t.loc = "announce" /\ tasks' = (tasks \ {t}) \cup {told0} /\ Publish(e)
  BY DEF ReadCount, AnnounceCount, Become, Go
<1> HIDE DEF m, e, read, told0
<1>8. ASSUME NEW c \in Convs, NEW u \in Users, faults = 0, BadgeComing(c, u)
      PROVE  BadgeComing(c, u)'
  <2>1. \A x : Counting(x, c, u)' <=> Counting(x, c, u)
    BY DEF Counting
  <2>2. \A j : News(inbox[j], c, u)' = News(inbox'[j], c, u)
    BY DEF News, NewsOf
  <2>3. CASE ~(ConvOf[m] = c /\ RecipientOf[m] = u)
    <3>1. \A x : Counting(x, c, u) => (x \in tasks' <=> x \in tasks)
      BY <1>6, <1>7, <2>3 DEF Counting, m
    <3>2. \A j \in Instances : News(inbox'[j], c, u) = News(inbox[j], c, u)
      BY <1>1, <1>5, <1>7, <2>3, PublishNoNews
    <3> QED
      BY <1>3, <1>4, <1>8, <3>1, <3>2, BadgeKept
  <2>4. CASE ConvOf[m] = c /\ RecipientOf[m] = u
    <3>1. Counting(t, c, u)
      BY <1>7, <2>4 DEF Counting, m
    <3>2. Counted(c, u) # {} /\ (t.loc = "announce" => t.count = unread[c][u])
      BY <1>8, <3>1 DEF BadgeComing
    <3>3. CASE t.loc = "count"
      <4>1. Counting(read, c, u) /\ read \in tasks' /\ read.count = unread[c][u]
        BY <1>6, <1>7, <2>4, <3>3 DEF Counting
      <4>2. UNCHANGED <<unread, badge, inbox>> /\ tasks' = (tasks \ {t}) \cup {read}
        BY <1>3, <1>7, <3>3
      <4> HIDE DEF News, Counting, Counted
      <4> QED
        BY <1>4, <1>8, <2>1, <2>2, <3>2, <4>1, <4>2 DEF BadgeComing
    <3>4. CASE t.loc = "announce"
      <4>1. ~Counting(told0, c, u) /\ tasks' = (tasks \ {t}) \cup {told0} /\ Publish(e)
        BY <1>6, <1>7, <3>4 DEF Counting
      <4>2. inbox[i] \in Seq(Event) /\ inbox'[i] = Append(inbox[i], e)
        BY <1>1, <1>8, <4>1 DEF TypeOK, CountInv, Healthy, Publish
      <4>3. News(inbox'[i], c, u) = News(inbox[i], c, u) \cup {e.count}
        BY <1>5, <2>4, <4>2, NewsAppend
      <4>4. e.count = unread[c][u]
        BY <1>6, <3>2, <3>4
      <4> HIDE DEF News, Counting, Counted
      <4> QED
        BY <1>3, <1>4, <1>8, <2>1, <2>2, <3>2, <4>1, <4>3, <4>4 DEF BadgeComing
    <3> QED
      BY <1>7, <3>3, <3>4
  <2> QED
    BY <2>3, <2>4
<1>9. OnceEach' /\ Healthy'
  BY DEF CountInv
<1> QED
  BY <1>3, <1>8, <1>9, BadgeShape DEF Healthy

LEMMA InitBadge == Init => BadgeInv
<1> SUFFICES ASSUME Init, NEW c \in Convs, NEW u \in Users PROVE BadgeComing(c, u)
  BY DEF BadgeInv
<1>1. badge[c][u] = unread[c][u] /\ tasks = {}
  BY DEF Init
<1>2. \A i \in Instances : News(inbox[i], c, u) = {}
  BY DEF Init, News
<1> QED
  BY <1>1, <1>2 DEF BadgeComing

LEMMA StepKeepsBadge ==
  ASSUME NEW i, Instances = {i}
  PROVE  IInv /\ CountInv /\ BadgeInv /\ [Next]_vars => BadgeInv'
<1> SUFFICES ASSUME IInv, CountInv, BadgeInv, [Next]_vars PROVE BadgeInv'
  OBVIOUS
<1>1. CountInv'
  BY StepKeepsCounts
<1>2. CASE UNCHANGED vars
  <2>1. ASSUME NEW c \in Convs, NEW u \in Users
        PROVE  /\ HasRead(c, u)' = HasRead(c, u) /\ Followed(c, u)' = Followed(c, u)
               /\ Counted(c, u)' = Counted(c, u)
    BY <1>2 DEF vars, HasRead, Followed, Counted, PublishedFor, Uncounted
  <2>2. ASSUME NEW c \in Convs, NEW u \in Users, BadgeComing(c, u) PROVE BadgeComing(c, u)'
    BY <1>2, <2>1, <2>2, BadgeKept DEF vars
  <2> QED
    BY <1>2, <2>1, <2>2 DEF vars, BadgeInv, Unharmed
<1>3. ASSUME NEW t \in tasks, StepTask(t) PROVE BadgeInv'
  BY <1>1, <1>3, HandlerBadge, IncrementBadge, AnnounceBadge DEF StepTask
<1>4. ASSUME NEW j \in Instances, Receive(j) PROVE BadgeInv'
  BY <1>1, <1>4, EventBadge, ShowBadge DEF Receive
<1>5. CASE \/ \E t \in tasks : CallFails(t)
           \/ \E j \in Instances : Crash(j)
  BY <1>5, HarmCounts DEF BadgeInv, Unharmed
<1>6. CASE \/ \E j \in Instances : Restart(j)
           \/ \E u \in Users : Client(u)
  <2>1. faults' = faults /\ (faults = 0 => moves' > 0)
    BY <1>6, PlacesCounts
  <2> QED
    BY <2>1 DEF BadgeInv, Unharmed, HasRead
<1>7. CASE Worker
  BY <1>1, <1>7, WorkerBadge
<1>8. CASE \E r \in Receipt : SendReceipt(r)
  BY <1>1, <1>8, EventBadge
<1> QED
  BY <1>2, <1>3, <1>4, <1>5, <1>6, <1>7, <1>8 DEF Next

\* On a single instance, when all is handled, a connected client that has read nothing
\* shows the stored count, as long as one message was published for it.
THEOREM OneInstanceBadge ==
  ASSUME NEW i, Instances = {i}
  PROVE  Spec => []BadgeAgrees
<1>1. IInv /\ CountInv /\ BadgeInv /\ [Next]_vars => BadgeInv'
  BY StepKeepsBadge
<1>2. CountInv /\ BadgeInv => BadgeAgrees
  <2> SUFFICES ASSUME CountInv, BadgeInv, Quiet, Unharmed, NEW c \in Convs, NEW u \in Users,
                      at[u] # Nowhere, Cardinality(PublishedFor(c, u)) <= 1, ~HasRead(c, u)
               PROVE  badge[c][u] = unread[c][u]
    BY DEF BadgeAgrees
  <2>1. IsFiniteSet(PublishedFor(c, u))
    BY FS_Subset DEF PublishedFor, CountInv, Healthy
  <2>2. \A m, n \in PublishedFor(c, u) : m = n
    <3> SUFFICES ASSUME NEW m \in PublishedFor(c, u), NEW n \in PublishedFor(c, u), m # n
                 PROVE  FALSE
      OBVIOUS
    <3>1. IsFiniteSet({m}) /\ Cardinality({m}) = 1
      BY FS_Singleton
    <3>0. n \notin {m}
      OBVIOUS
    <3>2. Cardinality({m} \cup {n}) = Cardinality({m}) + 1
      BY <3>0, <3>1, FS_AddElement
    <3>3. /\ {m} \cup {n} \subseteq PublishedFor(c, u)
          /\ Cardinality({m} \cup {n}) <= Cardinality(PublishedFor(c, u))
      BY <2>1, FS_Subset
    <3>4. Cardinality(PublishedFor(c, u)) \in Nat
      BY <2>1, FS_CardinalityType
    <3> QED
      BY <3>1, <3>2, <3>3, <3>4
  <2>3. BadgeComing(c, u)
    BY <2>2 DEF BadgeInv, Followed
  <2>4. \A j \in Instances : News(inbox[j], c, u) = {}
    BY DEF Quiet, News
  <2> QED
    BY <2>3, <2>4 DEF BadgeComing, Quiet
<1> QED
  BY InitBadge, <1>1, <1>2, Invariance, CountsAreKept, PTL DEF Spec
-----------------------------------------------------------------------------
(* The handlers of all instances implement LiveDelivery *)

\* The status of a message is beyond QUEUED.
Stored(m) == status[m] \in {"DELIVERED", "SEEN"}
StoredKept == \A m \in Msgs : Stored(m) => Stored(m)'

\* An event names a message that was published, or is a receipt that was sent.
EventGrounded(e) ==
  /\ e.kind \in {"outbound", "ack"} => e.msg \in published
  /\ e.kind \in {"delivered", "seen"} => e \in receipts

\* A handler works on the message of its event, or on messages of its receipt that its
\* user has not sent; what it skips is stored already.
Grounded(t) ==
  /\ EventGrounded(t.ev)
  /\ t.ev.kind \in {"outbound", "ack"} => t.cur = {t.ev.msg}
  /\ t.ev.kind \in {"delivered", "seen"} =>
       /\ t.todo \subseteq Others(t.ev)
       /\ t.loc \in {"read", "write"} => \E m \in Others(t.ev) : t.cur = {m}
  /\ \A m \in t.todo \ t.fresh : Stored(m)

InboxGrounded ==
  \A i \in Instances : \A n \in DOMAIN inbox[i] : EventGrounded(inbox[i][n])

LiveInv ==
  /\ faults \in Nat
  /\ InboxGrounded
  /\ \A r \in receipts : r.msgs \subseteq Saved
  /\ \A t \in tasks : Grounded(t)

\* What a step leaves in progress, and what it tells.
TasksGrounded == \A x \in tasks' : x \in tasks \/ Grounded(x)
ToldGrounded ==
  /\ DOMAIN told' = Msgs
  /\ \A m \in Msgs :
       /\ told[m] \subseteq told'[m]
       /\ \A st \in told'[m] \ told[m] :
            m \in Promise!Grounds(st) /\ (faults' > 0 \/ Stored(m)')

\* The messages of a receipt that its user has not sent are grounds for its status.
LEMMA OthersGrounds ==
  ASSUME NEW r \in receipts, receipts \subseteq Receipt, NEW m \in Others(r)
  PROVE  /\ r.kind = "delivered" => m \in Promise!Grounds("DELIVERED")
         /\ r.kind = "seen" => m \in Promise!Grounds("SEEN")
<1>1. m \in Msgs /\ m \in r.msgs /\ r.by # SenderOf[m]
  BY DEF Others, Receipt
<1> QED
  BY <1>1 DEF Promise!Grounds, MarkedDelivered, MarkedSeen

\* The message in the hand of a handler is grounds for the status it wants.
LEMMA CurGrounds ==
  ASSUME IInv, LiveInv, NEW t \in tasks, t.loc \in {"read", "write"}
  PROVE  \E m \in Msgs : t.cur = {m} /\ m \in Promise!Grounds(Wanted(t)) /\ m \in Saved
<1>1. /\ t \in Handler /\ TaskSound(t) /\ Grounded(t) /\ t.ev \in Event
  BY DEF IInv, TypeOK, LiveInv, Handler
<1>2. /\ receipts \subseteq Receipt /\ published \subseteq Saved
      /\ Saved \subseteq Msgs /\ \A r \in receipts : r.msgs \subseteq Saved
  BY DEF IInv, TypeOK, LiveInv, Saved
<1>3. CASE t.ev.kind \in {"outbound", "ack"}
  BY <1>1, <1>2, <1>3 DEF Grounded, EventGrounded, Wanted, Promise!Grounds
<1>4. CASE t.ev.kind \in {"delivered", "seen"}
  <2>1. t.ev \in receipts
    BY <1>1, <1>4 DEF Grounded, EventGrounded
  <2>2. PICK m \in Others(t.ev) : t.cur = {m}
    BY <1>1, <1>4 DEF Grounded
  <2>3. m \in Promise!Grounds(Wanted(t))
    BY <1>2, <1>4, <2>1, OthersGrounds DEF Wanted
  <2>4. m \in Saved /\ m \in Msgs
    BY <1>2, <2>1 DEF Others
  <2> QED
    BY <2>2, <2>3, <2>4
<1> QED
  BY <1>1, <1>3, <1>4, EventKinds DEF TaskSound

\* Messages are told a status there are grounds for.
LEMMA TellGrounded ==
  ASSUME TypeOK, NEW i, NEW S \in SUBSET Msgs, NEW st, Tell(i, S, st),
         S \subseteq Promise!Grounds(st), faults' > 0 \/ \A m \in S : Stored(m)'
  PROVE  ToldGrounded
<1>1. told \in [Msgs -> SUBSET Status] /\ DOMAIN told' = Msgs
  BY DEF Tell, TypeOK
<1>2. ASSUME NEW m \in Msgs
      PROVE  told[m] \subseteq told'[m] /\ \A x \in told'[m] \ told[m] : x = st /\ m \in S
  BY <1>2 DEF Tell
<1> QED
  BY <1>1, <1>2 DEF ToldGrounded

\* A handler goes on at another place.
LEMMA GoGrounded ==
  ASSUME IInv, LiveInv, NEW t \in tasks, NEW l, Go(t, l),
         l \in {"read", "write"} => t.loc \in {"read", "write"} \/ t.ev.kind = "outbound"
  PROVE  TasksGrounded
<1>1. t \in Handler /\ Grounded(t)
  BY DEF IInv, TypeOK, LiveInv
<1> DEFINE n == [t EXCEPT !.loc = l]
<1>2. n.loc = l /\ n.ev = t.ev /\ n.cur = t.cur /\ n.todo = t.todo /\ n.fresh = t.fresh
  BY <1>1 DEF Handler
<1>3. Grounded(n)
  BY <1>1, <1>2 DEF Grounded
<1> QED
  BY <1>3 DEF Go, Become, TasksGrounded

\* The loop of a receipt handler.
LEMMA ProceedGrounded ==
  ASSUME IInv, LiveInv, NEW t \in tasks, t.ev.kind \in {"delivered", "seen"},
         NEW s \in Handler, s.ev = t.ev, NEW T \in SUBSET Others(t.ev),
         s.todo \subseteq Others(t.ev), \A m \in s.todo \ s.fresh : Stored(m),
         StoredKept, faults' > 0 \/ \A m \in T : Stored(m)', Proceed(t, s, T)
  PROVE  TasksGrounded /\ ToldGrounded
<1>1. /\ t \in Handler /\ Grounded(t) /\ TypeOK /\ receipts \subseteq Receipt
      /\ t.ev \in receipts /\ EventGrounded(t.ev) /\ s.todo \subseteq Msgs /\ Others(t.ev) \subseteq Msgs
  BY DEF IInv, TypeOK, LiveInv, Grounded, EventGrounded, Handler, Others, Receipt
<1>2. PICK K \in SUBSET (s.todo \ s.fresh) :
        /\ Tell(t.inst, T \cup K, Wanted(t))
        /\ \/ \E m \in s.todo \cap s.fresh :
                Become(t, [s EXCEPT !.loc = "read", !.cur = {m}, !.todo = @ \ (K \cup {m})])
           \/ IF s.convs = {} THEN Return(t) ELSE Become(t, [s EXCEPT !.loc = "reset"])
  BY DEF Proceed
<1>3. ToldGrounded
  <2>1. T \cup K \in SUBSET Msgs
    BY <1>1
  <2>2. T \cup K \subseteq Promise!Grounds(Wanted(t))
    BY <1>1, OthersGrounds DEF Wanted
  <2>3. faults' > 0 \/ \A m \in T \cup K : Stored(m)'
    BY <1>1 DEF StoredKept
  <2> QED
    BY <1>1, <1>2, <2>1, <2>2, <2>3, TellGrounded
<1>4. ASSUME NEW m \in s.todo \cap s.fresh
      PROVE  Grounded([s EXCEPT !.loc = "read", !.cur = {m}, !.todo = @ \ (K \cup {m})])
  <2> DEFINE n == [s EXCEPT !.loc = "read", !.cur = {m}, !.todo = @ \ (K \cup {m})]
  <2>1. /\ n.loc = "read" /\ n.cur = {m} /\ n.ev = t.ev /\ n.todo = s.todo \ (K \cup {m})
        /\ n.fresh = s.fresh
    BY DEF Handler
  <2> QED
    BY <1>1, <2>1 DEF Grounded
<1>5. Grounded([s EXCEPT !.loc = "reset"])
  <2> DEFINE n == [s EXCEPT !.loc = "reset"]
  <2>1. n.loc = "reset" /\ n.ev = t.ev /\ n.todo = s.todo /\ n.fresh = s.fresh
    BY DEF Handler
  <2> QED
    BY <1>1, <2>1 DEF Grounded
<1>6. TasksGrounded
  BY <1>2, <1>4, <1>5 DEF Become, Return, TasksGrounded
<1> QED
  BY <1>3, <1>6

\* What follows when a status is persisted, or the call fails.
LEMMA AfterPersistGrounded ==
  ASSUME IInv, LiveInv, NEW t \in tasks, t.loc \in {"read", "write"}, NEW result,
         AfterPersist(t, result), StoredKept, faults' > 0 \/ \A m \in t.cur : Stored(m)'
  PROVE  TasksGrounded /\ ToldGrounded
<1>1. t \in Handler /\ TaskSound(t) /\ Grounded(t) /\ TypeOK
  BY DEF IInv, TypeOK, LiveInv
<1>2. t.cur \in SUBSET Msgs /\ t.cur \subseteq Promise!Grounds(Wanted(t))
  BY CurGrounds
<1>3. UNCHANGED told => ToldGrounded
  BY <1>1 DEF ToldGrounded, TypeOK
<1>4. Return(t) => TasksGrounded
  BY DEF Return, TasksGrounded
<1>5. CASE t.ev.kind = "outbound"
  <2>1. UNCHANGED told /\ (Return(t) \/ Go(t, "ack"))
    BY <1>5 DEF AfterPersist
  <2> QED
    BY <1>3, <1>4, <2>1, GoGrounded
<1>6. CASE t.ev.kind = "ack"
  <2>1. Return(t) /\ (UNCHANGED told \/ Tell(t.inst, t.cur, "DELIVERED"))
    BY <1>6 DEF AfterPersist
  <2>2. Wanted(t) = "DELIVERED"
    BY <1>6 DEF Wanted
  <2> QED
    BY <1>1, <1>2, <1>3, <1>4, <2>1, <2>2, TellGrounded
<1>7. CASE t.ev.kind \in {"delivered", "seen"}
  <2>1. Proceed(t, t, t.cur)
    BY <1>7 DEF AfterPersist
  <2>2. t.cur \in SUBSET Others(t.ev) /\ t.todo \subseteq Others(t.ev)
    BY <1>1, <1>7 DEF Grounded
  <2>3. \A m \in t.todo \ t.fresh : Stored(m)
    BY <1>1 DEF Grounded
  <2> QED
    BY <1>1, <1>7, <2>1, <2>2, <2>3, ProceedGrounded
<1> QED
  BY <1>5, <1>6, <1>7 DEF AfterPersist

\* An event handed to every inbox, or none.
LEMMA PublishGrounded ==
  ASSUME TypeOK, InboxGrounded, NEW e \in Event, Publish(e), EventGrounded(e)',
         published \subseteq published', receipts \subseteq receipts'
  PROVE  InboxGrounded'
<1>1. ASSUME NEW i \in Instances, NEW n \in DOMAIN inbox'[i], NEW x, x = inbox'[i][n]
      PROVE  EventGrounded(x)'
  <2>1. inbox[i] \in Seq(Event)
    BY DEF TypeOK
  <2>2. inbox'[i] = inbox[i] \/ inbox'[i] = Append(inbox[i], e)
    BY DEF Publish
  <2>3. \/ n \in DOMAIN inbox[i] /\ inbox'[i][n] = inbox[i][n]
        \/ inbox'[i][n] = e
    BY <2>1, <2>2
  <2> QED
    BY <1>1, <2>3 DEF InboxGrounded, EventGrounded
<1> QED
  BY <1>1 DEF InboxGrounded

\* What is grounded stays so: messages stay published and stored, receipts sent.
LEMMA GroundedKept ==
  ASSUME NEW t, Grounded(t), published \subseteq published', receipts \subseteq receipts',
         t.todo \subseteq Msgs, StoredKept
  PROVE  Grounded(t)'
BY DEF Grounded, EventGrounded, Others, StoredKept

\* A step of a handler: what it leaves is grounded, and it reports.
Handled ==
  /\ UNCHANGED <<published, receipts, got>> /\ TasksGrounded /\ ToldGrounded /\ InboxGrounded'
  /\ faults' \in Nat /\ faults <= faults'
  /\ \/ UNCHANGED status
     \/ \E st \in {"DELIVERED", "SEEN"} : \E m \in Promise!Grounds(st) :
          status' = [status EXCEPT ![m] = st]

\* Every step of a handler, and the failure of one, is such a step.
LEMMA HandlerSteps ==
  ASSUME IInv, LiveInv, NEW t \in tasks, StepTask(t) \/ CallFails(t)
  PROVE  Handled
<1> USE DEF dbVars, busVars, clientVars, placeVars, sentVars
<1>1. /\ t \in Handler /\ TaskSound(t) /\ TypeOK /\ Grounded(t) /\ t.ev \in Event
      /\ InboxGrounded /\ t.inst \in Instances /\ faults \in Nat
  BY DEF IInv, TypeOK, Handler, LiveInv
<1>2. t.ev.kind = "outbound" =>
        t.ev.msg \in Msgs /\ ConvOf[t.ev.msg] \in Convs /\ RecipientOf[t.ev.msg] \in Users
  BY <1>1, EventKinds, MsgsAssumption
<1>3. t.ev.kind \in {"delivered", "seen"} => t.ev.by \in Users
  BY <1>1, EventKinds
<1>4. UNCHANGED told => ToldGrounded
  BY <1>1 DEF ToldGrounded, TypeOK
<1>5. UNCHANGED <<inbox, receipts, published>> => InboxGrounded'
  BY <1>1 DEF InboxGrounded, EventGrounded
<1>6. Return(t) => TasksGrounded
  BY DEF Return, TasksGrounded
<1>7. UNCHANGED status => StoredKept
  BY DEF StoredKept, Stored
<1>8. CASE Increment(t)
  BY <1>1, <1>4, <1>5, <1>8, GoGrounded DEF Increment, Handled
<1>9. CASE ReadCount(t)
  <2> DEFINE c == unread[ConvOf[t.ev.msg]][RecipientOf[t.ev.msg]]
             n == [t EXCEPT !.loc = "announce", !.count = c]
  <2>1. /\ n.loc = "announce" /\ n.ev = t.ev /\ n.todo = t.todo /\ n.cur = t.cur
        /\ n.fresh = t.fresh
    BY <1>1 DEF Handler
  <2>2. Grounded(n)
    BY <1>1, <2>1 DEF Grounded
  <2>3. TasksGrounded
    BY <1>9, <2>2 DEF ReadCount, Become, TasksGrounded
  <2> QED
    BY <1>1, <1>4, <1>5, <1>9, <2>3 DEF ReadCount, Handled
<1>10. CASE AnnounceCount(t)
  <2>1. t.ev.kind = "outbound" /\ Go(t, "read")
    BY <1>1, <1>10 DEF AnnounceCount, TaskSound
  <2> DEFINE e == [kind |-> "unread", user |-> RecipientOf[t.ev.msg],
                   conv |-> ConvOf[t.ev.msg], count |-> t.count]
  <2>2. e \in Event /\ EventGrounded(e)' /\ Publish(e)
    BY <1>1, <1>2, <1>10, <2>1 DEF Event, Handler, EventGrounded, AnnounceCount
  <2>3. InboxGrounded'
    BY <1>1, <1>10, <2>2, PublishGrounded DEF AnnounceCount
  <2> QED
    BY <1>1, <1>4, <1>10, <2>1, <2>3, GoGrounded DEF AnnounceCount, Handled
<1>11. CASE PublishAck(t)
  <2>1. t.ev.kind = "outbound" /\ t.ev.msg \in published
    BY <1>1, <1>11 DEF PublishAck, TaskSound, Grounded, EventGrounded
  <2> DEFINE e == [kind |-> "ack", msg |-> t.ev.msg, from |-> t.inst]
  <2>2. e \in Event /\ EventGrounded(e)' /\ Publish(e)
    BY <1>1, <1>2, <1>11, <2>1 DEF Event, EventGrounded, PublishAck
  <2>3. InboxGrounded'
    BY <1>1, <1>11, <2>2, PublishGrounded DEF PublishAck
  <2> QED
    BY <1>1, <1>4, <1>6, <1>11, <2>3 DEF PublishAck, Handled
<1>12. CASE ReadStatus(t)
  <2>1. CASE status[Current(t)] \in {"SEEN", Wanted(t)}
    <3>1. PICK m \in Msgs : t.cur = {m}
      BY <1>12, CurGrounds DEF ReadStatus
    <3>2. \A x \in t.cur : Stored(x)'
      BY <1>12, <2>1, <3>1 DEF ReadStatus, Current, Stored, Wanted
    <3>3. TasksGrounded /\ ToldGrounded
      BY <1>7, <1>12, <2>1, <3>2, AfterPersistGrounded DEF ReadStatus
    <3> QED
      BY <1>1, <1>5, <1>12, <3>3 DEF ReadStatus, Handled
  <2>2. CASE status[Current(t)] \notin {"SEEN", Wanted(t)}
    <3>1. Go(t, "write") /\ UNCHANGED told /\ t.loc = "read"
      BY <1>12, <2>2 DEF ReadStatus
    <3>2. TasksGrounded
      BY <3>1, GoGrounded
    <3> QED
      BY <1>1, <1>4, <1>5, <1>12, <3>1, <3>2 DEF ReadStatus, Handled
  <2> QED
    BY <2>1, <2>2
<1>13. CASE WriteStatus(t)
  <2>1. PICK m \in Msgs : t.cur = {m} /\ m \in Promise!Grounds(Wanted(t))
    BY <1>13, CurGrounds DEF WriteStatus
  <2>2. Current(t) = m /\ Wanted(t) \in {"DELIVERED", "SEEN"}
    BY <2>1 DEF Current, Wanted
  <2>3. status' = [status EXCEPT ![m] = Wanted(t)]
    BY <1>13, <2>2 DEF WriteStatus
  <2>4. StoredKept /\ \A x \in t.cur : Stored(x)'
    BY <1>1, <2>1, <2>2, <2>3 DEF StoredKept, Stored, TypeOK
  <2>5. TasksGrounded /\ ToldGrounded
    BY <1>13, <2>4, AfterPersistGrounded DEF WriteStatus
  <2>6. \E st \in {"DELIVERED", "SEEN"} : \E x \in Promise!Grounds(st) :
           status' = [status EXCEPT ![x] = st]
    BY <2>1, <2>2, <2>3
  <2>7. /\ UNCHANGED <<published, receipts, got>> /\ InboxGrounded'
        /\ faults' \in Nat /\ faults <= faults'
    BY <1>1, <1>5, <1>13 DEF WriteStatus
  <2> QED
    BY <2>5, <2>6, <2>7 DEF Handled
<1>14. CASE Find(t)
  <2> DEFINE found == t.ev.msgs \cap Saved
             others == {m \in found : SenderOf[m] # t.ev.by}
             behind == IF t.ev.kind = "seen" THEN {m \in others : status[m] # "SEEN"}
                       ELSE {m \in others : status[m] = "QUEUED"}
             todo == IF t.ev.kind = "seen" THEN others ELSE behind
             convs == IF t.ev.kind = "seen" THEN {ConvOf[m] : m \in found} ELSE {}
             start == [t EXCEPT !.fresh = behind, !.todo = todo, !.convs = convs]
  <2>1. t.ev.kind \in {"delivered", "seen"}
    BY <1>1, <1>14 DEF Find, TaskSound
  <2>2. /\ todo \subseteq Msgs /\ behind \subseteq Msgs /\ convs \subseteq Convs
        /\ todo \subseteq Others(t.ev)
    BY <1>1, <2>1, EventKinds, MsgsAssumption DEF Others
  <2>3. \A m \in todo \ behind : Stored(m)
    BY DEF Stored
  <2> HIDE DEF todo, behind, convs
  <2>4. /\ start \in Handler /\ start.ev = t.ev /\ start.todo = todo /\ start.fresh = behind
    BY <1>1, <2>2 DEF Handler
  <2>5. Proceed(t, start, {})
    BY <1>14 DEF Find, todo, behind, convs
  <2>6. StoredKept
    BY <1>7, <1>14 DEF Find
  <2> HIDE DEF start
  <2>7. TasksGrounded /\ ToldGrounded
    <3>1. start.todo \subseteq Others(t.ev) /\ \A m \in start.todo \ start.fresh : Stored(m)
      BY <2>2, <2>3, <2>4
    <3>2. {} \in SUBSET Others(t.ev) /\ \A m \in {} : Stored(m)'
      OBVIOUS
    <3> QED
      BY <2>1, <2>4, <2>5, <2>6, <3>1, <3>2, ProceedGrounded
  <2> QED
    BY <1>1, <1>5, <1>14, <2>7 DEF Find, Handled
<1>15. CASE Reset(t)
  <2>1. PICK c \in t.convs :
          Become(t, [t EXCEPT !.loc = "zero", !.cur = {c}, !.convs = @ \ {c}])
    BY <1>15 DEF Reset
  <2> DEFINE n == [t EXCEPT !.loc = "zero", !.cur = {c}, !.convs = @ \ {c}]
  <2>2. n.loc = "zero" /\ n.ev = t.ev /\ n.todo = t.todo /\ n.fresh = t.fresh
    BY <1>1 DEF Handler
  <2>3. t.ev.kind \in {"delivered", "seen"}
    BY <1>1, <1>15 DEF Reset, TaskSound
  <2>4. Grounded(n)
    BY <1>1, <2>2, <2>3 DEF Grounded
  <2>5. TasksGrounded
    BY <2>1, <2>4 DEF Become, TasksGrounded
  <2> QED
    BY <1>1, <1>4, <1>5, <1>15, <2>5 DEF Reset, Handled
<1>16. CASE AnnounceZero(t)
  <2>1. t.ev.kind \in {"delivered", "seen"} /\ t.cur \subseteq Convs
    BY <1>1, <1>16 DEF AnnounceZero, TaskSound
  <2>2. PICK c \in t.cur : Publish([kind |-> "unread", user |-> t.ev.by, conv |-> c, count |-> 0])
    BY <1>16 DEF AnnounceZero
  <2> DEFINE e == [kind |-> "unread", user |-> t.ev.by, conv |-> c, count |-> 0]
  <2>3. e \in Event /\ EventGrounded(e)'
    BY <1>3, <2>1 DEF Event, EventGrounded
  <2>4. InboxGrounded'
    BY <1>1, <1>16, <2>2, <2>3, PublishGrounded DEF AnnounceZero
  <2>5. TasksGrounded
    BY <1>6, <1>16, GoGrounded DEF AnnounceZero
  <2> QED
    BY <1>1, <1>4, <1>16, <2>4, <2>5 DEF AnnounceZero, Handled
<1>17. CASE CallFails(t)
  <2>1. faults' = faults + 1 /\ faults' > 0 /\ StoredKept
    BY <1>1, <1>7, <1>17 DEF CallFails
  <2>2. TasksGrounded /\ ToldGrounded
    BY <1>4, <1>6, <1>17, <2>1, AfterPersistGrounded DEF CallFails
  <2> QED
    BY <1>1, <1>5, <1>17, <2>1, <2>2 DEF CallFails, Handled
<1> QED
  BY <1>8, <1>9, <1>10, <1>11, <1>12, <1>13, <1>14, <1>15, <1>16, <1>17 DEF StepTask

\* Such a step is one of LiveDelivery, and keeps the invariant.
LEMMA HandledReports ==
  ASSUME IInv, IInv', LiveInv, Handled
  PROVE  Promise!Report /\ LiveInv'
<1>1. /\ TypeOK /\ published \subseteq Saved /\ receipts \subseteq Receipt /\ status \in [Msgs -> Status]
      /\ \A t \in tasks : t \in Handler /\ Grounded(t)
  BY DEF IInv, TypeOK, LiveInv
<1>2. \A m : (MarkedSeen(m)' <=> MarkedSeen(m)) /\ (MarkedDelivered(m)' <=> MarkedDelivered(m))
  BY DEF Handled, MarkedSeen, MarkedDelivered
<1>3. UNCHANGED <<published, {m \in Msgs : MarkedDelivered(m)}, {m \in Msgs : MarkedSeen(m)}, got>>
  BY <1>2 DEF Handled
<1>4. (faults > 0) => (faults' > 0)
  BY DEF Handled, LiveInv
<1>5. \A m \in Msgs : Stored(m)' => m \in Promise!Passed'
  BY DEF Stored, Promise!Passed
<1>6. Promise!Report
  BY <1>3, <1>4, <1>5 DEF Handled, ToldGrounded, Promise!Report
<1>7. StoredKept /\ Saved \subseteq Saved'
  BY <1>1 DEF Handled, StoredKept, Stored, Saved
<1>8. \A t \in tasks' : Grounded(t)'
  <2>1. ASSUME NEW t \in tasks' PROVE Grounded(t)'
    <3>1. Grounded(t)
      BY <1>1 DEF Handled, TasksGrounded
    <3>2. UNCHANGED <<published, receipts>>
      BY DEF Handled
    <3>3. t.todo \subseteq Msgs
      BY DEF IInv, TypeOK, Handler
    <3> QED
      BY <1>7, <3>1, <3>2, <3>3, GroundedKept
  <2> QED
    BY <2>1
<1> QED
  BY <1>6, <1>7, <1>8 DEF LiveInv, Handled

\* A step that leaves messages, receipts, what is told and the failures alone, or
\* adds to the failures.
LEMMA LiveKept ==
  ASSUME IInv, LiveInv, UNCHANGED <<status, published, receipts>>,
         InboxGrounded', \A t \in tasks' : t \in tasks \/ Grounded(t), faults' \in Nat,
         IInv'
  PROVE  LiveInv'
<1>1. StoredKept /\ Saved' = Saved
  BY DEF StoredKept, Stored, Saved
<1>2. ASSUME NEW t \in tasks' PROVE Grounded(t)'
  <2>1. Grounded(t) /\ t.todo \subseteq Msgs
    BY DEF LiveInv, IInv, TypeOK, Handler
  <2> QED
    BY <1>1, <2>1, GroundedKept
<1> QED
  BY <1>1, <1>2 DEF LiveInv

\* The same promise is kept by a step that leaves all it speaks of alone.
LEMMA PromiseStutters ==
  ASSUME UNCHANGED <<status, published, receipts, got, told, faults>>
  PROVE  UNCHANGED Promise!vars
BY DEF Promise!vars, MarkedDelivered, MarkedSeen

\* The worker saves and publishes.
LEMMA WorkerLive ==
  ASSUME IInv, IInv', LiveInv, Worker
  PROVE  LiveInv' /\ Promise!Next
<1> USE DEF dbVars, busVars, clientVars, placeVars, sentVars
<1>1. /\ TypeOK /\ published \subseteq Saved /\ status \in [Msgs -> Status] /\ faults \in Nat
      /\ InboxGrounded /\ \A r \in receipts : r.msgs \subseteq Saved
      /\ \A t \in tasks : Grounded(t) /\ t.todo \subseteq Msgs
  BY DEF IInv, TypeOK, Handler, LiveInv
<1>2. receipts' = receipts => \A m : (MarkedSeen(m)' <=> MarkedSeen(m))
                                       /\ (MarkedDelivered(m)' <=> MarkedDelivered(m))
  BY DEF MarkedSeen, MarkedDelivered
<1>3. ASSUME NEW m \in Msgs, SaveMessage(m) PROVE LiveInv' /\ Promise!Save(m)
  <2>1. /\ UNCHANGED <<inbox, tasks, published, receipts, got, told, faults>>
        /\ status[m] = "NONE" /\ status' = [status EXCEPT ![m] = "QUEUED"]
    BY <1>3 DEF SaveMessage
  <2>2. StoredKept /\ Saved \subseteq Saved'
    BY <1>1, <2>1 DEF StoredKept, Stored, Saved
  <2>3. InboxGrounded'
    BY <1>1, <2>1 DEF InboxGrounded, EventGrounded
  <2>4. \A t \in tasks' : Grounded(t)'
    BY <1>1, <2>1, <2>2, GroundedKept
  <2>5. UNCHANGED <<{x \in Msgs : MarkedDelivered(x)}, {x \in Msgs : MarkedSeen(x)}>>
    BY <1>2, <2>1
  <2> QED
    BY <1>1, <2>1, <2>2, <2>3, <2>4, <2>5 DEF LiveInv, Promise!Save
<1>4. ASSUME NEW m \in Msgs, PublishOutbound(m) PROVE LiveInv' /\ Promise!Publish(m)
  <2>1. /\ UNCHANGED <<status, tasks, receipts, got, told, faults>>
        /\ m \in Saved /\ published' = published \cup {m}
    BY <1>4 DEF PublishOutbound
  <2>2. StoredKept /\ Saved' = Saved
    BY <2>1 DEF StoredKept, Stored, Saved
  <2> DEFINE e == [kind |-> "outbound", msg |-> m]
  <2>3. e \in Event /\ Publish(e) /\ EventGrounded(e)'
    BY <1>4, <2>1 DEF PublishOutbound, Event, EventGrounded
  <2> HIDE DEF e
  <2>4. InboxGrounded'
    BY <1>1, <2>1, <2>3, PublishGrounded
  <2>5. \A t \in tasks' : Grounded(t)'
    BY <1>1, <2>1, <2>2, GroundedKept
  <2>6. UNCHANGED <<{x \in Msgs : MarkedDelivered(x)}, {x \in Msgs : MarkedSeen(x)}>>
    BY <1>2, <2>1
  <2>7. m \in Promise!Saved
    BY <2>1 DEF Saved, Promise!Saved
  <2> QED
    BY <1>1, <2>1, <2>2, <2>4, <2>5, <2>6, <2>7 DEF LiveInv, Promise!Publish
<1> QED
  BY <1>3, <1>4 DEF Worker, Promise!Next

\* An instance takes an event: at most, a message is sent to its recipient.
LEMMA ReceiveLive ==
  ASSUME IInv, IInv', LiveInv, NEW i \in Instances, Receive(i)
  PROVE  LiveInv' /\ (Promise!Next \/ UNCHANGED Promise!vars)
<1> USE DEF dbVars, busVars, clientVars, placeVars, sentVars
<1> DEFINE e == Head(inbox[i])
<1>1. /\ TypeOK /\ InboxGrounded /\ faults \in Nat /\ inbox[i] \in Seq(Event) /\ inbox[i] # <<>>
      /\ inbox' = [inbox EXCEPT ![i] = Tail(@)]
      /\ UNCHANGED <<status, published, receipts, told, faults>>
  BY DEF IInv, TypeOK, LiveInv, Receive, HandleOutbound, HandleUnread, HandleAck,
         HandleReceipt, Receives, Begin
<1>2. e \in Event /\ EventGrounded(e) /\ e = inbox[i][1]
  BY <1>1 DEF InboxGrounded
<1>3. InboxGrounded'
  <2>1. ASSUME NEW j \in Instances, NEW n \in DOMAIN inbox'[j], NEW x, x = inbox'[j][n]
        PROVE  EventGrounded(x)'
    <3>1. \E k \in DOMAIN inbox[j] : inbox'[j][n] = inbox[j][k]
      <4>1. CASE j = i
        <5>1. inbox'[i] = Tail(inbox[i]) /\ n \in DOMAIN Tail(inbox[i])
          BY <1>1, <4>1 DEF TypeOK
        <5>2. n + 1 \in DOMAIN inbox[i] /\ Tail(inbox[i])[n] = inbox[i][n + 1]
          BY <1>1, <5>1
        <5> QED
          BY <4>1, <5>1, <5>2
      <4>2. CASE j # i
        BY <1>1, <4>2 DEF TypeOK
      <4> QED
        BY <4>1, <4>2
    <3> QED
      BY <1>1, <2>1, <3>1 DEF InboxGrounded, EventGrounded
  <2> QED
    BY <2>1 DEF InboxGrounded
<1>4. \A t \in tasks' : t \in tasks \/ Grounded(t)
  <2>1. ASSUME NEW l \in {"increment", "read", "find"},
               l # "find" => e.kind \in {"outbound", "ack"}
        PROVE  Grounded(Task(i, e, l))
    <3> DEFINE n == Task(i, e, l)
    <3>1. /\ n.ev = e /\ n.loc = l /\ n.todo = {} /\ n.fresh = {}
          /\ n.cur = IF e.kind \in {"outbound", "ack"} THEN {e.msg} ELSE {}
      BY DEF Task
    <3> HIDE DEF n, e
    <3> QED
      BY <1>2, <2>1, <3>1 DEF Grounded, Task, n
  <2> QED
    BY <2>1 DEF Receive, HandleOutbound, HandleUnread, HandleAck, HandleReceipt, Receives, Begin
<1>5. LiveInv'
  BY <1>1, <1>3, <1>4, LiveKept
<1>6. CASE HandleOutbound(i)
  <2>1. e.msg \in published /\ e.msg \in Msgs /\ got' \in {got, got \cup {e.msg}}
    BY <1>2, <1>6, EventKinds DEF HandleOutbound, Receives, EventGrounded
  <2>2. UNCHANGED <<{x \in Msgs : MarkedDelivered(x)}, {x \in Msgs : MarkedSeen(x)}>>
    BY <1>1 DEF MarkedSeen, MarkedDelivered
  <2>3. CASE got' = got
    BY <1>1, <1>5, <2>3, PromiseStutters
  <2>4. CASE got' = got \cup {e.msg}
    BY <1>1, <1>5, <2>1, <2>2, <2>4 DEF Promise!Emit, Promise!Next
  <2> QED
    BY <2>1, <2>3, <2>4
<1>7. CASE HandleUnread(i) \/ HandleAck(i) \/ HandleReceipt(i)
  <2>1. UNCHANGED got
    BY <1>7 DEF HandleUnread, HandleAck, HandleReceipt
  <2> QED
    BY <1>1, <1>5, <2>1, PromiseStutters
<1> QED
  BY <1>6, <1>7 DEF Receive

\* A client sends a receipt: of the messages others have sent, the promise takes note.
LEMMA SendReceiptLive ==
  ASSUME IInv, IInv', LiveInv, NEW r \in Receipt, SendReceipt(r)
  PROVE  LiveInv' /\ (Promise!Next \/ UNCHANGED Promise!vars)
<1> USE DEF dbVars, busVars, clientVars, placeVars, sentVars
<1> DEFINE ms == {m \in Msgs : r.by # SenderOf[m] /\ m \in r.msgs}
           received == {m \in Msgs : MarkedDelivered(m)}
           marked == {m \in Msgs : MarkedSeen(m)}
<1>1. /\ TypeOK /\ InboxGrounded /\ faults \in Nat /\ r \in Event /\ r.kind \in {"delivered", "seen"}
      /\ \A t \in tasks : Grounded(t) /\ t.todo \subseteq Msgs
      /\ \A x \in receipts : x.msgs \subseteq Saved
  BY DEF IInv, TypeOK, LiveInv, Handler, Event, Receipt
<1>2. /\ UNCHANGED <<status, tasks, published, got, told, faults>>
      /\ receipts' = receipts \cup {r} /\ Publish(r) /\ r.msgs \subseteq Saved
  BY DEF SendReceipt
<1>3. StoredKept /\ Saved' = Saved
  BY <1>2 DEF StoredKept, Stored, Saved
<1>4. InboxGrounded'
  <2>1. EventGrounded(r)'
    BY <1>1, <1>2 DEF EventGrounded
  <2> QED
    BY <1>1, <1>2, <2>1, PublishGrounded
<1>5. \A t \in tasks' : Grounded(t)'
  BY <1>1, <1>2, <1>3, GroundedKept
<1>6. LiveInv'
  BY <1>1, <1>2, <1>3, <1>4, <1>5 DEF LiveInv
<1>7. ms \in SUBSET Msgs /\ ms \subseteq Promise!Saved
  BY <1>2 DEF Saved, Promise!Saved
<1>8. /\ r.kind = "delivered" => received' = received \cup ms /\ marked' = marked
      /\ r.kind = "seen" => marked' = marked \cup ms /\ received' = received
  BY <1>2 DEF MarkedDelivered, MarkedSeen
<1> HIDE DEF ms
<1>9. Promise!Receipt(ms)
  BY <1>1, <1>2, <1>7, <1>8 DEF Promise!Receipt
<1> QED
  BY <1>6, <1>7, <1>9 DEF Promise!Next

\* Instances die and come back, and clients connect, look and leave.
LEMMA PlacesLive ==
  ASSUME IInv, IInv', LiveInv,
         \/ \E i \in Instances : Crash(i) \/ Restart(i)
         \/ \E u \in Users : Client(u)
  PROVE  LiveInv' /\ (Promise!Next \/ UNCHANGED Promise!vars)
<1> USE DEF dbVars, busVars, clientVars, placeVars, sentVars
<1>1. /\ TypeOK /\ InboxGrounded /\ faults \in Nat
  BY DEF IInv, LiveInv
<1>2. UNCHANGED <<inbox, published, receipts>> => InboxGrounded'
  BY <1>1 DEF InboxGrounded, EventGrounded
<1>3. ASSUME NEW i \in Instances, Crash(i) PROVE LiveInv' /\ Promise!Report
  <2>1. /\ UNCHANGED <<status, published, receipts, got, told>>
        /\ inbox' = [inbox EXCEPT ![i] = <<>>] /\ faults' = faults + 1
        /\ \A t \in tasks' : t \in tasks
    BY <1>3 DEF Crash
  <2>2. InboxGrounded'
    <3>1. ASSUME NEW j \in Instances, NEW n \in DOMAIN inbox'[j], NEW x, x = inbox'[j][n]
          PROVE  EventGrounded(x)'
      <4>1. j # i /\ inbox'[j] = inbox[j]
        BY <1>1, <2>1, <3>1 DEF TypeOK
      <4> QED
        BY <1>1, <2>1, <3>1, <4>1 DEF InboxGrounded, EventGrounded
    <3> QED
      BY <3>1 DEF InboxGrounded
  <2>3. LiveInv'
    BY <1>1, <2>1, <2>2, LiveKept
  <2>4. UNCHANGED <<{x \in Msgs : MarkedDelivered(x)}, {x \in Msgs : MarkedSeen(x)}>>
    BY <2>1 DEF MarkedSeen, MarkedDelivered
  <2>5. faults' > 0
    BY <1>1, <2>1
  <2>6. Promise!Report
    BY <1>1, <2>1, <2>4, <2>5 DEF Promise!Report, TypeOK
  <2> QED
    BY <2>3, <2>6
<1>4. ASSUME NEW i \in Instances, Restart(i) PROVE LiveInv' /\ UNCHANGED Promise!vars
  <2>1. UNCHANGED <<status, inbox, tasks, published, receipts, got, told, faults>>
    BY <1>4 DEF Restart
  <2> QED
    BY <1>1, <1>2, <2>1, LiveKept, PromiseStutters
<1>5. ASSUME NEW u \in Users, Client(u) PROVE LiveInv' /\ UNCHANGED Promise!vars
  <2>1. UNCHANGED <<status, inbox, tasks, published, receipts, got, told, faults>>
    BY <1>5 DEF Client, Connect, Disconnect, OpenConversation, CloseConversation, MarkAsRead, Moves
  <2> QED
    BY <1>1, <1>2, <2>1, LiveKept, PromiseStutters
<1> QED
  BY <1>3, <1>4, <1>5 DEF Promise!Next

\* Every step keeps the invariant, and is a step of LiveDelivery or none.
LEMMA StepSimulated ==
  ASSUME IInv, IInv', LiveInv, [Next]_vars
  PROVE  LiveInv' /\ [Promise!Next]_(Promise!vars)
<1>1. CASE UNCHANGED vars
  <2>1. UNCHANGED <<status, inbox, tasks, published, receipts, got, told, faults>>
    BY <1>1 DEF vars
  <2>2. InboxGrounded'
    BY <2>1 DEF InboxGrounded, EventGrounded, LiveInv
  <2>3. faults' \in Nat
    BY <2>1 DEF LiveInv
  <2> QED
    BY <2>1, <2>2, <2>3, LiveKept, PromiseStutters
<1>2. CASE \E t \in tasks : StepTask(t) \/ CallFails(t)
  BY <1>2, HandlerSteps, HandledReports DEF Promise!Next
<1> QED
  BY <1>1, <1>2, WorkerLive, ReceiveLive, SendReceiptLive, PlacesLive DEF Next

\* Whatever handlers interleave, repeat and fail on however many instances: what is
\* stored and told of a message is what LiveDelivery allows.
THEOREM Implementation == Spec => ImplementsLiveDelivery
<1>1. Init => LiveInv /\ Promise!Init
  <2> SUFFICES ASSUME Init PROVE LiveInv /\ Promise!Init
    OBVIOUS
  <2>1. faults = 0 /\ receipts = {} /\ tasks = {}
    BY DEF Init
  <2>2. InboxGrounded
    BY DEF Init, InboxGrounded
  <2>3. ~(faults > 0)
    BY <2>1
  <2>4. {m \in Msgs : MarkedDelivered(m)} = {} /\ {m \in Msgs : MarkedSeen(m)} = {}
    BY <2>1 DEF MarkedDelivered, MarkedSeen
  <2> QED
    BY <2>1, <2>2, <2>3, <2>4 DEF Init, LiveInv, Promise!Init
<1>2. IInv /\ IInv' /\ LiveInv /\ [Next]_vars => LiveInv' /\ [Promise!Next]_(Promise!vars)
  BY StepSimulated
<1> QED
  BY <1>1, <1>2, Invariance, PTL DEF Spec, ImplementsLiveDelivery, Promise!Spec
=============================================================================
