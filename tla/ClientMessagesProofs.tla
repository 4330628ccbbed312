------------------------ MODULE ClientMessagesProofs ------------------------
(***************************************************************************)
(* Proofs about ClientMessages, for any conversations and messages, and    *)
(* any numbers of faults and of conversations opened: what the reducer     *)
(* keeps of a list, whatever pages, answers, acknowledgements and receipts *)
(* come in whatever order, and which receipts the window sends.            *)
(***************************************************************************)
EXTENDS ClientMessages, FiniteSetTheorems, TLAPS

-----------------------------------------------------------------------------
(* The inductive invariant *)

\* Rows from which a message never goes back to QUEUED.
Reached == {"DELIVERED", "SEEN"}

\* What the server knows bears out that message m has, or has had, status st.
Holds(m, st) ==
  /\ st = "QUEUED" => m \in accepted
  /\ st = "DELIVERED" => row[m] \in Reached
  /\ st = "SEEN" => m \in wasSeen

\* An entry for a message of this user claims no more than is so.
Truthful(b) == b.msg \in Mine => Holds(b.msg, b.status)

\* An entry has the id of the row unless it has the clientMsgId of an own message,
\* and of two entries for one message only one has that.
Distinct(S) ==
  /\ \A b \in S : ~b.client => b.id = "row"
  /\ \A b \in S : b.msg \in Theirs => ~b.client
  /\ \A x, y \in S : x.msg = y.msg /\ x.client = y.client => x = y

ListSound(S) == S \subseteq Bubble /\ Distinct(S) /\ \A b \in S : Truthful(b)

\* A page names a message at most once, and is true.
PageSound(items) ==
  /\ \A i, j \in items : i.msg = j.msg => i = j
  /\ \A i \in items : Truthful(i)

PagesSound == PageSound(page.items) /\ \A c \in Convs : PageSound(cache[c])

\* The events on their way to the window are true.
EventTrue(e) ==
  /\ e.kind = "queued" => e.msg \in accepted
  /\ e.kind = "delivery" => Holds(e.msg, e.status)

DownSound == \A n \in DOMAIN down : EventTrue(down[n])

\* Only what was accepted is stored or answered, only what is stored goes out, and
\* only what is stored as delivered is acknowledged.
ServerSound ==
  /\ replying \subseteq accepted
  /\ \A m \in Mine : row[m] # "NONE" => m \in accepted
  /\ \A m \in Msgs : stage[m] \in {"out", "storing", "stored", "done"} => row[m] # "NONE"
  /\ \A m \in Msgs : stage[m] = "stored" => row[m] \in Reached
  /\ \A m \in Msgs : row[m] = "SEEN" => m \in wasSeen
  /\ \A m \in writing : row[m] # "NONE"

\* What is in the list and belongs to the open conversation has been displayed, and
\* so has what the receipts on their way name.
ShownSound == \A b \in bubbles : b.msg \in Theirs /\ ConvOf[b.msg] = selected => b.msg \in shown
UpSound == \A n \in DOMAIN up : up[n].kind = "seen" => up[n].msgs \subseteq shown

IInv ==
  /\ TypeOK
  /\ ListSound(bubbles) /\ PagesSound /\ DownSound /\ ServerSound
  /\ ShownSound /\ UpSound /\ SeenOnlyWhenShown

-----------------------------------------------------------------------------
(* Ranks *)

LEMMA Ranks == Status = {"PENDING", "FAILED", "QUEUED", "DELIVERED", "SEEN"}
BY DEF Status, Rank

\* resolveMessageStatus gives one of the two.
LEMMA Resolved ==
  ASSUME NEW old, NEW new
  PROVE  ResolveStatus(old, new) \in {old, new}
BY DEF ResolveStatus

-----------------------------------------------------------------------------
(* The reducer *)

\* upsertMessage keeps a list sound, and changes only entries of that message.
LEMMA UpsertsKeep ==
  ASSUME NEW S, ListSound(S), NEW b \in Bubble, Truthful(b),
         ~b.client => b.id = "row", b.client => b.id = "client" /\ b.msg \in Mine,
         NEW T \in Upserts(S, b)
  PROVE  ListSound(T) /\ \A x \in T : x \in S \/ x.msg = b.msg
<1> DEFINE found == {x \in S : Matches(x, b)}
           merged(x) == [b EXCEPT !.client = x.client \/ @, !.status = ResolveStatus(x.status, @)]
<1>1. CASE found = {}
  <2>1. T = S \cup {b}
    BY <1>1 DEF Upserts
  <2>2. \A x \in S : x.msg = b.msg => x.client # b.client
    BY <1>1 DEF Matches, ListSound, Distinct, Bubble
  <2>3. Distinct(T)
    BY <2>1, <2>2, OwnersAssumption DEF ListSound, Distinct
  <2> QED
    BY <2>1, <2>3 DEF ListSound
<1>2. CASE found # {}
  <2>1. PICK x \in found : T = (S \ {x}) \cup {merged(x)}
    BY <1>2 DEF Upserts
  <2>2. /\ x \in S /\ x \in Bubble /\ x.msg = b.msg
        /\ x.id = b.id \/ (x.client /\ b.client)
    BY <2>1 DEF Matches, ListSound
  <2>3. /\ merged(x) \in Bubble
        /\ merged(x).msg = b.msg /\ merged(x).id = b.id
        /\ merged(x).client = (x.client \/ b.client)
        /\ merged(x).status \in {x.status, b.status}
    BY <2>2, Resolved DEF Bubble
  <2> DEFINE y == merged(x)
  <2> HIDE DEF merged
  <2>4. Truthful(y)
    BY <2>2, <2>3 DEF ListSound, Truthful
  <2>5. y.client = x.client
    <3>1. x.client \in BOOLEAN /\ b.client \in BOOLEAN
      BY <2>2 DEF Bubble
    <3>2. b.client => x.client
      BY <2>2 DEF ListSound, Distinct
    <3> QED
      BY <2>3, <3>1, <3>2
  <2>6. \A z \in S \ {x} : z.msg = b.msg => z.client # y.client
    <3> SUFFICES ASSUME NEW z \in S \ {x}, z.msg = b.msg, z.client = y.client PROVE FALSE
      OBVIOUS
    <3> QED
      BY <2>2, <2>5 DEF ListSound, Distinct
  <2>7. Distinct(T)
    <3>1. ~y.client => y.id = "row"
      BY <2>2, <2>3, <2>5 DEF ListSound, Distinct
    <3>2. y.msg \in Theirs => ~y.client
      BY <2>2, <2>3, OwnersAssumption DEF ListSound, Distinct
    <3> QED
      BY <2>1, <2>3, <2>6, <3>1, <3>2 DEF ListSound, Distinct
  <2> QED
    BY <2>1, <2>3, <2>4, <2>7 DEF ListSound
<1> QED
  BY <1>1, <1>2

\* patchMessage keeps a list sound if what it says is true; it adds no message.
LEMMA PatchesKeep ==
  ASSUME NEW S, ListSound(S), NEW m, NEW by \in {{"client"}, {"row"}, {"client", "row"}},
         NEW st \in Status, m \in Mine => Holds(m, st),
         NEW T \in Patches(S, m, by, st)
  PROVE  ListSound(T) /\ \A x \in T : \E y \in S : x.msg = y.msg
<1> DEFINE found == {x \in S : x.msg = m /\ (("client" \in by /\ x.client) \/ ("row" \in by /\ x.id = "row"))}
           patched(x) == [x EXCEPT !.id = IF "row" \in by THEN "row" ELSE @,
                                   !.status = ResolveStatus(@, st)]
<1>1. CASE found = {}
  BY <1>1 DEF Patches
<1>2. CASE found # {}
  <2>1. PICK x \in found : T = (S \ {x}) \cup {patched(x)}
    BY <1>2 DEF Patches
  <2>2. x \in S /\ x \in Bubble /\ x.msg = m
    BY <2>1 DEF ListSound
  <2>3. /\ patched(x) \in Bubble
        /\ patched(x).msg = m /\ patched(x).client = x.client
        /\ patched(x).id \in {x.id, "row"}
        /\ patched(x).status \in {x.status, st}
    <3> DEFINE newId == IF "row" \in by THEN "row" ELSE x.id
               newStatus == ResolveStatus(x.status, st)
    <3>1. newId \in {x.id, "row"} /\ newStatus \in {x.status, st}
      BY Resolved
    <3>2. patched(x) = [x EXCEPT !.id = newId, !.status = newStatus]
      OBVIOUS
    <3>3. newId \in {"client", "row"} /\ newStatus \in Status
      BY <2>2, <3>1 DEF Bubble
    <3> HIDE DEF newId, newStatus, patched, found
    <3>4. [x EXCEPT !.id = newId, !.status = newStatus] \in Bubble
      BY <2>2, <3>3 DEF Bubble
    <3> QED
      BY <2>2, <3>1, <3>2, <3>4 DEF Bubble
  <2> DEFINE y == patched(x)
  <2> HIDE DEF patched
  <2>4. Truthful(y)
    BY <2>2, <2>3 DEF ListSound, Truthful
  <2>5. Distinct(T)
    BY <2>1, <2>2, <2>3 DEF ListSound, Distinct
  <2> QED
    BY <2>1, <2>2, <2>3, <2>4, <2>5 DEF ListSound
<1> QED
  BY <1>1, <1>2

\* hydrate keeps a list sound if the page is.
LEMMA HydratesKeep ==
  ASSUME NEW S, ListSound(S), NEW items \in SUBSET Item, PageSound(items),
         NEW T \in Hydrates(S, items)
  PROVE  ListSound(T)
<1> DEFINE Part(i) == {x \in S : x.msg = i.msg}
           Of(i) == Upserts(Part(i), FromServer(i.msg, i.status))
           rest == {x \in S : \A i \in items : x.msg # i.msg}
<1>1. PICK merged \in [items -> UNION {Of(i) : i \in items}] :
        (\A i \in items : merged[i] \in Of(i)) /\ T = rest \cup UNION {merged[i] : i \in items}
  BY Zenon DEF Hydrates
<1>2. ASSUME NEW i \in items
      PROVE  ListSound(merged[i]) /\ \A x \in merged[i] : x.msg = i.msg
  <2> DEFINE b == FromServer(i.msg, i.status)
  <2>1. b \in Bubble /\ b.msg = i.msg /\ b.status = i.status /\ b.id = "row" /\ b.client = FALSE
    BY DEF FromServer, Bubble, Item
  <2>2. Truthful(b)
    BY <2>1 DEF PageSound, Truthful
  <2>3. ListSound(Part(i))
    BY DEF ListSound, Distinct
  <2>4. merged[i] \in Upserts(Part(i), b)
    BY <1>1
  <2> HIDE DEF b, Part
  <2>5. ListSound(merged[i]) /\ \A x \in merged[i] : x \in Part(i) \/ x.msg = b.msg
    BY <2>1, <2>2, <2>3, <2>4, UpsertsKeep
  <2> QED
    BY <2>1, <2>5 DEF Part
<1> HIDE DEF Of, Part
<1>3. \A x \in T : (x \in S /\ \A i \in items : x.msg # i.msg) \/ \E i \in items : x \in merged[i]
  BY <1>1
<1>4. ASSUME NEW x \in T
      PROVE  /\ x \in Bubble /\ Truthful(x)
             /\ ~x.client => x.id = "row"
             /\ x.msg \in Theirs => ~x.client
  BY <1>2, <1>3 DEF ListSound, Distinct
<1>5. ASSUME NEW x \in T, NEW y \in T, x.msg = y.msg, x.client = y.client
      PROVE  x = y
  <2>1. CASE \E i \in items : x.msg = i.msg
    <3>1. PICK i \in items : x.msg = i.msg
      BY <2>1
    <3>2. x \in merged[i] /\ y \in merged[i]
      <4>1. ASSUME NEW z \in T, z.msg = i.msg PROVE z \in merged[i]
        <5>1. PICK j \in items : z \in merged[j]
          BY <1>3, <4>1
        <5>2. j = i
          BY <1>2, <4>1, <5>1 DEF PageSound
        <5> QED
          BY <5>1, <5>2
      <4> QED
        BY <1>5, <3>1, <4>1
    <3> QED
      BY <1>2, <1>5, <3>2 DEF ListSound, Distinct
  <2>2. CASE ~\E i \in items : x.msg = i.msg
    BY <1>2, <1>3, <1>5, <2>2 DEF ListSound, Distinct
  <2> QED
    BY <2>1, <2>2
<1> QED
  BY <1>4, <1>5 DEF ListSound, Distinct


-----------------------------------------------------------------------------
(* What never goes back *)

LEMMA InitSound == Init => IInv
<1> SUFFICES ASSUME Init PROVE IInv
  OBVIOUS
<1>1. NoPage.key = NoConv /\ NoPage.items = {}
  BY DEF NoPage
<1>2. TypeOK
  <2>1. row \in [Msgs -> Stored] /\ stage \in [Msgs -> Stages]
    BY DEF Init, Stored, Stages
  <2>2. cache \in [Convs -> SUBSET Item] /\ up \in Seq(UpEvent) /\ down \in Seq(DownEvent)
    BY DEF Init
  <2>3. /\ page.key \in Convs \cup {NoConv} /\ page.items \subseteq Item
        /\ encrypting \cup pending \cup sending \cup accepted \cup replying \subseteq Mine
        /\ markedDelivered \cup markedSeen \subseteq Theirs
    BY <1>1 DEF Init
  <2> QED
    BY <2>1, <2>2, <2>3 DEF Init, TypeOK
<1>3. ListSound(bubbles)
  BY DEF Init, ListSound, Distinct
<1>4. PagesSound
  BY <1>1 DEF Init, PagesSound, PageSound
<1>5. DownSound /\ UpSound
  BY DEF Init, DownSound, UpSound
<1>6. ServerSound /\ ShownSound /\ SeenOnlyWhenShown
  BY DEF Init, ServerSound, ShownSound, SeenOnlyWhenShown, Msgs, Reached
<1> QED
  BY <1>2, <1>3, <1>4, <1>5, <1>6 DEF IInv

\* An update of the status changes stored messages only, to what it says.
LEMMA StoreMoves ==
  ASSUME row \in [Msgs -> Stored], NEW S, NEW st \in Reached, Store(S, st)
  PROVE  /\ row' \in [Msgs -> Stored]
         /\ wasSeen \subseteq wasSeen' /\ wasSeen' \subseteq wasSeen \cup S
         /\ \A m \in Msgs : /\ row'[m] = "NONE" <=> row[m] = "NONE"
                            /\ row'[m] = row[m] \/ row'[m] \in Reached
                            /\ row'[m] = "SEEN" => row[m] = "SEEN" \/ (m \in S /\ st = "SEEN")
                            /\ row'[m] = "SEEN" => row[m] = "SEEN" \/ m \in wasSeen'
                            /\ m \in S /\ row[m] # "NONE" => row'[m] = st
                            /\ m \in S /\ row[m] # "NONE" /\ st = "SEEN" => m \in wasSeen'
<1> DEFINE there == {m \in S : row[m] # "NONE"}
<1>1. st \in Stored /\ st # "NONE"
  BY DEF Stored, Reached
<1>2. \A m \in Msgs : row'[m] = IF m \in there THEN st ELSE row[m]
  BY DEF Store
<1>3. row' \in [Msgs -> Stored]
  BY <1>1 DEF Store
<1>4. wasSeen' = IF st = "SEEN" THEN wasSeen \cup there ELSE wasSeen
  BY DEF Store
<1> QED
  BY <1>1, <1>2, <1>3, <1>4

\* What a step leaves of the stored statuses: delivered is not undone, nor that a
\* message has been seen, nor that it was accepted.
Onward ==
  /\ row' \in [Msgs -> Stored] /\ wasSeen' \subseteq Msgs
  /\ accepted \subseteq accepted' /\ wasSeen \subseteq wasSeen'
  /\ \A m \in Msgs : row[m] \in Reached => row'[m] \in Reached

LEMMA Grows == ASSUME TypeOK, [Next]_vars PROVE Onward
<1>1. row \in [Msgs -> Stored] /\ wasSeen \subseteq Msgs /\ Mine \subseteq Msgs
  BY DEF TypeOK, Msgs
<1>2. CASE UNCHANGED <<row, wasSeen>> /\ accepted \subseteq accepted'
  BY <1>1, <1>2 DEF Onward
<1>3. ASSUME NEW S \in SUBSET Msgs, NEW st \in Reached, Store(S, st), UNCHANGED accepted
      PROVE  Onward
  BY <1>1, <1>3, StoreMoves DEF Onward
<1>4. CASE HandleUp
  <2> DEFINE e == Head(up)
  <2>1. e \in UpEvent
    BY <1>4 DEF HandleUp, TypeOK
  <2>2. e.msgs \in SUBSET Msgs
    BY <2>1 DEF UpEvent, Msgs
  <2>3. \/ UNCHANGED <<row, wasSeen>> /\ accepted \subseteq accepted'
        \/ Store(e.msgs, "SEEN") /\ UNCHANGED accepted
    BY <1>4 DEF HandleUp, rowVars
  <2> HIDE DEF e
  <2> QED
    BY <1>2, <1>3, <2>2, <2>3 DEF Reached
<1>5. ASSUME NEW m \in Msgs, Save(m) PROVE Onward
  BY <1>1, <1>5 DEF Save, Onward, Stored, Reached
<1>6. ASSUME NEW m \in Msgs, StoreDelivered(m) PROVE Onward
  BY <1>3, <1>6 DEF StoreDelivered, Reached
<1>7. ASSUME NEW m \in Msgs, WriteDelivered(m) PROVE Onward
  <2>1. Store({m}, "DELIVERED") \/ UNCHANGED <<row, wasSeen>>
    BY <1>7 DEF WriteDelivered
  <2> QED
    BY <1>2, <1>3, <1>7, <2>1 DEF WriteDelivered, Reached
<1>8. ASSUME NEW m \in Mine, PeerSeen(m) PROVE Onward
  BY <1>1, <1>3, <1>8 DEF PeerSeen, Reached
<1>9. CASE Window
  BY <1>2, <1>9 DEF Window, DecryptKey, DecryptPage, DecryptNew, Send, MarkDelivered, MarkSeen,
                    serverVars, rowVars
<1>10. CASE Receive
  BY <1>2, <1>10 DEF Receive, ReceiveQueued, ReceiveDelivery, ReceiveNew, serverVars, rowVars
<1>11. CASE Queries \/ Faults
  BY <1>2, <1>11 DEF Queries, Faults, Fetch, FetchFails, Fetched, Lose, Refuse, DecryptKeyFails,
                     serverVars, rowVars
<1>12. CASE User \/ Reconnect \/ \E m \in Mine : Timeout(m)
  BY <1>2, <1>12 DEF User, Open, RetryKey, Refetch, Submit, Reconnect, Timeout, serverVars, rowVars
<1>13. CASE \/ \E m \in Mine : Reply(m) \/ Acknowledge(m) \/ PeerDelivered(m)
            \/ \E m \in Msgs : Publish(m) \/ ReadStatus(m)
            \/ UNCHANGED vars
  BY <1>2, <1>13 DEF Reply, Acknowledge, PeerDelivered, Publish, ReadStatus, vars, serverVars, rowVars
<1> QED
  BY <1>4, <1>5, <1>6, <1>7, <1>8, <1>9, <1>10, <1>11, <1>12, <1>13 DEF Next, Server, Peers, Msgs

\* What is borne out once remains so.
LEMMA HoldsStays ==
  ASSUME TypeOK, [Next]_vars, NEW m \in Msgs, NEW st \in Status, Holds(m, st)
  PROVE  Holds(m, st)'
BY Grows DEF Holds, Onward

\* So a list that was sound before a step is sound after it, and so is a page.
LEMMA ListStays ==
  ASSUME TypeOK, [Next]_vars, ListSound(bubbles')
  PROVE  ListSound(bubbles)'
<1>1. \A b \in bubbles' : b \in Bubble /\ Truthful(b)
  BY DEF ListSound
<1>2. ASSUME NEW b \in bubbles' PROVE Truthful(b)'
  BY <1>1, HoldsStays DEF Truthful, Bubble
<1> QED
  BY <1>2 DEF ListSound, Distinct

LEMMA PageStays ==
  ASSUME TypeOK, [Next]_vars, NEW items \in SUBSET Item, PageSound(items)
  PROVE  PageSound(items)'
<1>1. ASSUME NEW i \in items PROVE Truthful(i)'
  BY <1>1, HoldsStays DEF PageSound, Truthful, Item
<1> QED
  BY <1>1 DEF PageSound


-----------------------------------------------------------------------------
(* The list *)

\* Whatever the reducer is given, the list stays sound, and what is displayed in the
\* open conversation is remembered.
LEMMA ListStep ==
  ASSUME TypeOK, ListSound(bubbles), PagesSound, DownSound, [Next]_vars
  PROVE  ListSound(bubbles)'
<1> SUFFICES ListSound(bubbles')
  BY ListStays
<1>1. ASSUME NEW c, Open(c) PROVE ListSound(bubbles')
  BY <1>1 DEF Open, ListSound, Distinct
<1>2. CASE DecryptPage
  <2>1. page.items \in SUBSET Item /\ PageSound(page.items)
    BY DEF TypeOK, PagesSound
  <2>2. bubbles' = bubbles \/ bubbles' \in Hydrates(bubbles, page.items)
    BY <1>2 DEF DecryptPage, Show
  <2> QED
    BY <2>1, <2>2, HydratesKeep
<1>3. ASSUME NEW m \in Mine, Send(m) PROVE ListSound(bubbles')
  <2> DEFINE b == [msg |-> m, id |-> "client", client |-> TRUE,
                   status |-> IF connected THEN "PENDING" ELSE "FAILED"]
  <2>1. bubbles' \in Upserts(bubbles, b)
    BY <1>3 DEF Send, Show
  <2>2. /\ b \in Bubble /\ b.msg = m /\ b.client /\ b.id = "client"
        /\ b.status \in {"PENDING", "FAILED"}
    BY Ranks DEF Bubble, Msgs
  <2>3. Truthful(b)
    BY <2>2 DEF Truthful, Holds
  <2> HIDE DEF b
  <2> QED
    BY <2>1, <2>2, <2>3, UpsertsKeep
<1>4. ASSUME NEW m \in Mine, Timeout(m) PROVE ListSound(bubbles')
  <2>1. bubbles' \in Patches(bubbles, m, {"client"}, "FAILED")
    BY <1>4 DEF Timeout, Show
  <2>2. "FAILED" \in Status /\ Holds(m, "FAILED")
    BY Ranks DEF Holds
  <2> QED
    BY <2>1, <2>2, PatchesKeep
<1>5. CASE ReceiveQueued
  <2> DEFINE m == Head(down).msg
  <2>1. bubbles' = bubbles \/ (m \in pending /\ bubbles' \in Patches(bubbles, m, {"client"}, "QUEUED"))
    BY <1>5 DEF ReceiveQueued, Show, listVars
  <2>2. "QUEUED" \in Status /\ Holds(m, "QUEUED")
    <3>1. down # <<>> /\ down \in Seq(DownEvent) /\ Head(down).kind = "queued"
      BY <1>5 DEF ReceiveQueued, Receives, TypeOK
    <3>2. 1 \in DOMAIN down /\ Head(down) = down[1]
      BY <3>1
    <3> QED
      BY <3>1, <3>2, Ranks DEF DownSound, EventTrue, Holds
  <2> HIDE DEF m
  <2> QED
    BY <2>1, <2>2, PatchesKeep
<1>6. CASE ReceiveDelivery
  <2> DEFINE e == Head(down)
  <2>1. bubbles' = bubbles \/ bubbles' \in Patches(bubbles, e.msg, e.by, e.status)
    BY <1>6 DEF ReceiveDelivery, Show, listVars
  <2>2. down # <<>> /\ down \in Seq(DownEvent) /\ e.kind = "delivery"
    BY <1>6 DEF ReceiveDelivery, Receives, TypeOK
  <2>3. 1 \in DOMAIN down /\ e = down[1] /\ e \in DownEvent
    BY <2>2
  <2> HIDE DEF e
  <2>4. /\ e.msg \in Mine /\ e.status \in {"DELIVERED", "SEEN"}
        /\ e.by \in {{"row"}, {"client", "row"}}
    BY <2>2, <2>3 DEF DownEvent
  <2>5. Holds(e.msg, e.status)
    BY <2>2, <2>3 DEF DownSound, EventTrue
  <2> QED
    BY <2>1, <2>4, <2>5, PatchesKeep, Ranks
<1>7. ASSUME NEW m \in Msgs, DecryptNew(m) PROVE ListSound(bubbles')
  <2> DEFINE b == FromServer(m, "DELIVERED")
  <2>1. bubbles' \in Upserts(bubbles, b) /\ m \in Theirs
    BY <1>7 DEF DecryptNew, Show, TypeOK
  <2>2. b \in Bubble /\ b.msg = m /\ ~b.client /\ b.id = "row"
    BY Ranks DEF FromServer, Bubble, Msgs
  <2>3. Truthful(b)
    BY <2>1, <2>2, OwnersAssumption DEF Truthful
  <2> HIDE DEF b
  <2> QED
    BY <2>1, <2>2, <2>3, UpsertsKeep
<1>8. CASE MarkDelivered
  <2> DEFINE ids == Undelivered \ markedDelivered
             marked(b) == IF b.msg \in ids
                          THEN [b EXCEPT !.status = ResolveStatus(@, "DELIVERED")] ELSE b
  <2>1. bubbles' = {marked(b) : b \in bubbles}
    BY <1>8 DEF MarkDelivered, Show
  <2>2. ids \subseteq Theirs
    BY DEF Undelivered, Others
  <2>3. ASSUME NEW b \in bubbles
        PROVE  /\ marked(b) \in Bubble
               /\ marked(b).msg = b.msg /\ marked(b).client = b.client /\ marked(b).id = b.id
               /\ marked(b) = b \/ b.msg \in Theirs
    <3> DEFINE st == ResolveStatus(b.status, "DELIVERED")
    <3>1. b \in Bubble
      BY DEF ListSound
    <3>2. st \in Status
      BY <3>1, Resolved, Ranks DEF Bubble
    <3>3. marked(b) = b \/ (b.msg \in ids /\ marked(b) = [b EXCEPT !.status = st])
      OBVIOUS
    <3> HIDE DEF st, marked, ids
    <3> QED
      BY <2>2, <3>1, <3>2, <3>3 DEF Bubble
  <2> HIDE DEF marked
  <2>4. ASSUME NEW b \in bubbles PROVE Truthful(marked(b))
    BY <2>3, OwnersAssumption DEF ListSound, Truthful
  <2>5. Distinct(bubbles')
    BY <2>1, <2>3 DEF ListSound, Distinct
  <2> QED
    BY <2>1, <2>3, <2>4, <2>5 DEF ListSound
<1>9. ASSUME UNCHANGED bubbles PROVE ListSound(bubbles')
  BY <1>9
<1>10. CASE \/ DecryptKey \/ RetryKey \/ MarkSeen \/ ReceiveNew \/ Queries \/ Refetch
            \/ \E m \in Mine : Submit(m)
  BY <1>9, <1>10 DEF DecryptKey, RetryKey, MarkSeen, ReceiveNew, Queries, Fetch, Fetched, Refetch,
                     Submit, listVars
<1>11. CASE Server
  BY <1>9, <1>11 DEF Server, HandleUp, Reply, Save, Publish, ReadStatus, StoreDelivered, WriteDelivered,
                     Acknowledge, listVars
<1>12. CASE Peers \/ Faults \/ Reconnect \/ UNCHANGED vars
  BY <1>9, <1>12 DEF Peers, Save, PeerDelivered, PeerSeen, Faults, Lose, Refuse, DecryptKeyFails,
                     FetchFails, Fetched, Reconnect, listVars, vars
<1> QED
  BY <1>1, <1>2, <1>3, <1>4, <1>5, <1>6, <1>7, <1>8, <1>10, <1>11, <1>12
  DEF Next, Window, Receive, User

\* The list changes only by Show, or is emptied.
LEMMA ListMoves ==
  ASSUME [Next]_vars
  PROVE  \/ bubbles' = {} /\ shown' = shown
         \/ UNCHANGED <<listVars, selected>>
         \/ UNCHANGED selected /\ \E lists : Show(lists)
<1>1. CASE \E c \in Convs : Open(c)
  BY <1>1 DEF Open
<1>2. CASE DecryptPage \/ (\E m \in Msgs : DecryptNew(m)) \/ (\E m \in Mine : Send(m) \/ Timeout(m))
  BY <1>2 DEF DecryptPage, DecryptNew, Send, Timeout, keyVars
<1>3. CASE MarkDelivered \/ Receive
  BY <1>3 DEF MarkDelivered, Receive, ReceiveQueued, ReceiveDelivery, ReceiveNew, keyVars
<1>4. CASE DecryptKey \/ RetryKey \/ MarkSeen \/ Queries \/ Refetch \/ (\E m \in Mine : Submit(m))
  BY <1>4 DEF DecryptKey, RetryKey, MarkSeen, Queries, Fetch, Fetched, Refetch, Submit, keyVars
<1>5. CASE Server
  BY <1>5 DEF Server, HandleUp, Reply, Save, Publish, ReadStatus, StoreDelivered, WriteDelivered,
              Acknowledge, keyVars
<1>6. CASE Peers \/ Faults \/ Reconnect \/ UNCHANGED vars
  BY <1>6 DEF Peers, Save, PeerDelivered, PeerSeen, Faults, Lose, Refuse, DecryptKeyFails, FetchFails,
              Fetched, Reconnect, keyVars, vars
<1> QED
  BY <1>1, <1>2, <1>3, <1>4, <1>5, <1>6 DEF Next, Window, User

LEMMA ShownStep ==
  ASSUME TypeOK, ShownSound, [Next]_vars
  PROVE  ShownSound' /\ shown \subseteq shown' /\ shown' \subseteq Theirs
<1>1. CASE bubbles' = {} /\ shown' = shown
  BY <1>1 DEF ShownSound, TypeOK
<1>2. CASE UNCHANGED <<listVars, selected>>
  BY <1>2 DEF ShownSound, TypeOK, listVars
<1>3. ASSUME NEW lists, UNCHANGED selected, Show(lists)
      PROVE  ShownSound' /\ shown \subseteq shown' /\ shown' \subseteq Theirs
  BY <1>3 DEF ShownSound, TypeOK, Show
<1> QED
  BY <1>1, <1>2, <1>3, ListMoves


-----------------------------------------------------------------------------
(* Receipts *)

\* A receipt names only what has been displayed.
LEMMA UpStep ==
  ASSUME TypeOK, ShownSound, UpSound, [Next]_vars
  PROVE  UpSound'
<1>1. shown \subseteq shown' /\ up \in Seq(UpEvent)
  BY ShownStep DEF TypeOK
<1>2. ASSUME UNCHANGED up PROVE UpSound'
  BY <1>1, <1>2 DEF UpSound
<1>3. ASSUME NEW e, up' = Append(up, e), e.kind = "seen" => e.msgs \subseteq shown
      PROVE  UpSound'
  BY <1>1, <1>3 DEF UpSound
<1>4. ASSUME up # <<>>, up' = Tail(up) PROVE UpSound'
  BY <1>1, <1>4 DEF UpSound
<1>5. CASE \E m \in Mine : Send(m)
  <2>1. PICK m \in Mine : Send(m)
    BY <1>5
  <2>2. UNCHANGED up \/ up' = Append(up, [kind |-> "send", msgs |-> {m}])
    BY <2>1 DEF Send
  <2> QED
    BY <1>2, <1>3, <2>2
<1>6. CASE MarkDelivered
  <2>1. up' = Append(up, [kind |-> "delivered", msgs |-> Undelivered \ markedDelivered])
    BY <1>6 DEF MarkDelivered
  <2> QED
    BY <1>3, <2>1
<1>7. CASE MarkSeen
  <2>1. up' = Append(up, [kind |-> "seen", msgs |-> Unseen \ markedSeen])
    BY <1>7 DEF MarkSeen
  <2>2. Unseen \subseteq shown
    BY DEF Unseen, Others, ShownSound
  <2> QED
    BY <1>3, <2>1, <2>2
<1>8. CASE HandleUp \/ Refuse
  BY <1>4, <1>8 DEF HandleUp, Refuse
<1>9. CASE Lose
  BY <1>9 DEF Lose, UpSound
<1>10. CASE DecryptKey \/ DecryptKeyFails \/ DecryptPage \/ \E m \in Msgs : DecryptNew(m)
  BY <1>2, <1>10 DEF DecryptKey, DecryptKeyFails, DecryptPage, DecryptNew, netVars
<1>11. CASE Receive
  BY <1>2, <1>11 DEF Receive, ReceiveQueued, ReceiveDelivery, ReceiveNew, Take
<1>12. CASE Queries \/ User \/ Reconnect \/ \E m \in Mine : Timeout(m)
  BY <1>2, <1>12 DEF Queries, Fetch, Fetched, User, Open, RetryKey, Refetch, Submit, Reconnect, Timeout,
                     netVars
<1>13. CASE \/ \E m \in Mine : Reply(m) \/ Acknowledge(m) \/ PeerDelivered(m) \/ PeerSeen(m)
            \/ \E m \in Msgs : Save(m) \/ Publish(m) \/ ReadStatus(m) \/ StoreDelivered(m)
                               \/ WriteDelivered(m)
            \/ \E c \in Convs : FetchFails(c)
            \/ UNCHANGED vars
  BY <1>2, <1>13 DEF Reply, Save, Publish, ReadStatus, StoreDelivered, WriteDelivered, Acknowledge,
                     PeerDelivered, PeerSeen, FetchFails, Fetched, netVars, vars
<1> QED
  BY <1>5, <1>6, <1>7, <1>8, <1>9, <1>10, <1>11, <1>12, <1>13
  DEF Next, Window, Server, Peers, Faults, Msgs

\* Only a seen receipt of the window makes a message of another member seen.
LEMMA SeenStep ==
  ASSUME TypeOK, ShownSound, UpSound, SeenOnlyWhenShown, [Next]_vars
  PROVE  SeenOnlyWhenShown'
<1>1. shown \subseteq shown' /\ row \in [Msgs -> Stored] /\ Theirs \subseteq Msgs
  BY ShownStep DEF TypeOK, Msgs
<1>2. ASSUME \A m \in Theirs : row'[m] = "SEEN" => row[m] = "SEEN" \/ m \in shown
      PROVE  SeenOnlyWhenShown'
  BY <1>1, <1>2 DEF SeenOnlyWhenShown
<1>3. CASE HandleUp
  <2> DEFINE e == Head(up)
  <2>1. 1 \in DOMAIN up /\ e = up[1]
    BY <1>3 DEF HandleUp, TypeOK
  <2>2. e.kind = "seen" => e.msgs \subseteq shown
    BY <2>1 DEF UpSound
  <2>3. UNCHANGED row \/ (e.kind = "seen" /\ Store(e.msgs, "SEEN"))
    BY <1>3 DEF HandleUp, rowVars
  <2> HIDE DEF e
  <2> QED
    BY <1>1, <1>2, <2>2, <2>3, StoreMoves DEF Reached
<1>4. ASSUME NEW m \in Msgs, Save(m) PROVE SeenOnlyWhenShown'
  BY <1>1, <1>2, <1>4 DEF Save
<1>5. ASSUME NEW m \in Msgs, Store({m}, "DELIVERED") \/ UNCHANGED row PROVE SeenOnlyWhenShown'
  BY <1>1, <1>2, <1>5, StoreMoves DEF Reached
<1>6. ASSUME NEW m \in Mine, PeerSeen(m) PROVE SeenOnlyWhenShown'
  BY <1>1, <1>2, <1>6, StoreMoves, OwnersAssumption DEF PeerSeen, Reached
<1>7. ASSUME UNCHANGED row PROVE SeenOnlyWhenShown'
  BY <1>2, <1>7
<1>8. CASE Window
  BY <1>7, <1>8 DEF Window, DecryptKey, DecryptPage, DecryptNew, Send, MarkDelivered, MarkSeen,
                    serverVars, rowVars
<1>9. CASE Receive \/ Reconnect \/ \E m \in Mine : Timeout(m)
  BY <1>7, <1>9 DEF Receive, ReceiveQueued, ReceiveDelivery, ReceiveNew, Reconnect, Timeout, serverVars,
                    rowVars
<1>10. CASE Queries \/ User \/ Faults
  BY <1>7, <1>10 DEF Queries, Fetch, FetchFails, Fetched, User, Open, RetryKey, Refetch, Submit, Faults,
                     Lose, Refuse, DecryptKeyFails, serverVars, rowVars
<1>11. CASE \E m \in Msgs : StoreDelivered(m) \/ WriteDelivered(m)
  BY <1>5, <1>11 DEF StoreDelivered, WriteDelivered
<1>12. CASE \/ \E m \in Mine : Reply(m) \/ Acknowledge(m) \/ PeerDelivered(m)
            \/ \E m \in Msgs : Publish(m) \/ ReadStatus(m)
            \/ UNCHANGED vars
  BY <1>7, <1>12 DEF Reply, Acknowledge, PeerDelivered, Publish, ReadStatus, vars, serverVars, rowVars
<1> QED
  BY <1>3, <1>4, <1>6, <1>8, <1>9, <1>10, <1>11, <1>12 DEF Next, Server, Peers, Msgs

-----------------------------------------------------------------------------
(* The server and its events *)

LEMMA ServerStep ==
  ASSUME TypeOK, ServerSound, [Next]_vars
  PROVE  ServerSound'
<1> USE DEF ServerSound
<1>1. ASSUME UNCHANGED serverVars PROVE ServerSound'
  BY <1>1 DEF serverVars, rowVars
<1>2. row \in [Msgs -> Stored] /\ Mine \subseteq Msgs /\ stage \in [Msgs -> Stages] /\ writing \subseteq Msgs
  BY DEF TypeOK, Msgs
<1>3. ASSUME NEW S, NEW st \in Reached, Store(S, st), UNCHANGED <<accepted, replying>>,
             writing' \subseteq writing,
             \A n \in Msgs : stage'[n] = stage[n] \/ (stage'[n] = "stored" /\ n \in S /\ row[n] # "NONE")
      PROVE  ServerSound'
  <2>1. \A n \in Msgs : /\ row'[n] = "NONE" <=> row[n] = "NONE"
                        /\ row'[n] = row[n] \/ row'[n] \in Reached
                        /\ row'[n] = "SEEN" => row[n] = "SEEN" \/ n \in wasSeen'
                        /\ n \in S /\ row[n] # "NONE" => row'[n] = st
    BY <1>2, <1>3, StoreMoves
  <2>2. wasSeen \subseteq wasSeen'
    BY <1>2, <1>3, StoreMoves
  <2> QED
    BY <1>2, <1>3, <2>1, <2>2
<1>4. CASE HandleUp
  <2>1. CASE Store(Head(up).msgs, "SEEN") /\ UNCHANGED <<accepted, replying, writing, stage>>
    BY <1>3, <2>1 DEF Reached
  <2>2. CASE /\ UNCHANGED <<row, wasSeen, stage>> /\ replying' \subseteq accepted'
             /\ accepted \subseteq accepted' /\ \A m \in writing' : row[m] # "NONE"
    BY <1>2, <2>2
  <2>3. stage' = stage
    BY <1>4 DEF HandleUp
  <2> QED
    BY <1>4, <2>1, <2>2, <2>3 DEF HandleUp, rowVars
<1>5. ASSUME NEW m \in Mine, Reply(m) PROVE ServerSound'
  BY <1>5 DEF Reply, rowVars
<1>6. ASSUME NEW m \in Msgs, Save(m) PROVE ServerSound'
  BY <1>2, <1>6, OwnersAssumption DEF Save, Reached
<1>7. ASSUME NEW m \in Msgs, Publish(m) PROVE ServerSound'
  BY <1>2, <1>7 DEF Publish, rowVars
<1>8. ASSUME NEW m \in Msgs, ReadStatus(m) PROVE ServerSound'
  <2>1. /\ stage[m] = "out" /\ UNCHANGED <<accepted, replying, row, writing, wasSeen>>
        /\ stage' = [stage EXCEPT ![m] = stage'[m]]
        /\ stage'[m] = "stored" => row[m] = "DELIVERED"
    BY <1>2, <1>8 DEF ReadStatus, rowVars
  <2> QED
    BY <1>2, <2>1 DEF Reached
<1>9. ASSUME NEW m \in Msgs, StoreDelivered(m) PROVE ServerSound'
  BY <1>2, <1>3, <1>9 DEF StoreDelivered, Reached
<1>10. ASSUME NEW m \in Msgs, WriteDelivered(m) PROVE ServerSound'
  <2>1. UNCHANGED <<accepted, replying, stage>> /\ writing' \subseteq writing
    BY <1>10 DEF WriteDelivered
  <2>2. CASE Store({m}, "DELIVERED")
    BY <1>3, <2>1, <2>2 DEF Reached
  <2>3. CASE UNCHANGED <<row, wasSeen>>
    BY <1>2, <2>1, <2>3
  <2> QED
    BY <1>10, <2>2, <2>3 DEF WriteDelivered
<1>11. ASSUME NEW m \in Mine, Acknowledge(m) PROVE ServerSound'
  BY <1>2, <1>11 DEF Acknowledge, rowVars
<1>12. ASSUME NEW m \in Mine, PeerDelivered(m) PROVE ServerSound'
  BY <1>2, <1>12 DEF PeerDelivered
<1>13. ASSUME NEW m \in Mine, PeerSeen(m) PROVE ServerSound'
  BY <1>3, <1>13 DEF PeerSeen, Reached
<1>14. CASE Lose
  BY <1>14 DEF Lose, rowVars
<1>15. ASSUME NEW m \in Mine, Submit(m) PROVE ServerSound'
  BY <1>2, <1>15 DEF Submit, rowVars
<1>16. CASE Window
  BY <1>1, <1>16 DEF Window, DecryptKey, DecryptPage, DecryptNew, Send, MarkDelivered, MarkSeen
<1>17. CASE Receive \/ Reconnect \/ Refuse \/ \E m \in Mine : Timeout(m)
  BY <1>1, <1>17 DEF Receive, ReceiveQueued, ReceiveDelivery, ReceiveNew, Reconnect, Refuse, Timeout
<1>18. CASE \/ Queries \/ Refetch \/ RetryKey \/ DecryptKeyFails \/ UNCHANGED vars
            \/ \E c \in Convs : Open(c) \/ FetchFails(c)
  BY <1>1, <1>18 DEF Queries, Fetch, FetchFails, Fetched, Open, Refetch, RetryKey, DecryptKeyFails, vars
<1> QED
  BY <1>4, <1>5, <1>6, <1>7, <1>8, <1>9, <1>10, <1>11, <1>12, <1>13, <1>14, <1>15, <1>16, <1>17, <1>18
  DEF Next, User, Faults, Server, Peers, Msgs

\* What Emit adds.
LEMMA Emitted ==
  ASSUME down \in Seq(DownEvent), NEW e \in DownEvent, NEW events \in {<<>>, <<e>>}, Emit(events)
  PROVE  /\ down' \in Seq(DownEvent)
         /\ \A n \in DOMAIN down' : (n \in DOMAIN down /\ down'[n] = down[n]) \/ down'[n] = e
<1>1. CASE events = <<>>
  BY <1>1 DEF Emit
<1>2. CASE events = <<e>>
  BY <1>2 DEF Emit
<1> QED
  BY <1>1, <1>2


\* What an event says when it is emitted is so, and remains so.
LEMMA EventStays ==
  ASSUME TypeOK, [Next]_vars, NEW e \in DownEvent, EventTrue(e)
  PROVE  EventTrue(e)'
<1>1. e.kind = "delivery" => e.msg \in Msgs /\ e.status \in Status
  BY Ranks DEF DownEvent, Msgs
<1> QED
  BY <1>1, HoldsStays, Grows DEF EventTrue, Onward

LEMMA DownStep ==
  ASSUME TypeOK, ServerSound, DownSound, [Next]_vars
  PROVE  DownSound' /\ down' \in Seq(DownEvent)
<1>1. /\ down \in Seq(DownEvent) /\ row \in [Msgs -> Stored] /\ replying \subseteq Mine
      /\ Mine \subseteq Msgs
  BY DEF TypeOK, Msgs
<1>2. ASSUME NEW n \in DOMAIN down, NEW e, e = down[n] PROVE e \in DownEvent /\ EventTrue(e)'
  <2>1. e \in DownEvent /\ EventTrue(e)
    BY <1>1, <1>2 DEF DownSound
  <2> QED
    BY <2>1, EventStays
<1>3. ASSUME UNCHANGED down PROVE DownSound' /\ down' \in Seq(DownEvent)
  BY <1>1, <1>2, <1>3 DEF DownSound
<1>4. ASSUME NEW e \in DownEvent, EventTrue(e)', NEW events \in {<<>>, <<e>>}, Emit(events)
      PROVE  DownSound' /\ down' \in Seq(DownEvent)
  BY <1>1, <1>2, <1>4, Emitted DEF DownSound
<1>5. ASSUME down # <<>>, down' = Tail(down) PROVE DownSound' /\ down' \in Seq(DownEvent)
  <2>1. down' \in Seq(DownEvent) /\ \A n \in DOMAIN down' : n + 1 \in DOMAIN down /\ down'[n] = down[n + 1]
    BY <1>1, <1>5
  <2> QED
    BY <1>2, <2>1 DEF DownSound
<1>6. ASSUME NEW m \in Mine, Reply(m) PROVE DownSound' /\ down' \in Seq(DownEvent)
  <2> DEFINE e == [kind |-> "queued", msg |-> m]
  <2>1. e \in DownEvent /\ e.kind = "queued" /\ e.msg = m
    BY DEF DownEvent
  <2>2. m \in accepted' /\ Emit(<<e>>)
    BY <1>6 DEF Reply, ServerSound
  <2>3. EventTrue(e)'
    BY <2>1, <2>2 DEF EventTrue
  <2> HIDE DEF e
  <2> QED
    BY <1>4, <2>1, <2>2, <2>3
<1>7. ASSUME NEW m \in Msgs, Publish(m) PROVE DownSound' /\ down' \in Seq(DownEvent)
  <2> DEFINE e == [kind |-> "new", msg |-> m]
  <2>1. CASE m \in Theirs
    <3>1. e \in DownEvent /\ e.kind = "new"
      BY <2>1 DEF DownEvent
    <3>2. Emit(<<e>>)
      BY <1>7, <2>1 DEF Publish
    <3>3. EventTrue(e)'
      BY <3>1 DEF EventTrue
    <3> HIDE DEF e
    <3> QED
      BY <1>4, <3>1, <3>2, <3>3
  <2>2. CASE m \notin Theirs
    <3>1. Emit(<<>>)
      BY <1>7, <2>2 DEF Publish
    <3> QED
      BY <1>1, <1>3, <3>1 DEF Emit
  <2> QED
    BY <2>1, <2>2
<1>8. ASSUME NEW m \in Mine, Acknowledge(m) PROVE DownSound' /\ down' \in Seq(DownEvent)
  <2> DEFINE e == [kind |-> "delivery", msg |-> m, status |-> "DELIVERED", by |-> {"client", "row"}]
  <2>1. e \in DownEvent /\ e.kind = "delivery" /\ e.msg = m /\ e.status = "DELIVERED"
    BY DEF DownEvent
  <2>2. row'[m] \in Reached
    BY <1>1, <1>8 DEF Acknowledge, ServerSound, rowVars
  <2>3. EventTrue(e)'
    BY <2>1, <2>2 DEF EventTrue, Holds
  <2>4. Emit(<<e>>) \/ UNCHANGED down
    BY <1>8 DEF Acknowledge
  <2> HIDE DEF e
  <2> QED
    BY <1>3, <1>4, <2>1, <2>3, <2>4
<1>9. ASSUME NEW m \in Mine, NEW st \in Reached, Holds(m, st)', Emit(<<Receipt(m, st)>>)
      PROVE  DownSound' /\ down' \in Seq(DownEvent)
  <2> DEFINE e == Receipt(m, st)
  <2>1. e \in DownEvent /\ e.kind = "delivery" /\ e.msg = m /\ e.status = st
    BY DEF DownEvent, Receipt, Reached
  <2>2. EventTrue(e)'
    BY <1>9, <2>1 DEF EventTrue
  <2> HIDE DEF e
  <2> QED
    BY <1>4, <1>9, <2>1, <2>2 DEF e
<1>10. ASSUME NEW m \in Mine, PeerSeen(m) PROVE DownSound' /\ down' \in Seq(DownEvent)
  <2>1. m \in wasSeen'
    BY <1>1, <1>10, StoreMoves DEF PeerSeen, Reached
  <2>2. Holds(m, "SEEN")'
    BY <2>1 DEF Holds
  <2> QED
    BY <1>9, <1>10, <2>2 DEF PeerSeen, Reached
<1>11. ASSUME NEW m \in Msgs, WriteDelivered(m) PROVE DownSound' /\ down' \in Seq(DownEvent)
  <2>1. CASE m \in Mine
    <3>1. row[m] # "NONE" /\ m \in Msgs
      BY <1>11 DEF WriteDelivered, ServerSound
    <3>2. row'[m] \in Reached
      <4>1. CASE Store({m}, "DELIVERED")
        BY <1>1, <3>1, <4>1, StoreMoves DEF Reached
      <4>2. CASE row[m] # "QUEUED" /\ UNCHANGED row
        BY <1>1, <3>1, <4>2 DEF Reached, Stored
      <4> QED
        BY <1>11, <4>1, <4>2 DEF WriteDelivered
    <3>3. Holds(m, "DELIVERED")'
      BY <3>2 DEF Holds
    <3>4. Emit(<<Receipt(m, "DELIVERED")>>)
      BY <1>11, <2>1 DEF WriteDelivered
    <3> QED
      BY <1>9, <2>1, <3>3, <3>4 DEF Reached
  <2>2. CASE m \notin Mine
    <3>1. Emit(<<>>)
      BY <1>11, <2>2 DEF WriteDelivered
    <3> QED
      BY <1>1, <1>3, <3>1 DEF Emit
  <2> QED
    BY <2>1, <2>2
<1>12. CASE Receive
  BY <1>5, <1>12 DEF Receive, ReceiveQueued, ReceiveDelivery, ReceiveNew, Receives, Take
<1>13. CASE Lose
  BY <1>13 DEF Lose, DownSound
<1>14. CASE Window
  BY <1>3, <1>14 DEF Window, DecryptKey, DecryptPage, DecryptNew, Send, MarkDelivered, MarkSeen, netVars
<1>15. CASE \/ Queries \/ User \/ Reconnect \/ Refuse
            \/ DecryptKeyFails \/ \E c \in Convs : FetchFails(c)
            \/ \E m \in Mine : Timeout(m)
  BY <1>3, <1>15 DEF Queries, Fetch, FetchFails, Fetched, User, Open, RetryKey, Refetch, Submit,
                     Reconnect, Refuse, DecryptKeyFails, Timeout, netVars
<1>16. CASE \/ HandleUp \/ \E m \in Mine : PeerDelivered(m)
            \/ \E m \in Msgs : Save(m) \/ ReadStatus(m) \/ StoreDelivered(m)
            \/ UNCHANGED vars
  BY <1>3, <1>16 DEF HandleUp, PeerDelivered, Save, ReadStatus, StoreDelivered, vars, netVars
<1> QED
  BY <1>6, <1>7, <1>8, <1>10, <1>11, <1>12, <1>13, <1>14, <1>15, <1>16
  DEF Next, Server, Peers, Faults, Msgs

-----------------------------------------------------------------------------
(* The pages *)

\* The rows of a conversation, as getMessages answers them, are a sound page.
LEMMA FetchedSound ==
  ASSUME TypeOK, ServerSound, NEW c,
         NEW items, items = {[msg |-> m, status |-> row[m]] :
                              m \in {n \in Msgs : ConvOf[n] = c /\ row[n] # "NONE"}}
  PROVE  items \subseteq Item /\ PageSound(items)
<1>1. ASSUME NEW i \in items
      PROVE  /\ i.msg \in Msgs /\ i.status = row[i.msg] /\ row[i.msg] \in {"QUEUED", "DELIVERED", "SEEN"}
             /\ i = [msg |-> i.msg, status |-> row[i.msg]]
  BY <1>1 DEF TypeOK, Stored
<1>2. ASSUME NEW i \in items PROVE i \in Item
  BY <1>1, Ranks DEF Item
<1>3. ASSUME NEW i \in items PROVE Truthful(i)
  BY <1>1, <1>3 DEF Truthful, Holds, ServerSound, Reached
<1>4. ASSUME NEW i \in items, NEW j \in items, i.msg = j.msg PROVE i = j
  BY <1>1, <1>4
<1> QED
  BY <1>2, <1>3, <1>4 DEF PageSound

\* A decryption starts with pages of the cache, under a key there is.
LEMMA Rehydrated ==
  ASSUME NEW k \in Convs \cup {NoConv}, NEW items \in SUBSET Item, PageSound(items), Rehydrate(k, items),
         hydrating \in BOOLEAN
  PROVE  /\ page'.key \in Convs \cup {NoConv} /\ page'.items \subseteq Item /\ hydrating' \in BOOLEAN
         /\ PageSound(page'.items)
<1>1. page' = NoPage \/ page' = [key |-> k, items |-> items]
  BY DEF Rehydrate, Decryption
<1>2. NoPage.key = NoConv /\ NoPage.items = {}
  BY DEF NoPage
<1>3. PageSound({})
  BY DEF PageSound
<1> QED
  BY <1>1, <1>2, <1>3 DEF Rehydrate

\* The types of what the history hook and its query keep.
PageTypes ==
  /\ key \in Convs \cup {NoConv} /\ selected \in Convs \cup {NoConv} /\ keys \subseteq Convs
  /\ keyless \in BOOLEAN
  /\ loaded \subseteq Convs /\ fetching \subseteq Convs
  /\ cache \in [Convs -> SUBSET Item]
  /\ page.key \in Convs \cup {NoConv} /\ page.items \subseteq Item
  /\ hydrating \in BOOLEAN /\ history \in BOOLEAN

\* Pages stay sound, in the cache and in decryption.
LEMMA PagesStep ==
  ASSUME TypeOK, ServerSound, PagesSound, [Next]_vars
  PROVE  PagesSound' /\ PageTypes'
<1>1. PageTypes
  BY DEF TypeOK, PageTypes
<1>2. ASSUME PageTypes', PageSound(page'.items), \A c \in Convs : PageSound(cache'[c])
      PROVE  PagesSound' /\ PageTypes'
  BY <1>2, PageStays DEF PagesSound, PageTypes
<1>3. ASSUME UNCHANGED <<keyVars, pageVars>> PROVE PagesSound' /\ PageTypes'
  <2>1. UNCHANGED <<selected, key, keys, keyless, loaded, cache, fetching, page, hydrating, history>>
    BY <1>3 DEF keyVars, pageVars
  <2> QED
    BY <1>1, <1>2, <2>1 DEF PagesSound, PageTypes
<1>4. ASSUME NEW c \in Convs, Open(c) PROVE PagesSound' /\ PageTypes'
  <2>1. key' \in Convs \cup {NoConv} /\ cache[c] \in SUBSET Item /\ PageSound(cache[c])
    BY <1>1, <1>4 DEF Open, PageTypes, PagesSound
  <2>2. /\ page'.key \in Convs \cup {NoConv} /\ page'.items \subseteq Item /\ hydrating' \in BOOLEAN
        /\ PageSound(page'.items)
    BY <1>1, <1>4, <2>1, Rehydrated DEF Open, PageTypes
  <2>3. PageTypes'
    BY <1>1, <1>4, <2>1, <2>2 DEF Open, PageTypes
  <2> QED
    BY <1>2, <1>4, <2>2, <2>3 DEF Open, PagesSound
<1>5. CASE DecryptKey
  <2>1. selected \in Convs /\ cache[selected] \in SUBSET Item /\ PageSound(cache[selected])
    BY <1>1, <1>5 DEF DecryptKey, DecryptingKey, PageTypes, PagesSound
  <2>2. /\ page'.key \in Convs \cup {NoConv} /\ page'.items \subseteq Item /\ hydrating' \in BOOLEAN
        /\ PageSound(page'.items)
    BY <1>1, <1>5, <2>1, Rehydrated DEF DecryptKey, PageTypes
  <2>3. PageTypes'
    BY <1>1, <1>5, <2>1, <2>2 DEF DecryptKey, PageTypes
  <2> QED
    BY <1>2, <1>5, <2>2, <2>3 DEF DecryptKey, PagesSound
<1>14. CASE DecryptKeyFails
  <2>1. selected \in Convs /\ cache[selected] \in SUBSET Item /\ PageSound(cache[selected])
    BY <1>1, <1>14 DEF DecryptKeyFails, DecryptingKey, PageTypes, PagesSound
  <2>2. /\ page'.key \in Convs \cup {NoConv} /\ page'.items \subseteq Item /\ hydrating' \in BOOLEAN
        /\ PageSound(page'.items)
    BY <1>1, <1>14, <2>1, Rehydrated DEF DecryptKeyFails, PageTypes
  <2>3. PageTypes'
    BY <1>1, <1>14, <2>1, <2>2 DEF DecryptKeyFails, PageTypes
  <2> QED
    BY <1>2, <1>14, <2>2, <2>3 DEF DecryptKeyFails, PagesSound
<1>15. CASE RetryKey
  BY <1>1, <1>2, <1>15 DEF RetryKey, PagesSound, PageTypes, pageVars
<1>6. ASSUME NEW c \in Convs, NEW items \in SUBSET Item, PageSound(items), Fetched(c, items)
      PROVE  PagesSound' /\ PageTypes'
  <2>1. /\ page'.key \in Convs \cup {NoConv} /\ page'.items \subseteq Item /\ hydrating' \in BOOLEAN
        /\ PageSound(page'.items)
    BY <1>1, <1>6, Rehydrated DEF Fetched, PageTypes, PagesSound
  <2>2. PageTypes' /\ cache' = [cache EXCEPT ![c] = items]
    BY <1>1, <1>6, <2>1 DEF Fetched, PageTypes, keyVars
  <2> QED
    BY <1>1, <1>2, <1>6, <2>1, <2>2 DEF PagesSound, PageTypes
<1>7. ASSUME NEW c \in Convs, Fetch(c) PROVE PagesSound' /\ PageTypes'
  <2> DEFINE items == {[msg |-> m, status |-> row[m]] :
                        m \in {n \in Msgs : ConvOf[n] = c /\ row[n] # "NONE"}}
  <2>1. Fetched(c, items)
    BY <1>7 DEF Fetch
  <2>2. items \subseteq Item /\ PageSound(items)
    BY FetchedSound
  <2> HIDE DEF items
  <2> QED
    BY <1>6, <2>1, <2>2
<1>8. ASSUME NEW c \in Convs, FetchFails(c) PROVE PagesSound' /\ PageTypes'
  BY <1>6, <1>8 DEF FetchFails, PageSound
<1>9. CASE Refetch
  <2>1. /\ UNCHANGED <<selected, key, keys, keyless, loaded, cache, page, hydrating, history>>
        /\ fetching' = fetching \cup {selected} /\ selected \in loaded
    BY <1>9 DEF Refetch, keyVars
  <2> QED
    BY <1>1, <1>2, <2>1 DEF PagesSound, PageTypes
<1>10. CASE DecryptPage
  <2>1. /\ UNCHANGED <<selected, key, keys, keyless, loaded, cache, fetching>>
        /\ page' = NoPage /\ hydrating' \in BOOLEAN /\ history' \in BOOLEAN
    BY <1>10 DEF DecryptPage, keyVars
  <2>2. NoPage.key = NoConv /\ NoPage.items = {} /\ PageSound({})
    BY DEF NoPage, PageSound
  <2> QED
    BY <1>1, <1>2, <2>1, <2>2 DEF PagesSound, PageTypes
<1>11. CASE (\E m \in Msgs : DecryptNew(m)) \/ (\E m \in Mine : Send(m)) \/ MarkDelivered \/ MarkSeen
  BY <1>3, <1>11 DEF DecryptNew, Send, MarkDelivered, MarkSeen
<1>12. CASE Receive \/ Reconnect \/ Refuse \/ Lose \/ \E m \in Mine : Timeout(m) \/ Submit(m)
  BY <1>3, <1>12 DEF Receive, ReceiveQueued, ReceiveDelivery, ReceiveNew, Reconnect, Refuse, Lose, Timeout,
                     Submit
<1>13. CASE Server \/ Peers \/ UNCHANGED vars
  BY <1>3, <1>13 DEF Server, Peers, HandleUp, Reply, Save, Publish, ReadStatus, StoreDelivered,
                     WriteDelivered, Acknowledge, PeerDelivered, PeerSeen, vars
<1> QED
  BY <1>4, <1>5, <1>7, <1>8, <1>9, <1>10, <1>11, <1>12, <1>13, <1>14, <1>15
  DEF Next, Window, Queries, User, Faults


-----------------------------------------------------------------------------
(* The invariant *)

\* The types of what the window sends, and of what the server keeps of it.
SendTypes ==
  /\ connected \in BOOLEAN /\ opening \subseteq Theirs
  /\ encrypting \cup pending \cup sending \cup accepted \cup replying \subseteq Mine
  /\ markedDelivered \cup markedSeen \subseteq Theirs
  /\ up \in Seq(UpEvent)
  /\ stage \in [Msgs -> Stages] /\ writing \subseteq Msgs

LEMMA SendTypesStep ==
  ASSUME TypeOK, [Next]_vars
  PROVE  SendTypes'
<1>1. SendTypes
  BY DEF TypeOK, SendTypes
<1> USE <1>1 DEF SendTypes
<1>2. ASSUME UNCHANGED <<connected, opening, sendVars, accepted, replying, refVars, up, stage, writing>>
      PROVE  SendTypes'
  BY <1>2 DEF sendVars, refVars
<1>3. ASSUME NEW m \in Mine, Submit(m) PROVE SendTypes'
  BY <1>3 DEF Submit, Stages, refVars, netVars, rowVars
<1>4. ASSUME NEW m \in Mine, Send(m) PROVE SendTypes'
  <2> DEFINE e == [kind |-> "send", msgs |-> {m}]
  <2>1. e \in UpEvent
    BY DEF UpEvent
  <2>2. up' = up \/ up' = Append(up, e)
    BY <1>4 DEF Send
  <2> HIDE DEF e
  <2>3. up' \in Seq(UpEvent)
    BY <2>1, <2>2
  <2>4. /\ pending' \subseteq pending \cup {m} /\ encrypting' \subseteq encrypting
        /\ sending' \subseteq sending
        /\ UNCHANGED <<connected, opening, accepted, replying, markedDelivered, markedSeen, stage, writing>>
    BY <1>4 DEF Send, refVars, serverVars, rowVars
  <2> QED
    BY <2>3, <2>4
<1>5. ASSUME NEW m \in Mine, Timeout(m) PROVE SendTypes'
  BY <1>5 DEF Timeout, refVars, netVars, serverVars, rowVars
<1>6. CASE ReceiveQueued
  BY <1>6 DEF ReceiveQueued, Take, refVars, serverVars, rowVars
<1>7. CASE ReceiveNew
  <2>1. down # <<>> /\ down \in Seq(DownEvent) /\ Head(down).kind = "new"
    BY <1>7 DEF ReceiveNew, Receives, TypeOK
  <2>2. Head(down).msg \in Theirs
    BY <2>1 DEF DownEvent
  <2>3. opening' \subseteq Theirs
    BY <1>7, <2>2 DEF ReceiveNew
  <2> QED
    BY <1>7, <2>3 DEF ReceiveNew, Take, sendVars, refVars, serverVars, rowVars
<1>8. ASSUME NEW m \in Msgs, DecryptNew(m) PROVE SendTypes'
  BY <1>8 DEF DecryptNew, sendVars, refVars, netVars, serverVars, rowVars
<1>9. CASE MarkDelivered \/ MarkSeen
  <2>1. Undelivered \subseteq Theirs /\ Unseen \subseteq Theirs
    BY DEF Undelivered, Unseen, Others
  <2>2. PICK ids \in SUBSET Theirs, k \in {"delivered", "seen"} :
          /\ up' = Append(up, [kind |-> k, msgs |-> ids])
          /\ markedDelivered' \cup markedSeen' \subseteq markedDelivered \cup markedSeen \cup ids
    <3>1. CASE MarkDelivered
      BY <2>1, <3>1 DEF MarkDelivered
    <3>2. CASE MarkSeen
      BY <2>1, <3>2 DEF MarkSeen
    <3> QED
      BY <1>9, <3>1, <3>2
  <2>3. [kind |-> k, msgs |-> ids] \in UpEvent
    BY DEF UpEvent
  <2>4. up' \in Seq(UpEvent)
    BY <2>2, <2>3
  <2>5. UNCHANGED <<connected, opening, sendVars, accepted, replying, stage, writing>>
    BY <1>9 DEF MarkDelivered, MarkSeen, serverVars, rowVars
  <2> QED
    BY <2>2, <2>4, <2>5 DEF sendVars
<1>10. ASSUME NEW c \in Convs, Open(c) PROVE SendTypes'
  BY <1>10 DEF Open, netVars, serverVars, rowVars
<1>11. CASE Lose \/ Refuse
  <2>1. up' \in Seq(UpEvent)
    <3>1. up \in Seq(UpEvent) /\ <<>> \in Seq(UpEvent)
      BY <1>1
    <3>2. ASSUME up # <<>> PROVE Tail(up) \in Seq(UpEvent)
      BY <3>1, <3>2
    <3>3. up' = <<>> \/ (up # <<>> /\ up' = Tail(up))
      BY <1>11 DEF Lose, Refuse
    <3> QED
      BY <3>1, <3>2, <3>3
  <2>2. /\ UNCHANGED <<opening, encrypting, pending, sending, accepted, markedDelivered, markedSeen, stage, writing>>
        /\ replying' \subseteq replying /\ connected' \in BOOLEAN
    BY <1>11 DEF Lose, Refuse, sendVars, refVars, serverVars, rowVars
  <2> QED
    BY <2>1, <2>2
<1>12. CASE Reconnect
  BY <1>12 DEF Reconnect, sendVars, refVars, serverVars, rowVars
<1>13. CASE HandleUp
  <2> DEFINE e == Head(up)
  <2>1. up # <<>> /\ up' = Tail(up) /\ e \in UpEvent
    BY <1>13 DEF HandleUp
  <2>2. e.kind = "send" => e.msgs \subseteq Mine
    BY <2>1 DEF UpEvent
  <2>3. accepted' \subseteq Mine /\ replying' \subseteq Mine
    BY <1>13, <2>2 DEF HandleUp
  <2>4. writing' \subseteq Msgs
    BY <1>13, <2>1 DEF HandleUp, UpEvent, Msgs, rowVars
  <2> QED
    BY <1>13, <2>1, <2>3, <2>4 DEF HandleUp, sendVars, refVars
<1>14. ASSUME NEW m \in Msgs, Reply(m) \/ Publish(m) \/ Acknowledge(m) PROVE SendTypes'
  BY <1>14 DEF Reply, Publish, Acknowledge, Stages, sendVars, refVars, rowVars
<1>18. ASSUME NEW m \in Msgs, ReadStatus(m) \/ StoreDelivered(m) PROVE SendTypes'
  BY <1>18 DEF ReadStatus, StoreDelivered, Stages, sendVars, refVars, netVars, rowVars
<1>19. ASSUME NEW m \in Msgs, WriteDelivered(m) \/ PeerDelivered(m) \/ PeerSeen(m) PROVE SendTypes'
  BY <1>19 DEF WriteDelivered, PeerDelivered, PeerSeen, sendVars, refVars, netVars
<1>15. CASE DecryptKey \/ DecryptKeyFails \/ RetryKey \/ DecryptPage \/ ReceiveDelivery
  BY <1>2, <1>15 DEF DecryptKey, DecryptKeyFails, RetryKey, DecryptPage, ReceiveDelivery, Take, netVars, serverVars, rowVars
<1>16. CASE \E c \in Convs : Fetch(c) \/ FetchFails(c)
  BY <1>2, <1>16 DEF Fetch, FetchFails, Fetched, netVars, serverVars, rowVars
<1>17. CASE Refetch \/ (\E m \in Msgs : Save(m)) \/ UNCHANGED vars
  BY <1>2, <1>17 DEF Save, Refetch, netVars, serverVars, rowVars, vars
<1> QED
  BY <1>3, <1>4, <1>5, <1>6, <1>7, <1>8, <1>9, <1>10, <1>11, <1>12, <1>13, <1>14, <1>15, <1>16,
     <1>17, <1>18, <1>19
  DEF Next, Window, Receive, Queries, User, Server, Peers, Faults, Msgs

LEMMA StepSound ==
  ASSUME IInv, [Next]_vars
  PROVE  IInv'
<1>1. /\ TypeOK /\ ListSound(bubbles) /\ PagesSound /\ DownSound /\ ServerSound
      /\ ShownSound /\ UpSound /\ SeenOnlyWhenShown
  BY DEF IInv
<1>2. ListSound(bubbles)'
  BY <1>1, ListStep
<1>3. PagesSound' /\ PageTypes' /\ DownSound' /\ down' \in Seq(DownEvent)
  BY <1>1, PagesStep, DownStep
<1>4. ServerSound' /\ UpSound' /\ SeenOnlyWhenShown' /\ ShownSound' /\ shown' \subseteq Theirs
  BY <1>1, ServerStep, UpStep, SeenStep, ShownStep
<1>5. TypeOK'
  BY <1>1, <1>2, <1>3, <1>4, SendTypesStep, Grows DEF TypeOK, PageTypes, SendTypes, ListSound, Onward
<1> QED
  BY <1>2, <1>3, <1>4, <1>5 DEF IInv

-----------------------------------------------------------------------------
(* Theorems *)

\* The inductive invariant holds of every reachable state.
THEOREM Invariance == Spec => []IInv
<1>1. Init => IInv
  BY InitSound
<1>2. IInv /\ [Next]_vars => IInv'
  BY StepSound
<1> QED
  BY <1>1, <1>2, PTL DEF Spec

\* Every variable has its type: of the list, the pages, the events and the rows.
THEOREM TypeCorrect == Spec => []TypeOK
<1>1. IInv => TypeOK
  BY DEF IInv
<1> QED
  BY <1>1, Invariance, PTL

\* A set with no more elements than x and y has no more than two.
LEMMA AtMostTwo ==
  ASSUME NEW x, NEW y, NEW S \in SUBSET {x, y}
  PROVE  Cardinality(S) \in Nat /\ Cardinality(S) <= IF x = y THEN 1 ELSE 2
<1>1. IsFiniteSet({x}) /\ Cardinality({x}) = 1
  BY FS_Singleton
<1>2. {x, y} = {x} \cup {y}
  OBVIOUS
<1>3. IsFiniteSet({x, y}) /\ Cardinality({x, y}) = IF y \in {x} THEN 1 ELSE 2
  BY <1>1, <1>2, FS_AddElement
<1>4. IsFiniteSet(S) /\ Cardinality(S) <= Cardinality({x, y})
  BY <1>3, FS_Subset
<1>5. Cardinality(S) \in Nat
  BY <1>4, FS_CardinalityType
<1> QED
  BY <1>3, <1>4, <1>5

\* The socket, the pages and the answers give a message of another member one entry
\* and an own message two at most, in whatever order they come.
THEOREM PeersOnce == Spec => []PeerMessagesOnce
<1>1. ASSUME IInv, NEW m \in Msgs
      PROVE  Cardinality({b \in bubbles : b.msg = m}) <= IF m \in Mine THEN 2 ELSE 1
  <2> DEFINE S == {b \in bubbles : b.msg = m}
             withId == CHOOSE b \in S : b.client
             without == CHOOSE b \in S : ~b.client
  <2>1. Distinct(bubbles) /\ bubbles \subseteq Bubble
    BY <1>1 DEF IInv, ListSound
  <2>2. ASSUME NEW b \in S PROVE b = IF b.client THEN withId ELSE without
    <3>1. \A c \in S : b.client = c.client => b = c
      BY <2>1 DEF Distinct
    <3>2. b.client \in BOOLEAN /\ \A c \in S : c.client \in BOOLEAN
      BY <2>1 DEF Bubble
    <3>3. CASE b.client
      <4>1. withId \in S /\ withId.client
        BY <3>3
      <4> QED
        BY <3>1, <3>2, <3>3, <4>1
    <3>4. CASE ~b.client
      <4>1. without \in S /\ ~without.client
        BY <3>4
      <4> QED
        BY <3>1, <3>2, <3>4, <4>1
    <3> QED
      BY <3>3, <3>4
  <2> HIDE DEF withId, without
  <2>3. CASE m \in Mine
    <3>1. S \in SUBSET {withId, without}
      BY <2>2
    <3> HIDE DEF S
    <3>2. Cardinality(S) \in Nat /\ Cardinality(S) <= IF withId = without THEN 1 ELSE 2
      BY <3>1, AtMostTwo
    <3> QED
      BY <2>3, <3>2 DEF S
  <2>4. CASE m \notin Mine
    <3>1. \A b \in S : ~b.client
      BY <2>1, <2>4 DEF Distinct, Msgs
    <3>2. S \in SUBSET {without, without}
      BY <2>2, <3>1
    <3> HIDE DEF S
    <3>3. Cardinality(S) <= 1
      BY <3>2, AtMostTwo
    <3> QED
      BY <2>4, <3>3 DEF S
  <2> QED
    BY <2>3, <2>4
<1>2. IInv => PeerMessagesOnce
  BY <1>1 DEF PeerMessagesOnce
<1> QED
  BY <1>2, Invariance, PTL

\* Whatever answers, acknowledgements, receipts and pages come, the list says of an
\* own message only what is so, or, of seen, what has been so.
THEOREM StatusesAreTrue == Spec => []StatusIsTrue
<1>1. IInv => StatusIsTrue
  BY DEF IInv, ListSound, Truthful, Holds, Reached, StatusIsTrue
<1> QED
  BY <1>1, Invariance, PTL

\* No message of another member is seen before it was displayed in its conversation.
THEOREM SeenWhenShown == Spec => []SeenOnlyWhenShown
<1>1. IInv => SeenOnlyWhenShown
  BY DEF IInv
<1> QED
  BY <1>1, Invariance, PTL

=============================================================================
