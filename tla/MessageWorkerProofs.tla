------------------------ MODULE MessageWorkerProofs ------------------------
(***************************************************************************)
(* Proofs about MessageWorker, for any number of instances, conversations, *)
(* messages, crashes and failed calls.                                     *)
(***************************************************************************)
EXTENDS MessageWorker, TLAPS, SequenceTheorems, FiniteSetTheorems

-----------------------------------------------------------------------------
(* The inductive invariant *)

\* Before the group exists nothing was sent and no process got past its start.
GroupSound ==
  /\ lastDelivered <= Len(stream)
  /\ Len(deliveries) = Len(stream)
  /\ ~group => stream = <<>> /\ lastDelivered = 0
  /\ ~group => \A w \in Workers : pc[w] = "down"
  /\ pending \subseteq 1..lastDelivered

\* A worker that handles an entry has it at the head of its batch, and every
\* entry of a batch was handed out by the group.
BatchSound(w) ==
  /\ pc[w] \in Handling => batch[w] # <<>>
  /\ \A k \in 1..Len(batch[w]) : batch[w][k] \in 1..lastDelivered

\* What a worker knows of its current entry before each call.
StepSound(w) ==
  /\ pc[w] = "save" => /\ Deliverable(stream[Current(w)])
                       /\ stream[Current(w)].payload
  /\ pc[w] = "publish" => row[w] \in DOMAIN rows /\ rows[row[w]] = Current(w)
  /\ pc[w] = "ack" => Finished(Current(w))

IInv ==
  /\ TypeOK
  /\ GroupSound
  /\ OnlyMembersStored
  /\ \A w \in Workers : BatchSound(w) /\ StepSound(w)
  /\ NothingLost
-----------------------------------------------------------------------------
(* Lemmas *)

\* The initial state satisfies the inductive invariant.
LEMMA InitSound == Init => IInv
<1> SUFFICES ASSUME Init PROVE IInv
  OBVIOUS
<1>1. TypeOK
  <2>1. /\ stream \in Seq(Entry) /\ deliveries \in Seq(Nat) /\ rows \in Seq(Nat)
        /\ batch \in [Workers -> Seq(Nat)]
    BY EmptySeq DEF Init
  <2>2. pc \in [Workers -> PC] /\ recovering \in [Workers -> BOOLEAN]
    BY DEF Init, PC
  <2>3. cursor \in [Workers -> Nat] /\ brokeOff \in [Workers -> Nat] /\ row \in [Workers -> Nat]
    BY DEF Init
  <2> QED
    BY <2>1, <2>2, <2>3 DEF Init, TypeOK
<1>2. GroupSound /\ OnlyMembersStored
  BY DEF Init, GroupSound, OnlyMembersStored
<1>3. \A w \in Workers : BatchSound(w) /\ StepSound(w)
  BY DEF Init, BatchSound, StepSound, Handling
<1>4. NothingLost
  BY DEF Init, NothingLost, Settled
<1> QED
  BY <1>1, <1>2, <1>3, <1>4 DEF IInv

\* The current entry of a worker in processEntry was handed out by the group.
LEMMA CurrentHandedOut ==
  ASSUME IInv, NEW w \in Workers, pc[w] \in Handling
  PROVE  /\ Current(w) \in 1..lastDelivered
         /\ Current(w) \in Ids
         /\ batch[w] \in Seq(Nat) /\ batch[w] # <<>>
         /\ Tail(batch[w]) \in Seq(Nat)
         /\ \A k \in 1..Len(Tail(batch[w])) : Tail(batch[w])[k] \in 1..lastDelivered
<1>1. /\ batch[w] \in Seq(Nat) /\ batch[w] # <<>>
      /\ \A k \in 1..Len(batch[w]) : batch[w][k] \in 1..lastDelivered
  BY DEF IInv, TypeOK, BatchSound
<1>2. Head(batch[w]) = batch[w][1] /\ Len(batch[w]) \in Nat \ {0}
  BY <1>1, HeadTailProperties, LenProperties, EmptySeq
<1>3. Current(w) \in 1..lastDelivered
  BY <1>1, <1>2 DEF Current
<1>4. Current(w) \in Ids
  BY <1>3 DEF IInv, TypeOK, GroupSound, Ids
<1>5. Tail(batch[w]) \in Seq(Nat)
  BY <1>1, HeadTailProperties
<1>6. \A k \in 1..Len(Tail(batch[w])) : Tail(batch[w])[k] \in 1..lastDelivered
  BY <1>1, <1>2, HeadTailProperties
<1> QED
  BY <1>1, <1>3, <1>4, <1>5, <1>6

\* A row keeps its place when the table grows.
LEMMA RowsKept ==
  ASSUME TypeOK, rows' = rows \/ \E n \in Nat : rows' = Append(rows, n)
  PROVE  \A r \in DOMAIN rows : r \in DOMAIN rows' /\ rows'[r] = rows[r]
<1>1. rows \in Seq(Nat) /\ DOMAIN rows = 1..Len(rows) /\ Len(rows) \in Nat
  BY LenProperties DEF TypeOK
<1>2. ASSUME NEW n \in Nat, rows' = Append(rows, n)
      PROVE  \A r \in DOMAIN rows : r \in DOMAIN rows' /\ rows'[r] = rows[r]
  <2>1. rows' \in Seq(Nat) /\ Len(rows') = Len(rows) + 1
    BY <1>1, <1>2, AppendProperties
  <2>2. DOMAIN rows' = 1..(Len(rows) + 1)
    BY <2>1, LenProperties
  <2>3. \A r \in 1..Len(rows) : Append(rows, n)[r] = rows[r]
    BY <1>1, AppendProperties
  <2> QED
    <3>1. ASSUME NEW r \in 1..Len(rows)
          PROVE  r \in DOMAIN rows' /\ rows'[r] = rows[r]
      <4>1. rows'[r] = rows[r]
        BY <1>2, <2>3
      <4>2. r \in 1..(Len(rows) + 1)
        BY <1>1
      <4> QED
        BY <4>1, <4>2, <2>2
    <3> QED
      BY <3>1, <1>1
<1> QED
  BY <1>2

\* The work done on an entry stays done while the stream, the table and the
\* announcements only grow.
LEMMA FinishedStable ==
  ASSUME TypeOK, NEW i \in Ids, Finished(i),
         stream' = stream \/ \E e \in Entry : stream' = Append(stream, e),
         rows' = rows \/ \E n \in Nat : rows' = Append(rows, n),
         announced \subseteq announced'
  PROVE  Finished(i)'
<1>1. stream'[i] = stream[i]
  <2>1. ASSUME NEW e \in Entry, stream' = Append(stream, e)
        PROVE  stream'[i] = stream[i]
    BY <2>1, AppendProperties DEF TypeOK, Ids
  <2> QED
    BY <2>1
<1>2. \A r \in DOMAIN rows : r \in DOMAIN rows' /\ rows'[r] = rows[r]
  BY RowsKept
<1>3. Deliverable(stream[i])' = Deliverable(stream[i])
  BY <1>1 DEF Deliverable
<1> QED
  BY <1>2, <1>3 DEF Finished

\* A gateway appends an entry.
LEMMA SendMessageSound ==
  ASSUME IInv, NEW w \in Workers, NEW e \in Entry, SendMessage(w, e)
  PROVE  IInv'
<1> USE DEF SendMessage, workerVars
<1>1. TypeOK'
  BY AppendProperties DEF IInv, TypeOK
<1>2. Len(stream') = Len(stream) + 1 /\ \A i \in Ids : stream'[i] = stream[i]
  BY AppendProperties DEF IInv, TypeOK, Ids
<1>3. GroupSound'
  BY <1>2, AppendProperties DEF IInv, TypeOK, GroupSound, Serving
<1>4. \A i \in 1..lastDelivered : i \in Ids /\ stream'[i] = stream[i]
  BY <1>2 DEF IInv, TypeOK, GroupSound, Ids
<1>5. OnlyMembersStored'
  BY <1>4 DEF IInv, OnlyMembersStored, Deliverable
<1>6. ASSUME NEW v \in Workers PROVE BatchSound(v)' /\ StepSound(v)'
  <2>1. BatchSound(v)'
    BY DEF IInv, BatchSound
  <2>2. CASE pc[v] \in Handling
    <3>1. Current(v) \in Ids /\ stream'[Current(v)] = stream[Current(v)]
      BY <2>2, <1>2, CurrentHandedOut
    <3>2. pc[v] = "ack" => Finished(Current(v))'
      BY <3>1, FinishedStable DEF IInv, StepSound, Current, Finished, Deliverable
    <3> QED
      BY <2>1, <3>1, <3>2 DEF IInv, StepSound, Current, Deliverable
  <2>3. CASE pc[v] \notin Handling
    BY <2>1, <2>3 DEF StepSound, Handling
  <2> QED
    BY <2>2, <2>3
<1>7. NothingLost'
  BY <1>4, FinishedStable DEF IInv, NothingLost, Settled
<1> QED
  BY <1>1, <1>3, <1>5, <1>6, <1>7 DEF IInv
\* A step of another worker disturbs nothing this worker relies on.
LEMMA OtherWorkerSound ==
  ASSUME IInv, NEW v \in Workers,
         pc'[v] = pc[v], batch'[v] = batch[v], row'[v] = row[v],
         stream' = stream,
         lastDelivered' \in Nat, lastDelivered <= lastDelivered',
         rows' = rows \/ \E n \in Nat : rows' = Append(rows, n),
         announced \subseteq announced'
  PROVE  BatchSound(v)' /\ StepSound(v)'
<1>1. BatchSound(v)'
  BY DEF IInv, TypeOK, BatchSound
<1>2. pc[v] = "publish" => row[v] \in DOMAIN rows' /\ rows'[row[v]] = Current(v)
  BY RowsKept DEF IInv, StepSound
<1>3. ASSUME pc[v] = "ack" PROVE Finished(Current(v))'
  <2>1. Current(v) \in Ids /\ Finished(Current(v))
    BY <1>3, CurrentHandedOut DEF IInv, StepSound, Handling
  <2>2. Current(v)' = Current(v)
    BY DEF Current
  <2>3. \A i : i = Current(v) => Finished(i)'
    BY <2>1, FinishedStable DEF IInv
  <2> QED
    BY <2>2, <2>3 DEF Finished, Deliverable
<1> QED
  BY <1>1, <1>2, <1>3 DEF IInv, StepSound, Current, Deliverable

\* Steps that leave the stream, the group, the table and the announcements alone
\* keep what the invariant says of them.
LEMMA DataSound ==
  ASSUME IInv, UNCHANGED streamVars, UNCHANGED <<pending, rows, announced>>,
         Len(deliveries') = Len(deliveries), group
  PROVE  GroupSound' /\ OnlyMembersStored' /\ NothingLost'
<1> USE DEF IInv, streamVars
<1>1. GroupSound'
  BY DEF GroupSound
<1>2. OnlyMembersStored'
  BY DEF OnlyMembersStored, Deliverable
<1>3. NothingLost'
  BY DEF NothingLost, Settled, Finished, Deliverable
<1> QED
  BY <1>1, <1>2, <1>3

\* The group exists as soon as some process runs.
LEMMA GroupExists ==
  ASSUME IInv, NEW w \in Workers, pc[w] # "down"
  PROVE  group
BY DEF IInv, GroupSound, TypeOK

\* A process that dies, or gives up its batch, holds nothing.
LEMMA EmptyHandsSound ==
  ASSUME IInv, NEW w \in Workers, NEW l \in {"down", "read"}, Goto(w, l),
         batch' = [batch EXCEPT ![w] = <<>>], row' = row,
         UNCHANGED streamVars, UNCHANGED <<rows, announced>>
  PROVE  /\ pc' \in [Workers -> PC] /\ batch' \in [Workers -> Seq(Nat)]
         /\ \A v \in Workers : BatchSound(v)' /\ StepSound(v)'
<1>1. pc' \in [Workers -> PC] /\ batch' \in [Workers -> Seq(Nat)]
  BY EmptySeq DEF IInv, TypeOK, Goto, PC
<1>2. pc'[w] = l /\ batch'[w] = <<>> /\ Len(batch'[w]) = 0
  BY EmptySeq DEF IInv, TypeOK, Goto
<1>3. BatchSound(w)' /\ StepSound(w)'
  BY <1>2 DEF BatchSound, StepSound, Handling
<1>4. ASSUME NEW v \in Workers, v # w PROVE BatchSound(v)' /\ StepSound(v)'
  <2>1. pc'[v] = pc[v] /\ batch'[v] = batch[v] /\ row'[v] = row[v]
    BY <1>4 DEF IInv, TypeOK, Goto
  <2>2. /\ stream' = stream /\ lastDelivered' = lastDelivered /\ lastDelivered \in Nat
        /\ lastDelivered <= lastDelivered' /\ rows' = rows /\ announced' = announced
    BY DEF streamVars, IInv, TypeOK
  <2> QED
    BY <2>1, <2>2, OtherWorkerSound
<1> QED
  BY <1>1, <1>3, <1>4

\* After an entry the worker turns to the next one, with the rest of its batch.
LEMMA NextEntrySound ==
  ASSUME IInv, NEW w \in Workers, pc[w] \in Handling, NextEntry(w),
         UNCHANGED streamVars,
         rows' = rows \/ \E n \in Nat : rows' = Append(rows, n),
         announced \subseteq announced'
  PROVE  /\ pc' \in [Workers -> PC] /\ batch' \in [Workers -> Seq(Nat)]
         /\ recovering' \in [Workers -> BOOLEAN]
         /\ UNCHANGED <<cursor, brokeOff, row>>
         /\ \A v \in Workers : BatchSound(v)' /\ StepSound(v)'
<1>1. Tail(batch[w]) \in Seq(Nat)
      /\ \A k \in 1..Len(Tail(batch[w])) : Tail(batch[w])[k] \in 1..lastDelivered
  BY CurrentHandedOut
<1>2. batch' \in [Workers -> Seq(Nat)] /\ batch'[w] = Tail(batch[w])
  BY <1>1 DEF NextEntry, IInv, TypeOK
<1>3. /\ pc' \in [Workers -> PC] /\ pc'[w] \in {"entry", "claim", "read"}
      /\ pc'[w] = "entry" => Tail(batch[w]) # <<>>
  BY DEF NextEntry, Goto, IInv, TypeOK, PC
<1>4. recovering' \in [Workers -> BOOLEAN]
  <2>1. recovering \in [Workers -> BOOLEAN]
    BY DEF IInv, TypeOK
  <2> QED
    BY <2>1 DEF NextEntry
<1>5. BatchSound(w)' /\ StepSound(w)'
  BY <1>1, <1>2, <1>3 DEF BatchSound, StepSound, Handling, streamVars
<1>6. ASSUME NEW v \in Workers, v # w PROVE BatchSound(v)' /\ StepSound(v)'
  <2>1. pc'[v] = pc[v] /\ batch'[v] = batch[v] /\ row'[v] = row[v]
    BY <1>6 DEF NextEntry, Goto, IInv, TypeOK
  <2>2. /\ stream' = stream
        /\ lastDelivered' \in Nat /\ lastDelivered <= lastDelivered'
    BY DEF streamVars, IInv, TypeOK
  <2> QED
    BY <2>1, <2>2, OtherWorkerSound
<1>7. UNCHANGED <<cursor, brokeOff, row>>
  BY DEF NextEntry
<1> QED
  BY <1>2, <1>3, <1>4, <1>5, <1>6, <1>7
-----------------------------------------------------------------------------
(* Every step keeps the inductive invariant *)

LEMMA BootSound ==
  ASSUME IInv, NEW w \in Workers, Boot(w)
  PROVE  IInv'
<1> USE DEF Boot, Goto
<1>1. TypeOK'
  BY LenProperties DEF IInv, TypeOK, PC
<1>2. lastDelivered' = lastDelivered
  BY EmptySeq DEF IInv, GroupSound
<1>3. GroupSound' /\ OnlyMembersStored' /\ NothingLost'
  BY <1>2 DEF IInv, GroupSound, OnlyMembersStored, NothingLost, Settled,
              Finished, Deliverable
<1>4. BatchSound(w)' /\ StepSound(w)'
  BY <1>2 DEF IInv, TypeOK, BatchSound, StepSound, Handling
<1>5. ASSUME NEW v \in Workers, v # w PROVE BatchSound(v)' /\ StepSound(v)'
  <2>1. pc'[v] = pc[v]
    BY <1>5 DEF IInv, TypeOK
  <2>2. /\ batch'[v] = batch[v] /\ row'[v] = row[v]
        /\ stream' = stream /\ rows' = rows /\ announced \subseteq announced'
    BY <1>2, <1>5 DEF streamVars, workerVars
  <2>3. lastDelivered' \in Nat /\ lastDelivered <= lastDelivered'
    BY <1>2, <1>5 DEF IInv, TypeOK, streamVars
  <2> QED
    BY <2>1, <2>2, <2>3, OtherWorkerSound
<1> QED
  BY <1>1, <1>3, <1>4, <1>5 DEF IInv

LEMMA ClaimFailsSound ==
  ASSUME IInv, NEW w \in Workers, ClaimFails(w)
  PROVE  IInv'
<1> USE DEF ClaimFails
<1>1. TypeOK'
  BY DEF IInv, TypeOK, Goto, PC, streamVars
<1>2. GroupSound' /\ OnlyMembersStored' /\ NothingLost'
  BY DataSound, GroupExists
<1>3. BatchSound(w)' /\ StepSound(w)'
  BY DEF IInv, TypeOK, BatchSound, StepSound, Handling, Goto, streamVars
<1>4. ASSUME NEW v \in Workers, v # w PROVE BatchSound(v)' /\ StepSound(v)'
  <2>1. pc'[v] = pc[v]
    BY <1>4 DEF IInv, TypeOK, Goto
  <2>2. /\ batch'[v] = batch[v] /\ row'[v] = row[v]
        /\ stream' = stream /\ rows' = rows /\ announced \subseteq announced'
    BY <1>4 DEF streamVars, workerVars
  <2>3. lastDelivered' \in Nat /\ lastDelivered <= lastDelivered'
    BY <1>4 DEF IInv, TypeOK, streamVars
  <2> QED
    BY <2>1, <2>2, <2>3, OtherWorkerSound
<1> QED
  BY <1>1, <1>2, <1>3, <1>4 DEF IInv

LEMMA ParseFailsSound ==
  ASSUME IInv, NEW w \in Workers, ParseFails(w)
  PROVE  IInv'
<1> USE DEF ParseFails
<1>1. GroupSound' /\ OnlyMembersStored' /\ NothingLost'
  BY DataSound, GroupExists
<1>2. PICK l \in {"down", "read"} : Goto(w, l)
  BY DEF Goto
<1>3. /\ pc' \in [Workers -> PC] /\ batch' \in [Workers -> Seq(Nat)]
      /\ \A v \in Workers : BatchSound(v)' /\ StepSound(v)'
  BY <1>2, EmptyHandsSound
<1>4. TypeOK'
  BY <1>3 DEF IInv, TypeOK, streamVars
<1> QED
  BY <1>1, <1>3, <1>4 DEF IInv

LEMMA CrashSound ==
  ASSUME IInv, NEW w \in Workers, Crash(w)
  PROVE  IInv'
<1> USE DEF Crash
<1>1. GroupSound' /\ OnlyMembersStored' /\ NothingLost'
  BY DataSound, GroupExists
<1>2. /\ pc' \in [Workers -> PC] /\ batch' \in [Workers -> Seq(Nat)]
      /\ \A v \in Workers : BatchSound(v)' /\ StepSound(v)'
  BY EmptyHandsSound
<1>3. TypeOK'
  BY <1>2 DEF IInv, TypeOK, streamVars
<1> QED
  BY <1>1, <1>2, <1>3 DEF IInv

LEMMA AgeSound ==
  ASSUME IInv, NEW i \in pending, Age(i)
  PROVE  IInv'
<1> USE DEF Age, workerVars
<1>1. TypeOK'
  BY DEF IInv, TypeOK, streamVars
<1>2. group
  BY DEF IInv, GroupSound, TypeOK
<1>3. GroupSound' /\ OnlyMembersStored' /\ NothingLost'
  BY <1>2, DataSound
<1>4. ASSUME NEW v \in Workers PROVE BatchSound(v)' /\ StepSound(v)'
  <2>1. pc'[v] = pc[v] /\ batch'[v] = batch[v] /\ row'[v] = row[v]
    BY DEF workerVars
  <2>2. /\ stream' = stream /\ rows' = rows /\ announced \subseteq announced'
        /\ lastDelivered' \in Nat /\ lastDelivered <= lastDelivered'
    BY DEF IInv, TypeOK, streamVars
  <2> QED
    BY <2>1, <2>2, OtherWorkerSound
<1> QED
  BY <1>1, <1>3, <1>4 DEF IInv

LEMMA LookupSound ==
  ASSUME IInv, NEW w \in Workers, Lookup(w)
  PROVE  IInv'
<1> USE DEF Lookup, workerVars
<1>1. TypeOK'
  BY DEF IInv, TypeOK, Goto, PC, streamVars
<1>2. GroupSound' /\ OnlyMembersStored' /\ NothingLost'
  BY DataSound, GroupExists
<1>3. BatchSound(w)' /\ StepSound(w)'
  <2>1. pc'[w] = IF Deliverable(stream[Current(w)]) THEN "save" ELSE "ack"
    BY DEF IInv, TypeOK, Goto
  <2>2. BatchSound(w)'
    BY DEF IInv, BatchSound, Handling, streamVars
  <2> QED
    BY <2>1, <2>2 DEF StepSound, Finished, Current, Deliverable, streamVars
<1>4. ASSUME NEW v \in Workers, v # w PROVE BatchSound(v)' /\ StepSound(v)'
  <2>1. pc'[v] = pc[v]
    BY <1>4 DEF IInv, TypeOK, Goto
  <2>2. /\ batch'[v] = batch[v] /\ row'[v] = row[v]
        /\ stream' = stream /\ rows' = rows /\ announced \subseteq announced'
    BY <1>4 DEF streamVars, workerVars
  <2>3. lastDelivered' \in Nat /\ lastDelivered <= lastDelivered'
    BY <1>4 DEF IInv, TypeOK, streamVars
  <2> QED
    BY <2>1, <2>2, <2>3, OtherWorkerSound
<1> QED
  BY <1>1, <1>2, <1>3, <1>4 DEF IInv
\* The insert adds a row for the current entry, whether its reply arrives or not.
LEMMA RowAdded ==
  ASSUME IInv, NEW w \in Workers, pc[w] = "save",
         rows' = Append(rows, Current(w)), UNCHANGED announced,
         UNCHANGED streamVars, UNCHANGED pending, UNCHANGED deliveries
  PROVE  /\ rows' \in Seq(Nat) /\ Len(rows) \in Nat
         /\ Len(rows) + 1 \in DOMAIN rows' /\ rows'[Len(rows) + 1] = Current(w)
         /\ \E n \in Nat : rows' = Append(rows, n)
         /\ GroupSound' /\ OnlyMembersStored' /\ NothingLost'
<1> USE DEF streamVars
<1>1. rows \in Seq(Nat) /\ Len(rows) \in Nat /\ DOMAIN rows = 1..Len(rows)
  BY LenProperties DEF IInv, TypeOK
<1>2. Current(w) \in 1..lastDelivered /\ Current(w) \in Nat
  BY CurrentHandedOut DEF Handling, IInv, TypeOK
<1>3. rows' \in Seq(Nat) /\ Len(rows') = Len(rows) + 1
      /\ rows'[Len(rows) + 1] = Current(w)
  BY <1>1, <1>2, AppendProperties
<1>4. DOMAIN rows' = 1..(Len(rows) + 1)
  BY <1>3, LenProperties
<1>5. \A r \in DOMAIN rows : r \in DOMAIN rows' /\ rows'[r] = rows[r]
  BY <1>2, RowsKept DEF IInv
<1>6. GroupSound'
  BY DEF IInv, GroupSound
<1>7. OnlyMembersStored'
  <2>1. announced' \subseteq DOMAIN rows'
    BY <1>5 DEF IInv, OnlyMembersStored
  <2>2. ASSUME NEW r \in DOMAIN rows'
        PROVE  /\ rows'[r] \in 1..lastDelivered
               /\ Deliverable(stream[rows'[r]])
               /\ stream[rows'[r]].payload
    <3>1. CASE r = Len(rows) + 1
      BY <3>1, <1>2, <1>3 DEF IInv, StepSound
    <3>2. CASE r \in DOMAIN rows
      BY <3>2, <1>5 DEF IInv, OnlyMembersStored
    <3> QED
      BY <3>1, <3>2, <1>1, <1>4
  <2> QED
    BY <2>1, <2>2 DEF OnlyMembersStored, Deliverable
<1>8. NothingLost'
  BY <1>5 DEF IInv, NothingLost, Settled, Finished, Deliverable
<1> QED
  BY <1>1, <1>2, <1>3, <1>4, <1>6, <1>7, <1>8

LEMMA SaveSound ==
  ASSUME IInv, NEW w \in Workers, Save(w)
  PROVE  IInv'
<1> USE DEF Save
<1>1. /\ rows' \in Seq(Nat) /\ Len(rows) \in Nat
      /\ Len(rows) + 1 \in DOMAIN rows' /\ rows'[Len(rows) + 1] = Current(w)
      /\ \E n \in Nat : rows' = Append(rows, n)
      /\ GroupSound' /\ OnlyMembersStored' /\ NothingLost'
  BY RowAdded
<1>2. TypeOK'
  BY <1>1 DEF IInv, TypeOK, Goto, PC, streamVars
<1>3. BatchSound(w)' /\ StepSound(w)'
  <2>1. pc'[w] = "publish" /\ row'[w] = Len(rows) + 1
    BY DEF IInv, TypeOK, Goto
  <2>2. BatchSound(w)'
    BY DEF IInv, BatchSound, Handling, streamVars
  <2>3. StepSound(w)'
    BY <2>1, <1>1 DEF StepSound, Current
  <2> QED
    BY <2>2, <2>3
<1>4. ASSUME NEW v \in Workers, v # w PROVE BatchSound(v)' /\ StepSound(v)'
  <2>1. pc'[v] = pc[v] /\ row'[v] = row[v]
    BY <1>4 DEF IInv, TypeOK, Goto
  <2>2. /\ stream' = stream /\ batch'[v] = batch[v] /\ announced \subseteq announced'
        /\ lastDelivered' \in Nat /\ lastDelivered <= lastDelivered'
    BY DEF IInv, TypeOK, streamVars
  <2>3. \E n \in Nat : rows' = Append(rows, n)
    BY <1>1
  <2> HIDE DEF Save
  <2> QED
    BY <2>1, <2>2, <2>3, OtherWorkerSound
<1> QED
  BY <1>1, <1>2, <1>3, <1>4 DEF IInv

LEMMA SaveUnconfirmedSound ==
  ASSUME IInv, NEW w \in Workers, SaveUnconfirmed(w)
  PROVE  IInv'
<1> USE DEF SaveUnconfirmed, Caught
<1>1. /\ rows' \in Seq(Nat)
      /\ \E n \in Nat : rows' = Append(rows, n)
      /\ GroupSound' /\ OnlyMembersStored' /\ NothingLost'
  BY RowAdded
<1>2. /\ pc' \in [Workers -> PC] /\ batch' \in [Workers -> Seq(Nat)]
      /\ recovering' \in [Workers -> BOOLEAN]
      /\ UNCHANGED <<cursor, brokeOff, row>>
      /\ \A v \in Workers : BatchSound(v)' /\ StepSound(v)'
  BY <1>1, NextEntrySound DEF Handling
<1>3. TypeOK'
  BY <1>1, <1>2 DEF IInv, TypeOK, streamVars
<1> QED
  BY <1>1, <1>2, <1>3 DEF IInv

\* The publish announces a row of the current entry.
LEMMA RowAnnounced ==
  ASSUME IInv, NEW w \in Workers, pc[w] = "publish",
         announced' = announced \cup {row[w]}, UNCHANGED rows,
         UNCHANGED streamVars, UNCHANGED pending, UNCHANGED deliveries
  PROVE  /\ announced' \subseteq Nat
         /\ \A i : i = Current(w) => Finished(i)'
         /\ GroupSound' /\ OnlyMembersStored' /\ NothingLost'
<1> USE DEF streamVars
<1>1. row[w] \in DOMAIN rows /\ rows[row[w]] = Current(w) /\ row[w] \in Nat
  BY DEF IInv, StepSound, TypeOK
<1>2. announced' \subseteq Nat
  BY <1>1 DEF IInv, TypeOK
<1>3. \A i : i = Current(w) => Finished(i)'
  BY <1>1 DEF Finished
<1>4. GroupSound'
  BY DEF IInv, GroupSound
<1>5. OnlyMembersStored'
  BY <1>1 DEF IInv, OnlyMembersStored, Deliverable
<1>6. NothingLost'
  BY DEF IInv, NothingLost, Settled, Finished, Deliverable
<1> QED
  BY <1>1, <1>2, <1>3, <1>4, <1>5, <1>6
LEMMA PublishSound ==
  ASSUME IInv, NEW w \in Workers, Publish(w)
  PROVE  IInv'
<1> USE DEF Publish, workerVars
<1>1. /\ announced' \subseteq Nat
      /\ \A i : i = Current(w) => Finished(i)'
      /\ GroupSound' /\ OnlyMembersStored' /\ NothingLost'
  BY RowAnnounced
<1>2. TypeOK'
  BY <1>1 DEF IInv, TypeOK, Goto, PC, streamVars
<1>3. BatchSound(w)' /\ StepSound(w)'
  <2>1. pc'[w] = "ack" /\ Current(w)' = Current(w)
    BY DEF IInv, TypeOK, Goto, Current
  <2>2. BatchSound(w)'
    BY DEF IInv, BatchSound, Handling, streamVars
  <2>3. Finished(Current(w))'
    BY <1>1, <2>1 DEF Finished, Deliverable
  <2> QED
    BY <2>1, <2>2, <2>3 DEF StepSound
<1>4. ASSUME NEW v \in Workers, v # w PROVE BatchSound(v)' /\ StepSound(v)'
  <2>1. pc'[v] = pc[v]
    BY <1>4 DEF IInv, TypeOK, Goto
  <2>2. /\ batch'[v] = batch[v] /\ row'[v] = row[v]
        /\ stream' = stream /\ rows' = rows /\ announced \subseteq announced'
    BY <1>4 DEF streamVars, workerVars
  <2>3. lastDelivered' \in Nat /\ lastDelivered <= lastDelivered'
    BY <1>4 DEF IInv, TypeOK, streamVars
  <2> QED
    BY <2>1, <2>2, <2>3, OtherWorkerSound
<1> QED
  BY <1>1, <1>2, <1>3, <1>4 DEF IInv

LEMMA PublishUnconfirmedSound ==
  ASSUME IInv, NEW w \in Workers, PublishUnconfirmed(w)
  PROVE  IInv'
<1> USE DEF PublishUnconfirmed, Caught
<1>1. /\ announced' \subseteq Nat
      /\ GroupSound' /\ OnlyMembersStored' /\ NothingLost'
  BY RowAnnounced
<1>2. /\ pc' \in [Workers -> PC] /\ batch' \in [Workers -> Seq(Nat)]
      /\ recovering' \in [Workers -> BOOLEAN]
      /\ UNCHANGED <<cursor, brokeOff, row>>
      /\ \A v \in Workers : BatchSound(v)' /\ StepSound(v)'
  BY NextEntrySound DEF Handling
<1>3. TypeOK'
  BY <1>1, <1>2 DEF IInv, TypeOK, streamVars
<1> QED
  BY <1>1, <1>2, <1>3 DEF IInv

LEMMA CallFailsSound ==
  ASSUME IInv, NEW w \in Workers, CallFails(w)
  PROVE  IInv'
<1> USE DEF CallFails, Caught
<1>1. GroupSound' /\ OnlyMembersStored' /\ NothingLost'
  BY DataSound, GroupExists DEF Handling
<1>2. /\ pc' \in [Workers -> PC] /\ batch' \in [Workers -> Seq(Nat)]
      /\ recovering' \in [Workers -> BOOLEAN]
      /\ UNCHANGED <<cursor, brokeOff, row>>
      /\ \A v \in Workers : BatchSound(v)' /\ StepSound(v)'
  BY NextEntrySound
<1>3. TypeOK'
  BY <1>2 DEF IInv, TypeOK, streamVars
<1> QED
  BY <1>1, <1>2, <1>3 DEF IInv

\* The only entry an XACK takes off the pending list is one that is finished.
LEMMA AckSound ==
  ASSUME IInv, NEW w \in Workers, Ack(w)
  PROVE  IInv'
<1> USE DEF Ack
<1>1. group
  BY GroupExists
<1>2. GroupSound' /\ OnlyMembersStored'
  BY <1>1 DEF IInv, GroupSound, OnlyMembersStored, Deliverable, streamVars
<1>3. NothingLost'
  <2>1. Finished(Current(w))
    BY DEF IInv, StepSound
  <2>2. Settled' \subseteq Settled \cup {Current(w)}
    BY DEF Settled, streamVars
  <2>3. \A i \in Settled' : Finished(i)
    BY <2>1, <2>2 DEF IInv, NothingLost
  <2> QED
    BY <2>3 DEF NothingLost, Finished, Deliverable, streamVars
<1>4. /\ pc' \in [Workers -> PC] /\ batch' \in [Workers -> Seq(Nat)]
      /\ recovering' \in [Workers -> BOOLEAN]
      /\ UNCHANGED <<cursor, brokeOff, row>>
      /\ \A v \in Workers : BatchSound(v)' /\ StepSound(v)'
  BY NextEntrySound DEF Handling
<1>5. TypeOK'
  BY <1>4 DEF IInv, TypeOK, streamVars
<1> QED
  BY <1>2, <1>3, <1>4, <1>5 DEF IInv
\* Counting a delivery keeps one counter per entry.
LEMMA RedeliveredType ==
  ASSUME TypeOK, NEW S
  PROVE  Redelivered(S) \in Seq(Nat) /\ Len(Redelivered(S)) = Len(deliveries)
<1>1. deliveries \in Seq(Nat) /\ DOMAIN deliveries = 1..Len(deliveries)
      /\ Len(deliveries) \in Nat
      /\ \A i \in 1..Len(deliveries) : deliveries[i] \in Nat
  BY LenProperties, ElementOfSeq DEF TypeOK
<1> QED
  BY <1>1 DEF Redelivered

\* XREADGROUP hands out the next ids, which no one had before.
LEMMA DeliverSound ==
  ASSUME IInv, group, Deliver
  PROVE  LET n == Cardinality(NewEntries) IN
         /\ n \in Nat \ {0} /\ lastDelivered' = lastDelivered + n
         /\ lastDelivered' \in Nat /\ lastDelivered <= lastDelivered'
         /\ NewEntries = (lastDelivered + 1)..(lastDelivered + n)
         /\ Settled' = Settled
         /\ pending' \subseteq Nat /\ stale' \subseteq pending'
         /\ deliveries' \in Seq(Nat)
         /\ GroupSound' /\ OnlyMembersStored' /\ NothingLost'
<1> DEFINE n == Cardinality(NewEntries)
           hi == IF Len(stream) - lastDelivered < BatchSize
                 THEN Len(stream) ELSE lastDelivered + BatchSize
<1> USE DEF Deliver
<1>1. /\ lastDelivered \in Nat /\ Len(stream) \in Nat /\ lastDelivered <= Len(stream)
      /\ BatchSize \in Nat \ {0}
  BY SizesAssumption, LenProperties DEF IInv, TypeOK, GroupSound
<1>2. hi \in Nat /\ lastDelivered <= hi /\ hi <= Len(stream)
  BY <1>1
<1>3. NewEntries = (lastDelivered + 1)..hi
  BY DEF NewEntries
<1>4. lastDelivered < hi
  <2>1. PICK i : i \in NewEntries
    OBVIOUS
  <2>2. i \in (lastDelivered + 1)..hi
    BY <2>1, <1>3
  <2> HIDE DEF hi
  <2> QED
    BY <2>2, <1>1, <1>2
<1>5. n = hi - lastDelivered
  <2> HIDE DEF hi
  <2>1. Cardinality((lastDelivered + 1)..hi) = hi - (lastDelivered + 1) + 1
    BY <1>1, <1>2, <1>4, FS_Interval
  <2> QED
    BY <2>1, <1>1, <1>2, <1>3
<1>6. /\ n \in Nat \ {0} /\ lastDelivered' = lastDelivered + n
      /\ lastDelivered' \in Nat /\ lastDelivered <= lastDelivered'
      /\ NewEntries = (lastDelivered + 1)..(lastDelivered + n)
      /\ lastDelivered' <= Len(stream)
  BY <1>1, <1>2, <1>3, <1>4, <1>5
<1> HIDE DEF n, hi
<1>7. /\ NewEntries \subseteq 1..lastDelivered'
      /\ 1..lastDelivered' = (1..lastDelivered) \cup NewEntries
      /\ (1..lastDelivered) \cap NewEntries = {}
  BY <1>1, <1>6
<1>8. Settled' = Settled
  BY <1>7 DEF Settled
<1>9. pending' \subseteq 1..lastDelivered' /\ stale' \subseteq pending'
  BY <1>7 DEF IInv, TypeOK, GroupSound
<1>10. deliveries' \in Seq(Nat) /\ Len(deliveries') = Len(deliveries)
  BY RedeliveredType DEF IInv
<1>11. GroupSound'
  BY <1>6, <1>9, <1>10 DEF IInv, GroupSound
<1>12. OnlyMembersStored'
  BY <1>7 DEF IInv, OnlyMembersStored, Deliverable
<1>13. NothingLost'
  BY <1>8 DEF IInv, NothingLost, Finished, Deliverable
<1> QED
  BY <1>6, <1>8, <1>9, <1>10, <1>11, <1>12, <1>13 DEF n

LEMMA ReadLostSound ==
  ASSUME IInv, NEW w \in Workers, ReadLost(w)
  PROVE  IInv'
<1> USE DEF ReadLost, workerVars
<1>1. group
  BY GroupExists
<1>2. /\ lastDelivered' \in Nat /\ lastDelivered <= lastDelivered'
      /\ pending' \subseteq Nat /\ stale' \subseteq pending'
      /\ deliveries' \in Seq(Nat)
      /\ GroupSound' /\ OnlyMembersStored' /\ NothingLost'
  BY <1>1, DeliverSound
<1>3. stream' = stream /\ rows' = rows /\ announced' = announced /\ group' = group
  BY DEF Deliver
<1>4. TypeOK'
  BY <1>2, <1>3 DEF IInv, TypeOK
<1>5. ASSUME NEW v \in Workers PROVE BatchSound(v)' /\ StepSound(v)'
  BY <1>2, <1>3, OtherWorkerSound
<1> QED
  BY <1>2, <1>4, <1>5 DEF IInv

LEMMA ReadSound ==
  ASSUME IInv, NEW w \in Workers, Read(w)
  PROVE  IInv'
<1> USE DEF Read
<1> DEFINE n == Cardinality(NewEntries)
           q == [k \in 1..n |-> lastDelivered + k]
<1>1. group
  BY GroupExists
<1>2. /\ n \in Nat \ {0} /\ lastDelivered' = lastDelivered + n
      /\ lastDelivered' \in Nat /\ lastDelivered <= lastDelivered'
      /\ pending' \subseteq Nat /\ stale' \subseteq pending'
      /\ deliveries' \in Seq(Nat)
      /\ GroupSound' /\ OnlyMembersStored' /\ NothingLost'
  BY <1>1, DeliverSound
<1>3. stream' = stream /\ rows' = rows /\ announced' = announced /\ group' = group
  BY DEF Deliver
<1>4. batch' = [batch EXCEPT ![w] = q]
  OBVIOUS
<1>5. lastDelivered \in Nat
  BY DEF IInv, TypeOK
<1> HIDE DEF n
<1>6. /\ q \in Seq(Nat) /\ Len(q) = n /\ q # <<>>
      /\ \A k \in 1..n : q[k] \in 1..lastDelivered'
  BY <1>2, <1>5
<1> HIDE DEF q
<1>7. TypeOK'
  BY <1>2, <1>3, <1>4, <1>6 DEF IInv, TypeOK, Goto, PC
<1>8. BatchSound(w)' /\ StepSound(w)'
  <2>1. pc'[w] = "entry" /\ batch'[w] = q
    BY <1>4 DEF IInv, TypeOK, Goto
  <2> QED
    BY <2>1, <1>6 DEF BatchSound, StepSound
<1>9. ASSUME NEW v \in Workers, v # w PROVE BatchSound(v)' /\ StepSound(v)'
  <2>1. pc'[v] = pc[v] /\ batch'[v] = batch[v] /\ row'[v] = row[v]
    BY <1>4, <1>9 DEF IInv, TypeOK, Goto
  <2> QED
    BY <2>1, <1>2, <1>3, OtherWorkerSound
<1> QED
  BY <1>2, <1>7, <1>8, <1>9 DEF IInv
\* XAUTOCLAIM hands out pending ids only, as a non-empty sequence.
LEMMA ClaimedInOrder ==
  ASSUME IInv, NEW from, NEW S, S = Claimed(from), S # {}, NEW q \in InOrder(S)
  PROVE  /\ S \subseteq 1..lastDelivered
         /\ q \in Seq(Nat) /\ q # <<>> /\ Len(q) \in DOMAIN q
         /\ \A k \in 1..Len(q) : q[k] \in 1..lastDelivered
<1>1. S \subseteq 1..lastDelivered /\ lastDelivered \in Nat
  BY DEF Claimed, Scanned, Ahead, IInv, TypeOK, GroupSound
<1>2. IsFiniteSet(S)
  BY <1>1, FS_Interval, FS_Subset
<1>3. Cardinality(S) \in Nat \ {0}
  BY <1>2, FS_CardinalityType, FS_EmptySet
<1>4. q \in [1..Cardinality(S) -> S]
  BY DEF InOrder
<1>5. q \in Seq(Nat) /\ Len(q) = Cardinality(S)
  BY <1>1, <1>3, <1>4
<1>6. q # <<>> /\ DOMAIN q = 1..Len(q) /\ Len(q) \in DOMAIN q
  BY <1>3, <1>4, <1>5, EmptySeq
<1>7. \A k \in 1..Len(q) : q[k] \in 1..lastDelivered
  BY <1>1, <1>4, <1>5
<1> QED
  BY <1>1, <1>5, <1>6, <1>7

\* The start id of a reply is a pending entry or 0-0.
LEMMA NextStartType ==
  ASSUME IInv, NEW start
  PROVE  NextStart(start) \subseteq Nat
<1>1. pending \subseteq Nat
  BY DEF IInv, TypeOK
<1>2. Ahead(start) \subseteq Nat
  BY <1>1 DEF Ahead
<1>3. 0 \in Nat
  OBVIOUS
<1> QED
  BY <1>2, <1>3 DEF NextStart

LEMMA ClaimSound ==
  ASSUME IInv, NEW w \in Workers, Claim(w)
  PROVE  IInv'
<1> DEFINE S == Claimed(cursor[w])
<1>1. /\ pc[w] = "claim" /\ UNCHANGED streamVars
      /\ UNCHANGED <<pending, rows, announced, row, crashes, faults>>
  BY DEF Claim
<1>2. group
  BY <1>1, GroupExists
<1>0. cursor' \in [Workers -> Nat] /\ brokeOff' \in [Workers -> Nat]
  BY NextStartType DEF Claim, IInv, TypeOK
<1>3. ASSUME Goto(w, "read"),
             recovering' = [recovering EXCEPT ![w] = FALSE],
             UNCHANGED <<stale, deliveries, batch>>
      PROVE  IInv'
  <2>1. GroupSound' /\ OnlyMembersStored' /\ NothingLost'
    BY <1>1, <1>2, <1>3, DataSound
  <2>2. TypeOK'
    BY <1>1, <1>0, <1>3 DEF IInv, TypeOK, Goto, PC, streamVars
  <2>3. BatchSound(w)' /\ StepSound(w)'
    BY <1>1, <1>3 DEF IInv, TypeOK, BatchSound, StepSound, Handling, Goto, streamVars
  <2>4. ASSUME NEW v \in Workers, v # w PROVE BatchSound(v)' /\ StepSound(v)'
    <3>1. pc'[v] = pc[v]
      BY <1>3, <2>4 DEF IInv, TypeOK, Goto
    <3>2. /\ batch'[v] = batch[v] /\ row'[v] = row[v]
          /\ stream' = stream /\ rows' = rows /\ announced \subseteq announced'
      BY <1>1, <1>3, <2>4 DEF streamVars, workerVars
    <3>3. lastDelivered' \in Nat /\ lastDelivered <= lastDelivered'
      BY <1>1, <1>3, <2>4 DEF IInv, TypeOK, streamVars
    <3> QED
      BY <3>1, <3>2, <3>3, OtherWorkerSound
  <2> QED
    BY <2>1, <2>2, <2>3, <2>4 DEF IInv
<1>4. ASSUME S # {}, Goto(w, "entry"), stale' = stale \ S,
             deliveries' = Redelivered(S), UNCHANGED recovering,
             NEW q \in InOrder(S),
             batch' = [batch EXCEPT ![w] = q]
      PROVE  IInv'
  <2>1. /\ q \in Seq(Nat) /\ q # <<>>
        /\ \A k \in 1..Len(q) : q[k] \in 1..lastDelivered
    BY <1>4, ClaimedInOrder
  <2>2. deliveries' \in Seq(Nat) /\ Len(deliveries') = Len(deliveries)
    BY <1>4, RedeliveredType DEF IInv
  <2>3. GroupSound' /\ OnlyMembersStored' /\ NothingLost'
    BY <1>1, <1>2, <2>2, DataSound
  <2> HIDE DEF S
  <2>4. TypeOK'
    BY <1>1, <1>0, <1>4, <2>1, <2>2 DEF IInv, TypeOK, Goto, PC, streamVars
  <2>5. BatchSound(w)' /\ StepSound(w)'
    <3>1. pc'[w] = "entry" /\ batch'[w] = q
      BY <1>4 DEF IInv, TypeOK, Goto
    <3> QED
      BY <3>1, <2>1, <1>1 DEF BatchSound, StepSound, streamVars
  <2>6. ASSUME NEW v \in Workers, v # w PROVE BatchSound(v)' /\ StepSound(v)'
    <3>1. pc'[v] = pc[v] /\ batch'[v] = batch[v] /\ row'[v] = row[v]
      BY <1>1, <1>4, <2>6 DEF IInv, TypeOK, Goto
    <3>2. /\ stream' = stream /\ lastDelivered' = lastDelivered /\ lastDelivered \in Nat
          /\ lastDelivered <= lastDelivered' /\ rows' = rows /\ announced' = announced
      BY <1>1 DEF streamVars, IInv, TypeOK
    <3> QED
      BY <3>1, <3>2, OtherWorkerSound
  <2> QED
    BY <2>3, <2>4, <2>5, <2>6 DEF IInv
<1>5. \/ /\ Goto(w, "read")
         /\ recovering' = [recovering EXCEPT ![w] = FALSE]
         /\ UNCHANGED <<stale, deliveries, batch>>
      \/ /\ S # {} /\ Goto(w, "entry") /\ stale' = stale \ S
         /\ deliveries' = Redelivered(S) /\ UNCHANGED recovering
         /\ \E q \in InOrder(S) : batch' = [batch EXCEPT ![w] = q]
  BY DEF Claim
<1> HIDE DEF S
<1> QED
  BY <1>3, <1>4, <1>5

-----------------------------------------------------------------------------
(* The theorems *)

LEMMA StepKeepsIInv == IInv /\ [Next]_vars => IInv'
<1> SUFFICES ASSUME IInv, [Next]_vars PROVE IInv'
  OBVIOUS
<1>1. CASE UNCHANGED vars
  BY <1>1 DEF vars, IInv, TypeOK, GroupSound, OnlyMembersStored, NothingLost,
       BatchSound, StepSound, Settled, Finished, Deliverable, Current
<1>2. ASSUME NEW w \in Workers, NEW e \in Entry, SendMessage(w, e) PROVE IInv'
  BY <1>2, SendMessageSound
<1>3. ASSUME NEW w \in Workers, Start(w) PROVE IInv'
  BY <1>3, BootSound, ClaimSound, ClaimFailsSound DEF Start
<1>4. ASSUME NEW w \in Workers, Consume(w) PROVE IInv'
  BY <1>1, <1>4, ReadSound, ReadLostSound DEF Consume, ReadNothing
<1>5. ASSUME NEW w \in Workers, Process(w) PROVE IInv'
  BY <1>5, LookupSound, ParseFailsSound, SaveSound, PublishSound, AckSound
     DEF Process
<1>6. ASSUME NEW w \in Workers, Fault(w) PROVE IInv'
  BY <1>6, CallFailsSound, SaveUnconfirmedSound, PublishUnconfirmedSound DEF Fault
<1>7. ASSUME NEW w \in Workers, Crash(w) PROVE IInv'
  BY <1>7, CrashSound
<1>8. ASSUME NEW i \in pending, Age(i) PROVE IInv'
  BY <1>8, AgeSound
<1> QED
  BY <1>1, <1>2, <1>3, <1>4, <1>5, <1>6, <1>7, <1>8 DEF Next

\* The inductive invariant holds throughout.
THEOREM Invariance == Spec => []IInv
<1>1. Init => IInv
  BY InitSound
<1>2. IInv /\ [Next]_vars => IInv'
  BY StepKeepsIInv
<1> QED
  BY <1>1, <1>2, PTL DEF Spec

\* Every variable keeps its type.
THEOREM TypeCorrect == Spec => []TypeOK
<1>1. IInv => TypeOK
  BY DEF IInv
<1> QED
  BY <1>1, Invariance, PTL

\* An acknowledged message was saved and published, or may not be delivered.
THEOREM NothingIsLost == Spec => []NothingLost
<1>1. IInv => NothingLost
  BY DEF IInv
<1> QED
  BY <1>1, Invariance, PTL

\* Only messages of members of a conversation are saved, only saved rows published.
THEOREM OnlyMembersAreStored == Spec => []OnlyMembersStored
<1>1. IInv => OnlyMembersStored
  BY DEF IInv
<1> QED
  BY <1>1, Invariance, PTL
-----------------------------------------------------------------------------
(* No row without a delivery of its own *)

\* What a worker at p with batch b has still to insert: the entries of the batch,
\* without the current one once it has its row or may not have one.
ToInsert(p, b) ==
  {b[k] : k \in {n \in 1..Len(b) : \/ p \in {"entry", "save"}
                                   \/ p \in {"publish", "ack"} /\ n > 1}}

\* The workers that may still insert a row for entry i.
Owing(i) == {w \in Workers : i \in ToInsert(pc[w], batch[w])}

\* A batch holds no entry twice: ids are handed out in ascending order.
Ascending(b) == \A m, n \in 1..Len(b) : m < n => b[m] < b[n]

\* Each delivery of an entry pays for one insert: those done and those owed are no
\* more than the deliveries.
Paid(i) ==
  /\ IsFiniteSet(Owing(i))
  /\ IsFiniteSet(RowsOf(i))
  /\ Cardinality(RowsOf(i)) + Cardinality(Owing(i)) <= deliveries[i]

CountInv ==
  /\ \A w \in Workers : Ascending(batch[w])
  /\ \A i \in Ids : Paid(i)

\* The arithmetic of an insert: one more row, one worker less that owes it.
LEMMA OneMoved ==
  ASSUME NEW R, NEW O, NEW x, NEW y, IsFiniteSet(R), IsFiniteSet(O), y \in O,
         NEW P \in SUBSET (O \ {y}), NEW d, Cardinality(R) + Cardinality(O) <= d, d \in Nat
  PROVE  /\ IsFiniteSet(R \cup {x}) /\ IsFiniteSet(P)
         /\ Cardinality(R \cup {x}) + Cardinality(P) <= d
<1>1. /\ IsFiniteSet(R \cup {x})
      /\ Cardinality(R \cup {x}) = IF x \in R THEN Cardinality(R) ELSE Cardinality(R) + 1
  BY FS_AddElement
<1>2. /\ IsFiniteSet(O \ {y}) /\ Cardinality(O \ {y}) = Cardinality(O) - 1
  BY FS_RemoveElement
<1>3. IsFiniteSet(P) /\ Cardinality(P) <= Cardinality(O \ {y})
  BY <1>2, FS_Subset
<1>4. /\ Cardinality(R) \in Nat /\ Cardinality(O) \in Nat /\ Cardinality(P) \in Nat
      /\ Cardinality(R \cup {x}) \in Nat
  BY <1>1, <1>3, FS_CardinalityType
<1> QED
  BY <1>1, <1>2, <1>3, <1>4

\* What is left to insert after the current entry.
LEMMA RestOwed ==
  ASSUME NEW b \in Seq(Nat), b # <<>>, Ascending(b), NEW p, NEW q
  PROVE  /\ Ascending(Tail(b))
         /\ Head(b) \notin ToInsert(p, Tail(b))
         /\ p \in Handling => ToInsert(q, Tail(b)) \subseteq ToInsert(p, b)
         /\ p \in {"publish", "ack"} => Head(b) \notin ToInsert(p, b)
         /\ p \in {"publish", "ack"} => ToInsert(p, b) \subseteq ToInsert(q, b) \/ q \notin Handling
         /\ p \in {"entry", "save"} => Head(b) \in ToInsert(p, b)
<1>1. /\ Len(b) \in Nat /\ Len(b) # 0 /\ Tail(b) \in Seq(Nat) /\ Head(b) = b[1]
      /\ Len(Tail(b)) = Len(b) - 1
      /\ \A k \in 1..Len(Tail(b)) : Tail(b)[k] = b[k + 1]
  BY HeadTailProperties, LenProperties, EmptySeq
<1>2. \A k \in 1..Len(b) : b[k] \in Nat
  BY ElementOfSeq
<1>3. \A k \in 1..Len(Tail(b)) : k + 1 \in 1..Len(b) /\ k + 1 > 1
  BY <1>1
<1>4. \A k \in 2..Len(b) : b[1] < b[k]
  BY <1>1 DEF Ascending
<1>5. Ascending(Tail(b))
  <2> SUFFICES ASSUME NEW m \in 1..Len(Tail(b)), NEW n \in 1..Len(Tail(b)), m < n
               PROVE  Tail(b)[m] < Tail(b)[n]
    BY DEF Ascending
  <2>1. m + 1 \in 1..Len(b) /\ n + 1 \in 1..Len(b) /\ m + 1 < n + 1
    BY <1>1
  <2> QED
    BY <2>1, <1>1 DEF Ascending
<1>6. Head(b) \notin ToInsert(p, Tail(b))
  <2> SUFFICES ASSUME NEW k \in 1..Len(Tail(b)), Tail(b)[k] = Head(b) PROVE FALSE
    BY DEF ToInsert
  <2>1. b[k + 1] = b[1] /\ k + 1 \in 2..Len(b) /\ b[1] \in Nat /\ 1 \in 1..Len(b)
    BY <1>1, <1>2
  <2> QED
    BY <2>1, <1>4, <1>2
<1>7. ASSUME p \in Handling PROVE ToInsert(q, Tail(b)) \subseteq ToInsert(p, b)
  BY <1>1, <1>3, <1>7 DEF ToInsert, Handling
<1>8. ASSUME p \in {"publish", "ack"} PROVE Head(b) \notin ToInsert(p, b)
  <2> SUFFICES ASSUME NEW k \in 1..Len(b), k > 1, b[k] = Head(b) PROVE FALSE
    BY <1>8 DEF ToInsert
  <2>1. k \in 2..Len(b) /\ b[1] \in Nat /\ b[k] \in Nat
    BY <1>1, <1>2
  <2> QED
    BY <2>1, <1>1, <1>4
<1>9. ASSUME p \in {"publish", "ack"}, q \in Handling
      PROVE  ToInsert(p, b) \subseteq ToInsert(q, b)
  BY <1>9 DEF ToInsert, Handling
<1>10. ASSUME p \in {"entry", "save"} PROVE Head(b) \in ToInsert(p, b)
  BY <1>1, <1>10 DEF ToInsert
<1> QED
  BY <1>5, <1>6, <1>7, <1>8, <1>9, <1>10

\* Steps without an insert or a hand-out: no worker owes more than before.
LEMMA PaidKept ==
  ASSUME IInv, CountInv, UNCHANGED <<stream, deliveries, rows>>,
         \A v \in Workers : /\ ToInsert(pc'[v], batch'[v]) \subseteq ToInsert(pc[v], batch[v])
                            /\ Ascending(batch'[v])
  PROVE  CountInv'
<1>1. ASSUME NEW i \in Ids PROVE Paid(i)'
  <2>1. Owing(i)' \subseteq Owing(i)
    BY DEF Owing
  <2>2. IsFiniteSet(Owing(i)') /\ Cardinality(Owing(i)') <= Cardinality(Owing(i))
    BY <2>1, FS_Subset DEF CountInv, Paid
  <2>3. /\ Cardinality(Owing(i)) \in Nat /\ Cardinality(Owing(i)') \in Nat
        /\ Cardinality(RowsOf(i)) \in Nat
    BY <2>2, FS_CardinalityType DEF CountInv, Paid
  <2>4. deliveries[i] \in Nat
    BY ElementOfSeq DEF IInv, TypeOK, GroupSound, Ids
  <2>5. RowsOf(i)' = RowsOf(i) /\ deliveries'[i] = deliveries[i]
    BY DEF RowsOf
  <2> HIDE DEF Owing, RowsOf
  <2> QED
    BY <2>2, <2>3, <2>4, <2>5 DEF CountInv, Paid
<1> QED
  BY <1>1 DEF CountInv, Ids, Ascending

\* One worker with empty hands, or none, is handed entries, each with a delivery.
LEMMA PaidHandedOut ==
  ASSUME IInv, CountInv, NEW w \in Workers, NEW S,
         ToInsert(pc[w], batch[w]) = {},
         ToInsert(pc'[w], batch'[w]) \subseteq S,
         Ascending(batch'[w]),
         \A v \in Workers \ {w} : pc'[v] = pc[v] /\ batch'[v] = batch[v],
         deliveries' = Redelivered(S), UNCHANGED <<stream, rows>>
  PROVE  CountInv'
<1>1. ASSUME NEW i \in Ids PROVE Paid(i)'
  <2>1. /\ deliveries[i] \in Nat /\ i \in DOMAIN deliveries
    BY ElementOfSeq, LenProperties DEF IInv, TypeOK, GroupSound, Ids
  <2>2. deliveries'[i] = deliveries[i] + (IF i \in S THEN 1 ELSE 0)
    BY <2>1 DEF Redelivered
  <2>3. RowsOf(i)' = RowsOf(i)
    BY DEF RowsOf
  <2>4. IsFiniteSet(Owing(i)) /\ IsFiniteSet(RowsOf(i))
        /\ Cardinality(RowsOf(i)) + Cardinality(Owing(i)) <= deliveries[i]
    BY DEF CountInv, Paid
  <2>5. Owing(i)' \subseteq Owing(i) \cup (IF i \in S THEN {w} ELSE {})
    BY DEF Owing
  <2>6. CASE i \in S
    <3>1. /\ IsFiniteSet(Owing(i) \cup {w})
          /\ Cardinality(Owing(i) \cup {w}) \in Nat
          /\ Cardinality(Owing(i) \cup {w}) <= Cardinality(Owing(i)) + 1
      <4>1. /\ IsFiniteSet(Owing(i) \cup {w})
            /\ Cardinality(Owing(i) \cup {w}) =
                 IF w \in Owing(i) THEN Cardinality(Owing(i)) ELSE Cardinality(Owing(i)) + 1
        BY <2>4, FS_AddElement
      <4>2. /\ Cardinality(Owing(i)) \in Nat
            /\ Cardinality(Owing(i) \cup {w}) \in Nat
        BY <2>4, <4>1, FS_CardinalityType
      <4> QED
        BY <4>1, <4>2
    <3>2. /\ IsFiniteSet(Owing(i)')
          /\ Cardinality(Owing(i)') <= Cardinality(Owing(i) \cup {w})
      BY <2>5, <2>6, <3>1, FS_Subset
    <3>3. /\ Cardinality(Owing(i)) \in Nat /\ Cardinality(Owing(i)') \in Nat
          /\ Cardinality(RowsOf(i)) \in Nat
      BY <2>4, <3>2, FS_CardinalityType
    <3> QED
      BY <2>1, <2>2, <2>3, <2>4, <2>6, <3>1, <3>2, <3>3 DEF Paid
  <2>7. CASE i \notin S
    <3>1. IsFiniteSet(Owing(i)') /\ Cardinality(Owing(i)') <= Cardinality(Owing(i))
      BY <2>4, <2>5, <2>7, FS_Subset
    <3>2. /\ Cardinality(Owing(i)) \in Nat /\ Cardinality(Owing(i)') \in Nat
          /\ Cardinality(RowsOf(i)) \in Nat
      BY <2>4, <3>1, FS_CardinalityType
    <3> QED
      BY <2>1, <2>2, <2>3, <2>4, <2>7, <3>1, <3>2 DEF Paid
  <2> QED
    BY <2>6, <2>7
<1>2. \A v \in Workers : Ascending(batch'[v])
  BY DEF CountInv, Ascending
<1> QED
  BY <1>1, <1>2 DEF CountInv, Ids, Ascending

\* An insert is one the worker owed, and it owes it no longer.
LEMMA PaidInserted ==
  ASSUME IInv, CountInv, NEW w \in Workers, pc[w] = "save",
         rows' = Append(rows, Current(w)), UNCHANGED <<stream, deliveries>>,
         ToInsert(pc'[w], batch'[w]) \subseteq ToInsert(pc[w], batch[w]) \ {Current(w)},
         Ascending(batch'[w]),
         \A v \in Workers \ {w} : pc'[v] = pc[v] /\ batch'[v] = batch[v]
  PROVE  CountInv'
<1> DEFINE c == Current(w)
           n == Len(rows) + 1
<1>1. /\ rows \in Seq(Nat) /\ Len(rows) \in Nat /\ DOMAIN rows = 1..Len(rows)
      /\ c \in Ids /\ c \in Nat
  BY CurrentHandedOut, LenProperties DEF IInv, TypeOK, Handling, Ids
<1>2. c \in ToInsert(pc[w], batch[w])
  BY RestOwed, CurrentHandedOut DEF CountInv, Current, Handling
<1>3. /\ rows' \in Seq(Nat) /\ DOMAIN rows' = 1..n /\ rows'[n] = c
      /\ \A r \in 1..Len(rows) : rows'[r] = rows[r]
  BY <1>1, AppendProperties, LenProperties
<1>4. /\ 1..n = 1..Len(rows) \cup {n} /\ n \notin 1..Len(rows)
  BY <1>1
<1>5. \A v \in Workers \ {w} : ToInsert(pc'[v], batch'[v]) = ToInsert(pc[v], batch[v])
  OBVIOUS
<1> HIDE DEF c, n
<1>6. ASSUME NEW i \in Ids PROVE Paid(i)'
  <2>1. deliveries[i] \in Nat /\ deliveries'[i] = deliveries[i]
    BY ElementOfSeq DEF IInv, TypeOK, GroupSound, Ids
  <2>2. IsFiniteSet(Owing(i)) /\ IsFiniteSet(RowsOf(i))
        /\ Cardinality(RowsOf(i)) + Cardinality(Owing(i)) <= deliveries[i]
    BY DEF CountInv, Paid
  <2>3. CASE i = c
    <3>1. RowsOf(i)' = RowsOf(i) \cup {n}
      BY <1>1, <1>3, <1>4, <2>3 DEF RowsOf
    <3>2. w \in Owing(i) /\ Owing(i)' \subseteq Owing(i) \ {w}
      BY <1>2, <1>5, <2>3 DEF Owing, c
    <3> HIDE DEF Owing, RowsOf
    <3>3. /\ IsFiniteSet(RowsOf(i) \cup {n}) /\ IsFiniteSet(Owing(i)')
          /\ Cardinality(RowsOf(i) \cup {n}) + Cardinality(Owing(i)') <= deliveries[i]
      BY <2>1, <2>2, <3>2, OneMoved
    <3> QED
      BY <2>1, <3>1, <3>3 DEF Paid
  <2>4. CASE i # c
    <3>1. RowsOf(i)' = RowsOf(i)
      BY <1>1, <1>3, <1>4, <2>4 DEF RowsOf
    <3>2. Owing(i)' \subseteq Owing(i)
      BY <1>5 DEF Owing
    <3>3. IsFiniteSet(Owing(i)') /\ Cardinality(Owing(i)') <= Cardinality(Owing(i))
      BY <2>2, <3>2, FS_Subset
    <3>4. /\ Cardinality(Owing(i)) \in Nat /\ Cardinality(Owing(i)') \in Nat
          /\ Cardinality(RowsOf(i)) \in Nat
      BY <2>2, <3>3, FS_CardinalityType
    <3> QED
      BY <2>1, <2>2, <3>1, <3>3, <3>4 DEF Paid
  <2> QED
    BY <2>3, <2>4
<1>7. \A v \in Workers : Ascending(batch'[v])
  BY DEF CountInv, Ascending
<1> QED
  BY <1>6, <1>7 DEF CountInv, Ids, Ascending

\* A new entry has no row and no worker.
LEMMA SendPaid ==
  ASSUME IInv, CountInv, NEW w \in Workers, NEW e \in Entry, SendMessage(w, e)
  PROVE  CountInv'
<1> USE DEF SendMessage, workerVars
<1>1. Len(stream) \in Nat
  BY LenProperties DEF IInv, TypeOK
<1>2. PICK m \in Nat : m = Len(stream) + 1
  BY <1>1
<1>3. /\ lastDelivered \in Nat /\ lastDelivered < m
      /\ Len(stream') = m /\ Len(deliveries) = Len(stream)
      /\ deliveries'[m] = 0 /\ \A i \in Ids : deliveries'[i] = deliveries[i]
  BY <1>1, <1>2, AppendProperties, LenProperties DEF IInv, TypeOK, GroupSound, Ids
<1>4. Ids' = Ids \cup {m}
  BY <1>1, <1>2, <1>3 DEF Ids
<1>5. \A i : RowsOf(i)' = RowsOf(i) /\ Owing(i)' = Owing(i)
  BY DEF RowsOf, Owing
<1>6. RowsOf(m) = {} /\ Owing(m) = {}
  <2>1. RowsOf(m) = {}
    BY <1>3 DEF IInv, OnlyMembersStored, RowsOf
  <2>2. Owing(m) = {}
    BY <1>3 DEF IInv, BatchSound, Owing, ToInsert
  <2> QED
    BY <2>1, <2>2
<1>7. ASSUME NEW i \in Ids PROVE Paid(i)'
  BY <1>3, <1>5 DEF CountInv, Paid
<1>8. Paid(m)'
  <2>1. IsFiniteSet({}) /\ Cardinality({}) = 0
    BY FS_EmptySet
  <2>2. RowsOf(m)' = {} /\ Owing(m)' = {} /\ deliveries'[m] = 0
    BY <1>3, <1>5, <1>6
  <2> HIDE DEF SendMessage, Owing, RowsOf
  <2>3. IsFiniteSet(RowsOf(m)') /\ IsFiniteSet(Owing(m)')
    BY <2>1, <2>2
  <2>4. Cardinality(RowsOf(m)') = 0 /\ Cardinality(Owing(m)') = 0
    BY <2>1, <2>2
  <2>5. Cardinality(RowsOf(m)') + Cardinality(Owing(m)') <= deliveries'[m]
    BY <2>2, <2>4
  <2> QED
    BY <2>3, <2>5 DEF Paid
<1>9. \A v \in Workers : Ascending(batch'[v])
  BY DEF CountInv, Ascending
<1> QED
  BY <1>4, <1>7, <1>8, <1>9 DEF CountInv, Ascending
\* A worker outside processEntry owes nothing, and one without a batch neither.
LEMMA EmptyHanded ==
  ASSUME NEW p, NEW b
  PROVE  /\ p \notin Handling => ToInsert(p, b) = {}
         /\ ToInsert(p, <<>>) = {} /\ Ascending(<<>>)
<1>1. Len(<<>>) = 0
  BY EmptySeq
<1> QED
  BY <1>1 DEF ToInsert, Handling, Ascending

\* Turning to the next entry, the worker owes the rest of its batch at most.
LEMMA NextEntryOwes ==
  ASSUME IInv, CountInv, NEW w \in Workers, pc[w] \in Handling, NextEntry(w)
  PROVE  /\ ToInsert(pc'[w], batch'[w]) \subseteq
              ToInsert(pc[w], batch[w]) \ {Current(w)}
         /\ Ascending(batch'[w])
         /\ \A v \in Workers \ {w} : pc'[v] = pc[v] /\ batch'[v] = batch[v]
<1>1. /\ batch[w] \in Seq(Nat) /\ batch[w] # <<>> /\ Ascending(batch[w])
  BY CurrentHandedOut DEF CountInv
<1>2. batch'[w] = Tail(batch[w])
  BY DEF NextEntry, IInv, TypeOK
<1>3. \A v \in Workers \ {w} : pc'[v] = pc[v] /\ batch'[v] = batch[v]
  BY DEF NextEntry, Goto, IInv, TypeOK
<1>4. \A q : /\ ToInsert(q, Tail(batch[w])) \subseteq ToInsert(pc[w], batch[w])
             /\ Head(batch[w]) \notin ToInsert(q, Tail(batch[w]))
  BY <1>1, RestOwed
<1>5. Ascending(Tail(batch[w]))
  BY <1>1, RestOwed
<1> QED
  BY <1>2, <1>3, <1>4, <1>5 DEF Current

\* Starting, failing and dying.
LEMMA StartPaid ==
  ASSUME IInv, CountInv, NEW w \in Workers,
         Boot(w) \/ ClaimFails(w) \/ ParseFails(w) \/ Crash(w)
  PROVE  CountInv'
<1>1. /\ UNCHANGED <<stream, deliveries, rows>>
      /\ \A v \in Workers \ {w} : pc'[v] = pc[v] /\ batch'[v] = batch[v]
  BY DEF Boot, ClaimFails, ParseFails, Crash, Goto, IInv, TypeOK, streamVars
<1>2. \/ pc'[w] \notin Handling /\ batch'[w] = batch[w]
      \/ batch'[w] = <<>>
  BY DEF Boot, ClaimFails, ParseFails, Crash, Goto, IInv, TypeOK, Handling
<1>3. ToInsert(pc'[w], batch'[w]) = {} /\ Ascending(batch'[w])
  BY <1>2, EmptyHanded DEF CountInv
<1> QED
  BY <1>1, <1>3, PaidKept DEF CountInv

\* The lookup and the publish leave the batch alone.
LEMMA StayPaid ==
  ASSUME IInv, CountInv, NEW w \in Workers, Lookup(w) \/ Publish(w)
  PROVE  CountInv'
<1>1. /\ UNCHANGED <<stream, deliveries, rows, batch>>
      /\ \A v \in Workers \ {w} : pc'[v] = pc[v]
      /\ \/ pc[w] = "entry" /\ pc'[w] \in {"save", "ack"}
         \/ pc[w] = "publish" /\ pc'[w] = "ack"
  BY DEF Lookup, Publish, Goto, IInv, TypeOK, streamVars, workerVars
<1>2. ToInsert(pc'[w], batch[w]) \subseteq ToInsert(pc[w], batch[w])
  BY <1>1 DEF ToInsert
<1> QED
  BY <1>1, <1>2, PaidKept DEF CountInv

\* Acknowledging, or giving up, the current entry.
LEMMA AckPaid ==
  ASSUME IInv, CountInv, NEW w \in Workers,
         Ack(w) \/ CallFails(w) \/ PublishUnconfirmed(w)
  PROVE  CountInv'
<1>1. /\ pc[w] \in Handling /\ NextEntry(w)
      /\ UNCHANGED <<stream, deliveries, rows>>
  BY DEF Ack, CallFails, PublishUnconfirmed, Caught, Handling, streamVars
<1> QED
  BY <1>1, NextEntryOwes, PaidKept DEF CountInv

\* The insert, whether its reply arrives or not.
LEMMA SavePaid ==
  ASSUME IInv, CountInv, NEW w \in Workers, Save(w) \/ SaveUnconfirmed(w)
  PROVE  CountInv'
<1>1. /\ pc[w] = "save" /\ rows' = Append(rows, Current(w))
      /\ UNCHANGED <<stream, deliveries>>
  BY DEF Save, SaveUnconfirmed, Caught, streamVars
<1>2. CASE SaveUnconfirmed(w)
  BY <1>1, <1>2, NextEntryOwes, PaidInserted DEF SaveUnconfirmed, Caught, Handling
<1>3. CASE Save(w)
  <2>1. /\ pc'[w] = "publish" /\ batch'[w] = batch[w]
        /\ \A v \in Workers \ {w} : pc'[v] = pc[v] /\ batch'[v] = batch[v]
    BY <1>3 DEF Save, Goto, IInv, TypeOK
  <2>2. ToInsert("publish", batch[w]) \subseteq ToInsert("save", batch[w])
    BY DEF ToInsert
  <2>3. /\ batch[w] \in Seq(Nat) /\ batch[w] # <<>> /\ Ascending(batch[w])
    BY <1>1, CurrentHandedOut DEF CountInv, Handling
  <2>4. Current(w) \notin ToInsert("publish", batch[w])
    BY <2>3, RestOwed DEF Current
  <2> QED
    BY <1>1, <2>1, <2>2, <2>3, <2>4, PaidInserted
<1> QED
  BY <1>2, <1>3

\* XREADGROUP hands out consecutive ids, or the reply is lost.
LEMMA ReadPaid ==
  ASSUME IInv, CountInv, NEW w \in Workers, Read(w) \/ ReadLost(w)
  PROVE  CountInv'
<1> DEFINE n == Cardinality(NewEntries)
           q == [k \in 1..n |-> lastDelivered + k]
<1>1. pc[w] = "read" /\ Deliver /\ group
  BY GroupExists DEF Read, ReadLost
<1>2. /\ n \in Nat /\ lastDelivered \in Nat
      /\ NewEntries = (lastDelivered + 1)..(lastDelivered + n)
  BY <1>1, DeliverSound DEF IInv, TypeOK
<1>3. /\ deliveries' = Redelivered(NewEntries) /\ UNCHANGED <<stream, rows>>
  BY <1>1 DEF Deliver
<1>4. ToInsert(pc[w], batch[w]) = {}
  BY <1>1, EmptyHanded DEF Handling
<1>5. CASE Read(w)
  <2>1. /\ pc'[w] = "entry" /\ batch'[w] = q
        /\ \A v \in Workers \ {w} : pc'[v] = pc[v] /\ batch'[v] = batch[v]
    BY <1>5 DEF Read, Goto, IInv, TypeOK
  <2> HIDE DEF n
  <2>2. q \in Seq(Nat) /\ Len(q) = n /\ \A k \in 1..n : q[k] = lastDelivered + k
    BY <1>2
  <2> HIDE DEF q
  <2>3. Ascending(q)
    BY <1>2, <2>2 DEF Ascending
  <2>4. ToInsert("entry", q) \subseteq NewEntries
    BY <1>2, <2>2 DEF ToInsert
  <2> QED
    BY <1>3, <1>4, <2>1, <2>3, <2>4, PaidHandedOut
<1>6. CASE ReadLost(w)
  <2>1. UNCHANGED <<pc, batch>>
    BY <1>6 DEF ReadLost, workerVars
  <2>2. Ascending(batch'[w])
    BY <2>1 DEF CountInv
  <2> QED
    BY <1>3, <1>4, <2>1, <2>2, PaidHandedOut
<1> QED
  BY <1>5, <1>6 DEF Read, ReadLost

\* XAUTOCLAIM hands out ids in ascending order.
LEMMA ClaimPaid ==
  ASSUME IInv, CountInv, NEW w \in Workers, Claim(w)
  PROVE  CountInv'
<1> DEFINE S == Claimed(cursor[w])
<1>1. pc[w] = "claim" /\ UNCHANGED <<stream, rows>>
  BY DEF Claim, streamVars
<1>2. ToInsert(pc[w], batch[w]) = {}
  BY <1>1, EmptyHanded DEF Handling
<1>3. \A v \in Workers \ {w} : pc'[v] = pc[v] /\ batch'[v] = batch[v]
  BY DEF Claim, Goto, IInv, TypeOK
<1>4. ASSUME pc'[w] = "read", UNCHANGED <<deliveries, batch>>
      PROVE  CountInv'
  <2>1. ToInsert(pc'[w], batch'[w]) = {}
    BY <1>4, EmptyHanded DEF Handling
  <2> QED
    BY <1>1, <1>3, <1>4, <2>1, PaidKept DEF CountInv
<1>5. ASSUME S # {}, pc'[w] = "entry", deliveries' = Redelivered(S),
             NEW q \in InOrder(S), batch'[w] = q
      PROVE  CountInv'
  <2>1. q \in Seq(Nat) /\ Ascending(q) /\ ToInsert("entry", q) \subseteq S
    <3>1. q \in Seq(Nat)
      BY <1>5, ClaimedInOrder
    <3> HIDE DEF S
    <3>2. DOMAIN q = 1..Len(q) /\ \A k \in DOMAIN q : q[k] \in S
      BY <3>1, LenProperties DEF InOrder
    <3> QED
      BY <3>1, <3>2 DEF InOrder, Ascending, ToInsert
  <2> HIDE DEF S
  <2> QED
    BY <1>1, <1>2, <1>3, <1>5, <2>1, PaidHandedOut
<1>6. \/ pc'[w] = "read" /\ UNCHANGED <<deliveries, batch>>
      \/ /\ S # {} /\ pc'[w] = "entry" /\ deliveries' = Redelivered(S)
         /\ \E q \in InOrder(S) : batch'[w] = q
  BY DEF Claim, Goto, IInv, TypeOK
<1> HIDE DEF S
<1> QED
  BY <1>4, <1>5, <1>6

LEMMA StepKeepsCount == IInv /\ CountInv /\ [Next]_vars => CountInv'
<1> SUFFICES ASSUME IInv, CountInv, [Next]_vars PROVE CountInv'
  OBVIOUS
<1>1. CASE UNCHANGED vars
  BY <1>1, PaidKept DEF vars, CountInv
<1>2. ASSUME NEW w \in Workers, NEW e \in Entry, SendMessage(w, e) PROVE CountInv'
  BY <1>2, SendPaid
<1>3. ASSUME NEW w \in Workers, Start(w) PROVE CountInv'
  BY <1>3, StartPaid, ClaimPaid DEF Start
<1>4. ASSUME NEW w \in Workers, Consume(w) PROVE CountInv'
  BY <1>1, <1>4, ReadPaid DEF Consume, ReadNothing
<1>5. ASSUME NEW w \in Workers, Process(w) PROVE CountInv'
  BY <1>5, StayPaid, StartPaid, SavePaid, AckPaid DEF Process
<1>6. ASSUME NEW w \in Workers, Fault(w) PROVE CountInv'
  BY <1>6, AckPaid, SavePaid DEF Fault
<1>7. ASSUME NEW w \in Workers, Crash(w) PROVE CountInv'
  BY <1>7, StartPaid
<1>8. ASSUME NEW i \in pending, Age(i) PROVE CountInv'
  BY <1>8, PaidKept DEF Age, CountInv, streamVars, workerVars
<1> QED
  BY <1>1, <1>2, <1>3, <1>4, <1>5, <1>6, <1>7, <1>8 DEF Next

\* Every insert done or still owed was paid for by a delivery of the entry.
THEOREM InsertsArePaid == Spec => []CountInv
<1>1. Init => CountInv
  BY EmptyHanded, EmptySeq DEF Init, CountInv, Ids
<1>2. IInv /\ CountInv /\ [Next]_vars => CountInv'
  BY StepKeepsCount
<1> QED
  BY <1>1, <1>2, Invariance, PTL DEF Spec

\* The worker never saves a message more often than Redis delivered its entry.
THEOREM SavedOncePerDelivery == Spec => []SavedAtMostOncePerDelivery
<1>1. IInv /\ CountInv => SavedAtMostOncePerDelivery
  <2> SUFFICES ASSUME IInv, CountInv, NEW i \in Ids
               PROVE  Cardinality(RowsOf(i)) <= deliveries[i]
    BY DEF SavedAtMostOncePerDelivery
  <2>1. /\ IsFiniteSet(Owing(i)) /\ IsFiniteSet(RowsOf(i))
        /\ Cardinality(RowsOf(i)) + Cardinality(Owing(i)) <= deliveries[i]
    BY DEF CountInv, Paid
  <2>2. Cardinality(RowsOf(i)) \in Nat /\ Cardinality(Owing(i)) \in Nat
    BY <2>1, FS_CardinalityType
  <2>3. deliveries[i] \in Nat
    BY ElementOfSeq DEF IInv, TypeOK, GroupSound, Ids
  <2> QED
    BY <2>1, <2>2, <2>3
<1> QED
  BY <1>1, Invariance, InsertsArePaid, PTL
-----------------------------------------------------------------------------
(* The stream and its workers implement DurableDelivery *)

\* What the mapping makes of the entries and of the settled ones, for the steps
\* that neither append to the stream nor acknowledge.
LEMMA MappingKept ==
  ASSUME IInv, [Next]_vars, UNCHANGED stream,
         \A w \in Workers : ~Ack(w)
  PROVE  /\ Ids' = Ids /\ Settled' = Settled
         /\ {i \in Ids : Deliverable(stream[i])}' = {i \in Ids : Deliverable(stream[i])}
<1>1. Ids' = Ids
      /\ {i \in Ids : Deliverable(stream[i])}' = {i \in Ids : Deliverable(stream[i])}
  BY DEF Ids, Deliverable
<1>2. CASE UNCHANGED <<lastDelivered, pending>>
  BY <1>1, <1>2 DEF Settled
<1>3. ASSUME NEW w \in Workers, Boot(w) PROVE UNCHANGED <<lastDelivered, pending>>
  BY <1>3, EmptySeq DEF Boot, IInv, GroupSound
<1>4. ASSUME NEW w \in Workers, Consume(w) PROVE Settled' = Settled
  <2>1. CASE UNCHANGED <<lastDelivered, pending>>
    BY <2>1 DEF Settled
  <2>2. CASE Deliver
    <3>1. group
      BY <1>4, GroupExists DEF Consume, Read, ReadLost, ReadNothing
    <3> QED
      BY <3>1, <2>2, DeliverSound
  <2> QED
    BY <1>4, <2>1, <2>2 DEF Consume, Read, ReadLost, ReadNothing, vars
<1>5. ASSUME NEW w \in Workers, Claim(w) \/ ClaimFails(w) \/ Fault(w) \/ Crash(w)
      PROVE  UNCHANGED <<lastDelivered, pending>>
  BY <1>5 DEF Claim, ClaimFails, Fault, CallFails, SaveUnconfirmed,
       PublishUnconfirmed, Caught, Crash, streamVars
<1>6. ASSUME NEW w \in Workers,
             Lookup(w) \/ ParseFails(w) \/ Save(w) \/ Publish(w)
      PROVE  UNCHANGED <<lastDelivered, pending>>
  BY <1>6 DEF Lookup, ParseFails, Save, Publish, streamVars
<1>7. ASSUME NEW w \in Workers, NEW e \in Entry, SendMessage(w, e)
      PROVE  UNCHANGED <<lastDelivered, pending>>
  BY <1>7 DEF SendMessage
<1>8. ASSUME NEW i \in pending, Age(i) PROVE UNCHANGED <<lastDelivered, pending>>
  BY <1>8 DEF Age, streamVars
<1>9. Settled' = Settled
  <2>1. CASE UNCHANGED vars
    BY <1>2, <2>1 DEF vars
  <2>2. CASE \E i \in pending : Age(i)
    BY <1>2, <1>8, <2>2
  <2>3. ASSUME NEW w \in Workers, Start(w) \/ Process(w) \/ Fault(w) \/ Crash(w)
        PROVE  UNCHANGED <<lastDelivered, pending>>
    BY <1>3, <1>5, <1>6, <2>3 DEF Start, Process
  <2>4. CASE \E w \in Workers : \/ \E e \in Entry : SendMessage(w, e)
                               \/ Start(w) \/ Process(w) \/ Fault(w) \/ Crash(w)
    BY <1>2, <1>7, <2>3, <2>4
  <2>5. CASE \E w \in Workers : Consume(w)
    BY <1>4, <2>5
  <2>6. \/ UNCHANGED vars
        \/ \E i \in pending : Age(i)
        \/ \E w \in Workers : \/ \E e \in Entry : SendMessage(w, e)
                             \/ Start(w) \/ Process(w) \/ Fault(w) \/ Crash(w)
        \/ \E w \in Workers : Consume(w)
    BY DEF Next
  <2> QED
    BY <2>1, <2>2, <2>4, <2>5, <2>6
<1> QED
  BY <1>1, <1>9

\* An acknowledgement settles the current entry, which is finished.
LEMMA AckSettles ==
  ASSUME IInv, NEW w \in Workers, Ack(w)
  PROVE  /\ Current(w) \in Ids /\ Finished(Current(w))
         /\ Settled' = Settled \cup {Current(w)}
<1>1. Current(w) \in 1..lastDelivered /\ Current(w) \in Ids
  BY CurrentHandedOut DEF Ack, Handling
<1>2. Finished(Current(w))
  BY DEF Ack, IInv, StepSound
<1>3. Settled' = Settled \cup {Current(w)}
  BY <1>1 DEF Ack, Settled, streamVars
<1> QED
  BY <1>1, <1>2, <1>3

\* An acknowledged entry never becomes pending again.
THEOREM SettledStays == Spec => SettledForGood
<1>1. IInv /\ [Next]_vars => [Settled \subseteq Settled']_vars
  <2> SUFFICES ASSUME IInv, [Next]_vars PROVE Settled \subseteq Settled'
    OBVIOUS
  <2>1. CASE \E w \in Workers : Ack(w)
    BY <2>1, AckSettles
  <2>2. CASE \E w \in Workers, e \in Entry : SendMessage(w, e)
    BY <2>2 DEF SendMessage, Settled
  <2>3. CASE stream' = stream /\ \A w \in Workers : ~Ack(w)
    BY <2>3, MappingKept
  <2>4. \/ \E w \in Workers : Ack(w)
        \/ \E w \in Workers, e \in Entry : SendMessage(w, e)
        \/ stream' = stream
    BY DEF Next, vars, Start, Boot, Claim, ClaimFails, Consume, Read, ReadLost,
           ReadNothing, Deliver, Process, Lookup, ParseFails, Save, Publish, Fault,
           CallFails, SaveUnconfirmed, PublishUnconfirmed, Caught, Crash, Age,
           streamVars
  <2> QED
    BY <2>1, <2>2, <2>3, <2>4
<1> QED
  BY <1>1, Invariance, PTL DEF Spec, SettledForGood
\* Sending accepts a new message.
LEMMA SendAccepts ==
  ASSUME IInv, NEW w \in Workers, NEW e \in Entry, SendMessage(w, e)
  PROVE  Promise!Next
<1> USE DEF SendMessage
<1> DEFINE m == Len(stream) + 1
           wanted == {i \in Ids : Deliverable(stream[i])}
<1>1. Len(stream) \in Nat /\ MaxEntries \in Nat /\ lastDelivered \in Nat
  BY LenProperties, BoundsAssumption DEF IInv, TypeOK
<1>2. /\ m \in 1..MaxEntries /\ m \notin Ids
      /\ Ids' = Ids \cup {m} /\ \A i \in Ids : stream'[i] = stream[i]
  BY <1>1, AppendProperties DEF IInv, TypeOK, Ids
<1>3. wanted' \in {wanted, wanted \cup {m}}
  <2>1. CASE Deliverable(stream'[m])
    <3>1. wanted' = wanted \cup {m}
      BY <1>2, <2>1 DEF Deliverable
    <3> QED
      BY <3>1
  <2>2. CASE ~Deliverable(stream'[m])
    <3>1. wanted' = wanted
      BY <1>2, <2>2 DEF Deliverable
    <3> QED
      BY <3>1
  <2> QED
    BY <2>1, <2>2
<1>4. Settled' = Settled
  BY DEF Settled
<1>5. Promise!Accept(m)
  BY <1>2, <1>3, <1>4 DEF Promise!Accept
<1> QED
  BY <1>2, <1>5 DEF Promise!Next

\* Every step of the stream and its workers is a step of the promise, or none.
LEMMA StepSimulated ==
  IInv /\ [Next]_vars => [Promise!Next]_(Promise!vars)
<1> SUFFICES ASSUME IInv, [Next]_vars
             PROVE  [Promise!Next]_(Promise!vars)
  OBVIOUS
<1>1. CASE \E w \in Workers, e \in Entry : SendMessage(w, e)
  BY <1>1, SendAccepts
<1>2. ASSUME NEW w \in Workers, Ack(w) PROVE Promise!Next
  <2>1. /\ Current(w) \in Ids /\ Finished(Current(w))
        /\ Settled' = Settled \cup {Current(w)}
    BY <1>2, AckSettles
  <2>2. UNCHANGED <<stream, rows, announced>> /\ Ids' = Ids
    BY <1>2 DEF Ack, streamVars, Ids
  <2>3. Promise!Settle(Current(w))
    BY <2>1, <2>2 DEF Promise!Settle, Finished, Deliverable
  <2> QED
    BY <2>1, <2>3 DEF Promise!Next
<1>3. ASSUME stream' = stream, \A w \in Workers : ~Ack(w)
      PROVE  [Promise!Next]_(Promise!vars)
  <2>1. /\ Ids' = Ids /\ Settled' = Settled
        /\ {i \in Ids : Deliverable(stream[i])}' = {i \in Ids : Deliverable(stream[i])}
    BY <1>3, MappingKept
  <2>2. CASE UNCHANGED <<rows, announced>>
    BY <2>1, <2>2 DEF Promise!vars
  <2>3. ASSUME NEW w \in Workers, Save(w) \/ SaveUnconfirmed(w)
        PROVE  Promise!Next
    <3>1. pc[w] = "save" /\ rows' = Append(rows, Current(w)) /\ announced' = announced
      BY <2>3 DEF Save, SaveUnconfirmed
    <3>2. Current(w) \in Ids /\ Deliverable(stream[Current(w)])
      BY <3>1, CurrentHandedOut DEF Handling, IInv, StepSound
    <3>3. Promise!Store(Current(w))
      BY <2>1, <3>1 DEF Promise!Store
    <3> QED
      BY <3>2, <3>3 DEF Promise!Next
  <2>4. ASSUME NEW w \in Workers, Publish(w) \/ PublishUnconfirmed(w)
        PROVE  Promise!Next
    <3>1. pc[w] = "publish" /\ announced' = announced \cup {row[w]} /\ rows' = rows
      BY <2>4 DEF Publish, PublishUnconfirmed
    <3>2. row[w] \in DOMAIN rows
      BY <3>1 DEF IInv, StepSound
    <3>3. Promise!Announce(row[w])
      BY <2>1, <3>1 DEF Promise!Announce
    <3> QED
      BY <3>2, <3>3 DEF Promise!Next
  <2>5. \/ UNCHANGED <<rows, announced>>
        \/ \E w \in Workers : Save(w) \/ SaveUnconfirmed(w)
        \/ \E w \in Workers : Publish(w) \/ PublishUnconfirmed(w)
    BY <1>3 DEF Next, vars, Start, Boot, Claim, ClaimFails, Consume, Read, ReadLost,
           ReadNothing, Deliver, Process, Lookup, ParseFails, Fault, CallFails, Crash,
           Age, SendMessage, streamVars
  <2> QED
    BY <2>2, <2>3, <2>4, <2>5
<1>4. \/ \E w \in Workers : Ack(w)
      \/ \E w \in Workers, e \in Entry : SendMessage(w, e)
      \/ stream' = stream
  BY DEF Next, vars, Start, Boot, Claim, ClaimFails, Consume, Read, ReadLost,
         ReadNothing, Deliver, Process, Lookup, ParseFails, Save, Publish, Fault,
         CallFails, SaveUnconfirmed, PublishUnconfirmed, Caught, Crash, Age,
         streamVars
<1> QED
  BY <1>1, <1>2, <1>3, <1>4

\* Every behaviour of the stream and its workers is one of at-least-once delivery.
THEOREM Implementation == Spec => ImplementsDurableDelivery
<1>1. Init => Promise!Init
  BY EmptySeq DEF Init, Promise!Init, Ids, Settled
<1>2. IInv /\ [Next]_vars => [Promise!Next]_(Promise!vars)
  BY StepSimulated
<1> QED
  BY <1>1, <1>2, Invariance, PTL DEF Spec, Promise!Spec, ImplementsDurableDelivery
=============================================================================
