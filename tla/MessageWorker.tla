--------------------------- MODULE MessageWorker ---------------------------
(***************************************************************************)
(* The durable half of message delivery: the chat gateway appends every    *)
(* message to the Redis stream chat:messages, and the message worker of    *)
(* each application instance reads the stream through the consumer group   *)
(* chat-workers, saves the message in Postgres, publishes it on            *)
(* chat:outbound and acknowledges the entry.                               *)
(*                                                                         *)
(* Every await of the worker is a step of its own.  A process may die at   *)
(* any step; a call to Redis or Postgres may fail before or after it took  *)
(* effect.  A restarted process claims entries that have been idle for     *)
(* CHAT_STREAM_CLAIM_MIN_IDLE_MS before it reads new ones.                 *)
(***************************************************************************)
EXTENDS Integers, Sequences, FiniteSets

CONSTANTS
  Workers,       \* application instances (one worker and one gateway each)
  Users,         \* the users who send messages
  Convs,         \* conversation ids clients may name, existing or not
  Members,       \* conversation_members: the users of each conversation
  PayloadKinds,  \* subset of BOOLEAN: does the client send dto.payload?
  BatchSize,     \* CHAT_STREAM_BATCH_SIZE
  ClaimBatch,    \* CHAT_STREAM_CLAIM_BATCH_SIZE
  ScanFactor,    \* XAUTOCLAIM looks at this many entries per entry asked for
  MaxEntries,    \* bound: messages sent
  MaxDeliveries, \* bound: deliveries of one entry (an entry without payload
                 \* is claimed, and ends the process, again and again)
  MaxCrashes,    \* bound: process deaths
  MaxFaults      \* bound: failed Redis or Postgres calls

ASSUME MembersAssumption ==
  DOMAIN Members = Convs /\ \A c \in Convs : IsFiniteSet(Members[c])
ASSUME PayloadAssumption == PayloadKinds \subseteq BOOLEAN
ASSUME SizesAssumption ==
  /\ BatchSize \in Nat \ {0}
  /\ ClaimBatch \in Nat \ {0}
  /\ ScanFactor \in Nat \ {0}
ASSUME BoundsAssumption ==
  /\ MaxEntries \in Nat
  /\ MaxDeliveries \in Nat
  /\ MaxCrashes \in Nat
  /\ MaxFaults \in Nat

VARIABLES
  stream,         \* the entries of chat:messages; an entry id is its index
  group,          \* does the consumer group exist?
  lastDelivered,  \* last-delivered-id of the group
  pending,        \* ids in the pending entries list of the group
  stale,          \* those of them idle for at least the minimum idle time
  deliveries,     \* delivery counter of each entry
  rows,           \* messages table: the entry each saved row was made from
  announced,      \* rows published on chat:outbound
  pc,             \* what each worker is waiting for
  recovering,     \* is the worker still in onModuleInit?
  cursor,         \* nextStartId of recoverPendingEntries
  brokeOff,       \* the start id of the empty reply that ended it, 0 if none did
  batch,          \* entries left of the batch in hand, the current one first
  row,            \* savedMessage.id of the current entry
  crashes, faults \* process deaths and failed calls so far

streamVars == <<stream, group, lastDelivered>>
workerVars == <<recovering, cursor, brokeOff, batch, row>>
vars == <<stream, group, lastDelivered, pending, stale, deliveries, rows,
          announced, pc, recovering, cursor, brokeOff, batch, row, crashes, faults>>

Entry == [conv : Convs, sender : Users, payload : PayloadKinds]

\* Where a worker can be: not running, about to XAUTOCLAIM, about to
\* XREADGROUP, or in processEntry before the members query, the insert, the
\* publish and the XACK.
PC == {"down", "claim", "read", "entry", "save", "publish", "ack"}

Handling == {"entry", "save", "publish", "ack"}

\* The three checks of processEntry before a message is saved.
Deliverable(e) ==
  /\ Cardinality(Members[e.conv]) >= 2
  /\ e.sender \in Members[e.conv]
  /\ Members[e.conv] \ {e.sender} # {}

\* NestJS listens only after every onModuleInit has returned.
Serving(w) == pc[w] # "down" /\ ~recovering[w]

Current(w) == Head(batch[w])

Init ==
  /\ stream = <<>> /\ group = FALSE /\ lastDelivered = 0
  /\ pending = {} /\ stale = {} /\ deliveries = <<>>
  /\ rows = <<>> /\ announced = {}
  /\ pc = [w \in Workers |-> "down"]
  /\ recovering = [w \in Workers |-> FALSE]
  /\ cursor = [w \in Workers |-> 0]
  /\ brokeOff = [w \in Workers |-> 0]
  /\ batch = [w \in Workers |-> <<>>]
  /\ row = [w \in Workers |-> 0]
  /\ crashes = 0 /\ faults = 0

Goto(w, l) == pc' = [pc EXCEPT ![w] = l]

-----------------------------------------------------------------------------
(* The gateway *)

\* handleSendMessage: XADD.  An error reply after the XADD took effect leaves
\* the same state, one before it leaves no trace.
SendMessage(w, e) ==
  /\ Serving(w)
  /\ Len(stream) < MaxEntries
  /\ stream' = Append(stream, e)
  /\ deliveries' = Append(deliveries, 0)
  /\ UNCHANGED <<group, lastDelivered, pending, stale, rows, announced, pc,
                 workerVars, crashes, faults>>

-----------------------------------------------------------------------------
(* Starting, reading and claiming *)

\* Mutant: every start sets the group to '$' again.
BootAtEnd(w) ==
  /\ pc[w] = "down"
  /\ group' = TRUE
  /\ lastDelivered' = Len(stream)
  /\ Goto(w, "claim")
  /\ recovering' = [recovering EXCEPT ![w] = TRUE]
  /\ cursor' = [cursor EXCEPT ![w] = 0]
  /\ brokeOff' = [brokeOff EXCEPT ![w] = 0]
  /\ UNCHANGED <<stream, pending, stale, deliveries, rows, announced, batch,
                 row, crashes, faults>>

\* onModuleInit up to the first XAUTOCLAIM: ensureStreamGroup creates the
\* group at '$', the last entry, unless it exists already (BUSYGROUP).
Boot(w) ==
  /\ pc[w] = "down"
  /\ group' = TRUE
  /\ lastDelivered' = IF group THEN lastDelivered ELSE Len(stream)
  /\ Goto(w, "claim")
  /\ recovering' = [recovering EXCEPT ![w] = TRUE]
  /\ cursor' = [cursor EXCEPT ![w] = 0]
  /\ brokeOff' = [brokeOff EXCEPT ![w] = 0]
  /\ UNCHANGED <<stream, pending, stale, deliveries, rows, announced, batch,
                 row, crashes, faults>>

\* Handing out an entry raises its delivery counter.
Redelivered(S) ==
  [i \in DOMAIN deliveries |-> deliveries[i] + IF i \in S THEN 1 ELSE 0]

\* One XAUTOCLAIM looks at the pending entries from the start id on, until it has
\* found ClaimBatch idle ones or has looked at ScanFactor times as many entries.
Ahead(start) == {i \in pending : i >= start}
Scanned(start) ==
  LET before(i, S) == Cardinality({j \in S : j < i})
  IN  {i \in Ahead(start) :
         /\ before(i, Ahead(start)) < ScanFactor * ClaimBatch
         /\ before(i, Ahead(start) \cap stale) < ClaimBatch}

\* The ids it claims: the idle ones among them.
Claimed(start) == Scanned(start) \cap stale

\* A set of entry ids in ascending order, as Redis replies (one element).
InOrder(S) ==
  {q \in [1..Cardinality(S) -> S] : \A m, n \in DOMAIN q : m < n => q[m] < q[n]}

\* The start id it returns (one element): the first pending entry it has not
\* looked at, or 0-0 at the end of the list.
NextStart(start) ==
  LET rest == Ahead(start) \ Scanned(start)
  IN  IF rest = {} THEN {0} ELSE {i \in rest : \A j \in rest : i <= j}

\* One XAUTOCLAIM of recoverPendingEntries.  Claiming resets the idle time.
\* An empty reply ends the recovery, wherever the scan had got to, and the
\* consume loop starts.
Claim(w) ==
  LET S == Claimed(cursor[w]) IN
  /\ pc[w] = "claim"
  /\ \/ /\ S = {}
        /\ Goto(w, "read")
        /\ recovering' = [recovering EXCEPT ![w] = FALSE]
        /\ \E next \in NextStart(cursor[w]) :
             brokeOff' = [brokeOff EXCEPT ![w] = next]
        /\ UNCHANGED <<stale, deliveries, cursor, batch>>
     \/ /\ S # {}
        /\ Goto(w, "entry")
        /\ stale' = stale \ S
        /\ deliveries' = Redelivered(S)
        /\ \E next \in NextStart(cursor[w]) : cursor' = [cursor EXCEPT ![w] = next]
        /\ \E q \in InOrder(S) : batch' = [batch EXCEPT ![w] = q]
        /\ UNCHANGED <<recovering, brokeOff>>
  /\ UNCHANGED <<streamVars, pending, rows, announced, row, crashes, faults>>

\* XAUTOCLAIM fails: onModuleInit rejects and the process ends.
ClaimFails(w) ==
  /\ pc[w] = "claim"
  /\ faults < MaxFaults
  /\ faults' = faults + 1
  /\ Goto(w, "down")
  /\ recovering' = [recovering EXCEPT ![w] = FALSE]
  /\ UNCHANGED <<streamVars, pending, stale, deliveries, rows, announced,
                 cursor, brokeOff, batch, row, crashes>>

\* The ids the next XREADGROUP hands out.
NewEntries ==
  (lastDelivered + 1)..(IF Len(stream) - lastDelivered < BatchSize
                        THEN Len(stream) ELSE lastDelivered + BatchSize)

\* XREADGROUP '>' moves entries to the pending list.
Deliver ==
  /\ NewEntries # {}
  /\ lastDelivered' = lastDelivered + Cardinality(NewEntries)
  /\ pending' = pending \cup NewEntries
  /\ deliveries' = Redelivered(NewEntries)
  /\ UNCHANGED <<stream, group, stale, rows, announced>>

Read(w) ==
  /\ pc[w] = "read"
  /\ Deliver
  /\ batch' = [batch EXCEPT ![w] =
                 [k \in 1..Cardinality(NewEntries) |-> lastDelivered + k]]
  /\ Goto(w, "entry")
  /\ UNCHANGED <<recovering, cursor, brokeOff, row, crashes, faults>>

\* Nothing new within CHAT_STREAM_BLOCK_MS: the loop calls XREADGROUP again.
ReadNothing(w) ==
  /\ pc[w] = "read"
  /\ NewEntries = {}
  /\ UNCHANGED vars

\* The reply of XREADGROUP is lost with the connection: the entries are
\* pending, and the consume loop, which only logs, calls XREADGROUP again.
ReadLost(w) ==
  /\ pc[w] = "read"
  /\ faults < MaxFaults
  /\ faults' = faults + 1
  /\ Deliver
  /\ UNCHANGED <<pc, workerVars, crashes>>
-----------------------------------------------------------------------------
(* Processing an entry *)

\* Mutant: only the first entry of a batch is processed.
NextEntryOnlyFirst(w) ==
  /\ batch' = [batch EXCEPT ![w] = <<>>]
  /\ Goto(w, IF recovering[w] /\ cursor[w] # 0 THEN "claim" ELSE "read")
  /\ recovering' = [recovering EXCEPT ![w] = @ /\ cursor[w] # 0]
  /\ UNCHANGED <<cursor, brokeOff, row>>

\* Mutant: the recovery claims one batch only.
NextEntryClaimOnce(w) ==
  LET rest == Tail(batch[w]) IN
  /\ batch' = [batch EXCEPT ![w] = rest]
  /\ Goto(w, IF rest # <<>> THEN "entry" ELSE "read")
  /\ recovering' = [recovering EXCEPT ![w] = @ /\ rest # <<>>]
  /\ UNCHANGED <<cursor, brokeOff, row>>

\* processEntry has returned: take the next entry of the batch; after the last
\* one, claim again, start the consume loop, or read again.
NextEntry(w) ==
  LET rest == Tail(batch[w])
      more == rest # <<>>
      claimMore == recovering[w] /\ cursor[w] # 0
  IN  /\ batch' = [batch EXCEPT ![w] = rest]
      /\ Goto(w, IF more THEN "entry" ELSE IF claimMore THEN "claim" ELSE "read")
      /\ recovering' = [recovering EXCEPT ![w] = @ /\ (more \/ claimMore)]
      /\ UNCHANGED <<cursor, brokeOff, row>>

\* parseStreamEntry throws on an entry without a payload, before the try: the
\* rest of the batch is given up.  In the consume loop the error is logged; in
\* the recovery it ends the process.
ParseFails(w) ==
  /\ pc[w] = "entry"
  /\ ~stream[Current(w)].payload
  /\ Goto(w, IF recovering[w] THEN "down" ELSE "read")
  /\ batch' = [batch EXCEPT ![w] = <<>>]
  /\ recovering' = [recovering EXCEPT ![w] = FALSE]
  /\ UNCHANGED <<streamVars, pending, stale, deliveries, rows, announced,
                 cursor, brokeOff, row, crashes, faults>>

\* The members query; a message that may not be delivered is only acknowledged.
Lookup(w) ==
  /\ pc[w] = "entry"
  /\ stream[Current(w)].payload
  /\ Goto(w, IF Deliverable(stream[Current(w)]) THEN "save" ELSE "ack")
  /\ UNCHANGED <<streamVars, pending, stale, deliveries, rows, announced,
                 workerVars, crashes, faults>>

Save(w) ==
  /\ pc[w] = "save"
  /\ rows' = Append(rows, Current(w))
  /\ row' = [row EXCEPT ![w] = Len(rows) + 1]
  /\ Goto(w, "publish")
  /\ UNCHANGED <<streamVars, pending, stale, deliveries, announced,
                 recovering, cursor, brokeOff, batch, crashes, faults>>

Publish(w) ==
  /\ pc[w] = "publish"
  /\ announced' = announced \cup {row[w]}
  /\ Goto(w, "ack")
  /\ UNCHANGED <<streamVars, pending, stale, deliveries, rows, workerVars,
                 crashes, faults>>

\* XACK: the entry leaves the pending list, whoever holds it there.
Ack(w) ==
  /\ pc[w] = "ack"
  /\ pending' = pending \ {Current(w)}
  /\ stale' = stale \ {Current(w)}
  /\ NextEntry(w)
  /\ UNCHANGED <<streamVars, deliveries, rows, announced, crashes, faults>>

\* Mutant: the entry is acknowledged in a finally.
CaughtAcks(w) ==
  /\ faults < MaxFaults
  /\ faults' = faults + 1
  /\ NextEntry(w)
  /\ pending' = pending \ {Current(w)}
  /\ stale' = stale \ {Current(w)}
  /\ UNCHANGED <<streamVars, deliveries, crashes>>

\* The catch of processEntry: the error is logged, the entry stays pending.
Caught(w) ==
  /\ faults < MaxFaults
  /\ faults' = faults + 1
  /\ NextEntry(w)
  /\ UNCHANGED <<streamVars, pending, stale, deliveries, crashes>>

\* The query, the insert, the publish or the XACK fails without effect.
CallFails(w) ==
  /\ pc[w] \in Handling
  /\ stream[Current(w)].payload
  /\ Caught(w)
  /\ UNCHANGED <<rows, announced>>

\* Mutant: the insert is tried again on an error.
SaveRetried(w) ==
  /\ pc[w] = "save"
  /\ faults < MaxFaults
  /\ faults' = faults + 1
  /\ rows' = Append(rows, Current(w))
  /\ UNCHANGED <<streamVars, pending, stale, deliveries, announced, pc,
                 workerVars, crashes>>

\* The insert commits, and its reply is lost.
SaveUnconfirmed(w) ==
  /\ pc[w] = "save"
  /\ rows' = Append(rows, Current(w))
  /\ Caught(w)
  /\ UNCHANGED announced

\* The publish reaches the subscribers, and its reply is lost.
PublishUnconfirmed(w) ==
  /\ pc[w] = "publish"
  /\ announced' = announced \cup {row[w]}
  /\ Caught(w)
  /\ UNCHANGED rows

-----------------------------------------------------------------------------
(* The environment *)

\* The process dies.  No shutdown hook is enabled, so a stop is a crash.
Crash(w) ==
  /\ pc[w] # "down"
  /\ crashes < MaxCrashes
  /\ crashes' = crashes + 1
  /\ Goto(w, "down")
  /\ batch' = [batch EXCEPT ![w] = <<>>]
  /\ recovering' = [recovering EXCEPT ![w] = FALSE]
  /\ UNCHANGED <<streamVars, pending, stale, deliveries, rows, announced,
                 cursor, brokeOff, row, faults>>

\* A pending entry has been idle for CHAT_STREAM_CLAIM_MIN_IDLE_MS, whether its
\* worker is gone, gave it up or is merely slow.
Age(i) ==
  /\ i \in pending \ stale
  /\ deliveries[i] < MaxDeliveries
  /\ stale' = stale \cup {i}
  /\ UNCHANGED <<streamVars, pending, deliveries, rows, announced, pc,
                 workerVars, crashes, faults>>

Start(w) == Boot(w) \/ Claim(w) \/ ClaimFails(w)
Consume(w) == Read(w) \/ ReadNothing(w) \/ ReadLost(w)
Process(w) == Lookup(w) \/ ParseFails(w) \/ Save(w) \/ Publish(w) \/ Ack(w)
Fault(w) == CallFails(w) \/ SaveUnconfirmed(w) \/ PublishUnconfirmed(w)

Next ==
  \/ \E w \in Workers :
       \/ \E e \in Entry : SendMessage(w, e)
       \/ Start(w)
       \/ Consume(w)
       \/ Process(w)
       \/ Fault(w)
       \/ Crash(w)
  \/ \E i \in pending : Age(i)

Spec == Init /\ [][Next]_vars

\* The event loop runs on: a live worker takes its next step, a dead process
\* is started again, and time passes for an idle entry.  Nobody has to send,
\* to fail or to crash.
Fairness ==
  /\ \A w \in Workers :
       /\ WF_vars(Boot(w))
       /\ WF_vars(Claim(w) \/ Read(w) \/ Process(w))
  /\ WF_vars(\E i \in pending : Age(i))

FairSpec == Spec /\ Fairness
-----------------------------------------------------------------------------
(* Properties *)

Ids == 1..Len(stream)

TypeOK ==
  /\ stream \in Seq(Entry)
  /\ group \in BOOLEAN
  /\ lastDelivered \in Nat
  /\ pending \subseteq Nat
  /\ stale \subseteq pending
  /\ deliveries \in Seq(Nat)
  /\ rows \in Seq(Nat)
  /\ announced \subseteq Nat
  /\ pc \in [Workers -> PC]
  /\ recovering \in [Workers -> BOOLEAN]
  /\ cursor \in [Workers -> Nat] /\ brokeOff \in [Workers -> Nat]
  /\ batch \in [Workers -> Seq(Nat)]
  /\ row \in [Workers -> Nat]
  /\ crashes \in Nat /\ faults \in Nat

\* The work on an entry is done: its message may not be delivered, or it is
\* saved and the saved row was published.
Finished(i) ==
  \/ ~Deliverable(stream[i])
  \/ \E r \in announced : r \in DOMAIN rows /\ rows[r] = i

\* The entries the group has handed out and got acknowledged.
Settled == (1..lastDelivered) \ pending

\* Nothing is lost: an entry that left the pending list was saved and
\* published, or may not be delivered (processEntry acknowledges last; a
\* group created at '$' skips nothing that a gateway accepted).
NothingLost == \A i \in Settled : Finished(i)

\* Only rows are published, and rows come only from messages of members of a
\* conversation of two (the checks of processEntry before the insert).
OnlyMembersStored ==
  /\ announced \subseteq DOMAIN rows
  /\ \A r \in DOMAIN rows :
       /\ rows[r] \in 1..lastDelivered
       /\ Deliverable(stream[rows[r]])
       /\ stream[rows[r]].payload

RowsOf(i) == {r \in DOMAIN rows : rows[r] = i}

\* A message is saved twice only if Redis delivered its entry twice: the worker
\* itself never repeats an insert (processEntry has no retry of its own).
SavedAtMostOncePerDelivery ==
  \A i \in Ids : Cardinality(RowsOf(i)) <= deliveries[i]

\* An entry that was acknowledged never comes back to the pending list, although
\* another worker may still hold it in its batch.
SettledForGood == [][Settled \subseteq Settled']_vars

Announced(i) == \E r \in announced : rows[r] = i

\* A message that may be delivered is published at last, unless a process dies, a
\* call fails, or an entry without a payload ends the batch it is in: the consume
\* loops share the stream and leave nothing else behind.
DeliveredUnlessDeath ==
  \A i \in 1..MaxEntries :
    (i \in Ids /\ Deliverable(stream[i]) /\ stream[i].payload) ~>
      (Announced(i) \/ crashes > 0 \/ faults > 0 \/ \E j \in Ids : ~stream[j].payload)

\* A worker that starts handles every idle entry, however many calls that takes,
\* unless a call fails, a process dies, or an empty reply ends the recovery before
\* the entry was looked at: Redis had looked at as many entries as it does in one
\* call and found none idle (the cursor loop of recoverPendingEntries, which ends
\* on an empty reply and not only at 0-0).
StartRecoversStale ==
  \A w \in Workers : \A i \in 1..MaxEntries :
    (pc[w] = "claim" /\ i \in stale /\ cursor[w] <= i) ~>
      \/ i \notin pending
      \/ faults > 0
      \/ \E v \in Workers : pc[v] = "down"
      \/ brokeOff[w] \in 1..i

\* The stream and its workers implement at-least-once delivery.
Promise == INSTANCE DurableDelivery
  WITH Messages <- 1..MaxEntries,
       accepted <- Ids,
       wanted <- {i \in Ids : Deliverable(stream[i])},
       settled <- Settled

ImplementsDurableDelivery == Promise!Spec
=============================================================================
