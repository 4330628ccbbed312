------------------------ MODULE DirectInviteProofs ------------------------
(***************************************************************************)
(* Proofs about DirectInvite, for any number of users, requests,           *)
(* connections and failures.                                               *)
(***************************************************************************)
EXTENDS DirectInvite, TLAPS, FiniteSetTheorems

-----------------------------------------------------------------------------
(* The inductive invariant *)

\* A committed conversation has two members.
TwoMembers ==
  \A c \in DOMAIN db : \E u, v \in Keyed : u # v /\ db[c] = {u, v}

\* The participants of a request that was accepted.
PairSound(r) ==
  pc[r] \notin {"new", "done"} => Pair(r) \subseteq Keyed /\ by[r] # to[r]

\* From its search to its commit a request holds the rows of both users.
LockSound(r) ==
  pc[r] \in InTransaction \ {"lock"} => \A u \in Pair(r) : owner[u] = r

\* What the search has found stays true while the rows are locked: nobody else
\* commits a conversation of the pair.
SearchSound(r) ==
  /\ pc[r] = "shared" =>
       /\ \A c \in mine[r] : by[r] \in db[c]
       /\ \A c \in DOMAIN db : db[c] = Pair(r) => c \in mine[r]
  /\ pc[r] \in {"insert", "commit"} => \A c \in DOMAIN db : db[c] # Pair(r)

\* A conversation that is about to be committed has an id of its own.
IdSound(r) ==
  pc[r] = "commit" =>
    /\ conv[r] \in 1..(nextId - 1) /\ conv[r] \notin DOMAIN db
    /\ \A q \in Requests \ {r} : pc[q] = "commit" => conv[q] # conv[r]

\* A conversation that was found, committed or named in a reply.
FoundSound(r) ==
  /\ pc[r] \in {"load", "tell"} \/ reply[r] = "ok" =>
       conv[r] \in DOMAIN db /\ db[conv[r]] = Pair(r)
  /\ reply[r] = "ok" => pc[r] = "done"

Sound(r) ==
  PairSound(r) /\ LockSound(r) /\ SearchSound(r) /\ IdSound(r) /\ FoundSound(r)

IInv ==
  /\ TypeOK
  /\ TwoMembers
  /\ OneConversationPerPair
  /\ \A r \in Requests : Sound(r)

-----------------------------------------------------------------------------
(* Lemmas *)

\* Two different users make a pair of two.
LEMMA PairOfTwo ==
  ASSUME NEW u, NEW v, u # v
  PROVE  Cardinality({u, v}) = 2
<1>1. IsFiniteSet({u}) /\ Cardinality({u}) = 1
  BY FS_Singleton
<1>2. {u, v} = {u} \cup {v} /\ v \notin {u}
  OBVIOUS
<1> QED
  BY <1>1, <1>2, FS_AddElement

\* A user who exists asks for a user the client may name.
LEMMA AskOfUsers ==
  ASSUME NEW r \in Requests, NEW ask \in Asks[r]
  PROVE  ask[1] \in Registered /\ ask[1] \in Ids /\ ask[2] \in Ids
<1>1. ask \in Registered \X Ids
  BY AsksAssumption
<1> QED
  BY <1>1, IdsAssumption

\* The participants of an accepted request are users.
LEMMA PairOfUsers ==
  ASSUME NEW r \in Requests, IInv, pc[r] \notin {"new", "done"}
  PROVE  /\ Pair(r) \subseteq Ids /\ Pair(r) \subseteq Keyed
         /\ by[r] \in Ids /\ to[r] \in Ids /\ by[r] # to[r]
BY IdsAssumption DEF IInv, Sound, PairSound, Pair

\* What a commit does to the table.
LEMMA CommittedGrows ==
  ASSUME NEW r \in Requests, IInv, pc[r] = "commit", Committed(r)
  PROVE  /\ DOMAIN db' = DOMAIN db \cup {conv[r]}
         /\ conv[r] \notin DOMAIN db /\ conv[r] \in 1..(nextId - 1)
         /\ \A c \in DOMAIN db : db'[c] = db[c]
         /\ db'[conv[r]] = Pair(r)
         /\ \A c \in DOMAIN db : db[c] # Pair(r)
         /\ Pair(r) \subseteq Keyed /\ by[r] # to[r]
         /\ nextId' = nextId
         /\ owner' = Unlocked(r)
BY DEF IInv, Sound, PairSound, SearchSound, IdSound, Committed

\* The row locks stay with their owner or become free.
LEMMA UnlockedType ==
  ASSUME NEW r \in Requests, TypeOK
  PROVE  /\ Unlocked(r) \in [Ids -> Requests \cup {Nobody}]
         /\ \A u \in Ids, q \in Requests : q # r /\ owner[u] = q => Unlocked(r)[u] = q
BY DEF TypeOK, Unlocked

\* The types of what a commit changes.
CommitTypes(r) ==
  /\ owner' \in [Ids -> Requests \cup {Nobody}]
  /\ DOMAIN db' \subseteq 1..(nextId' - 1) /\ nextId' \in Nat \ {0}
  /\ \A c \in DOMAIN db' : db'[c] \subseteq Keyed
  /\ DOMAIN db \subseteq DOMAIN db'

LEMMA CommittedTyped ==
  ASSUME NEW r \in Requests, IInv, pc[r] = "commit", Committed(r)
  PROVE  CommitTypes(r)
<1>1. /\ DOMAIN db' = DOMAIN db \cup {conv[r]}
      /\ conv[r] \in 1..(nextId - 1)
      /\ \A c \in DOMAIN db : db'[c] = db[c]
      /\ db'[conv[r]] = Pair(r)
      /\ Pair(r) \subseteq Keyed
      /\ nextId' = nextId
      /\ owner' = Unlocked(r)
  BY CommittedGrows
<1>2. owner' \in [Ids -> Requests \cup {Nobody}]
  BY <1>1, UnlockedType DEF IInv
<1>3. /\ DOMAIN db' \subseteq 1..(nextId' - 1) /\ nextId' \in Nat \ {0}
      /\ DOMAIN db \subseteq DOMAIN db'
  BY <1>1 DEF IInv, TypeOK
<1>4. \A c \in DOMAIN db' : db'[c] \subseteq Keyed
  BY <1>1 DEF IInv, TypeOK
<1> QED
  BY <1>2, <1>3, <1>4 DEF CommitTypes

-----------------------------------------------------------------------------
(* Types *)

\* Every step keeps the types.
LEMMA TypeStep ==
  ASSUME IInv, [Next]_vars
  PROVE  TypeOK'
<1> USE DEF TypeOK, PC, askVars, dbVars, clientVars
<1>1. ASSUME NEW r \in Requests, NEW ask \in Asks[r], Ask(r, ask[1], ask[2]) PROVE TypeOK'
  <2>1. ask[1] \in Ids /\ ask[2] \in Ids
    BY AskOfUsers
  <2>2. by' \in [Requests -> Ids \cup {0}] /\ to' \in [Requests -> Ids \cup {0}]
    BY <1>1, <2>1 DEF IInv, Ask
  <2>3. pc' \in [Requests -> PC] /\ reply' \in [Requests -> {"none", "rejected", "error", "ok"}]
    BY <1>1 DEF IInv, Ask, Goto
  <2> QED
    BY <1>1, <2>2, <2>3 DEF IInv, Ask
<1>2. ASSUME NEW r \in Requests, Connect(r) PROVE TypeOK'
  BY <1>2 DEF IInv, Connect, Goto
<1>3. ASSUME NEW r \in Requests, Begin(r) PROVE TypeOK'
  BY <1>3 DEF IInv, Begin, Goto
<1>4. ASSUME NEW r \in Requests, Lock(r) PROVE TypeOK'
  <2>1. PICK next \in ToLock(r) :
          /\ owner' = [owner EXCEPT ![next] = r]
          /\ Goto(r, IF ToLock(r) = {next} THEN "find" ELSE "lock")
    BY <1>4 DEF Lock
  <2>2. owner' \in [Ids -> Requests \cup {Nobody}]
    BY <2>1 DEF IInv
  <2>3. pc' \in [Requests -> PC]
    BY <2>1 DEF IInv, Goto
  <2> QED
    BY <1>4, <2>2, <2>3 DEF IInv, Lock
<1>5. ASSUME NEW r \in Requests, FindOwn(r) PROVE TypeOK'
  BY <1>5 DEF IInv, FindOwn, Goto
<1>6. ASSUME NEW r \in Requests, FindShared(r) PROVE TypeOK'
  BY <1>6 DEF IInv, FindShared, Goto
<1>7. ASSUME NEW r \in Requests, AnswerExisting(r) PROVE TypeOK'
  <2>1. by[r] \in Ids /\ Unlocked(r) \in [Ids -> Requests \cup {Nobody}]
    BY <1>7, UnlockedType, PairOfUsers DEF IInv, AnswerExisting
  <2> QED
    BY <1>7, <2>1 DEF IInv, AnswerExisting, Succeed, Finish, Goto
<1>8. ASSUME NEW r \in Requests, Insert(r) PROVE TypeOK'
  BY <1>8 DEF IInv, Insert, Goto
<1>9. ASSUME NEW r \in Requests, Commit(r) PROVE TypeOK'
  <2>1. Committed(r) /\ pc[r] = "commit"
    BY <1>9 DEF Commit
  <2>2. CommitTypes(r)
    BY <2>1, CommittedTyped
  <2> QED
    BY <1>9, <2>2 DEF IInv, Commit, Goto, CommitTypes
<1>10. ASSUME NEW r \in Requests, Tell(r) PROVE TypeOK'
  <2>1. by[r] \in Ids /\ to[r] \in Ids /\ conv[r] \in DOMAIN db
    BY <1>10, PairOfUsers DEF IInv, Sound, FoundSound, Tell
  <2> QED
    BY <1>10, <2>1 DEF IInv, Tell, Succeed, Finish, Goto
<1>11. ASSUME NEW r \in Requests, ConnectFails(r) PROVE TypeOK'
  BY <1>11 DEF IInv, ConnectFails, Fault, Finish, Goto
<1>12. ASSUME NEW r \in Requests, BeginFails(r) PROVE TypeOK'
  BY <1>12 DEF IInv, BeginFails, Fault, Goto
<1>13. ASSUME NEW r \in Requests, Rollback(r) PROVE TypeOK'
  BY <1>13, UnlockedType DEF IInv, Rollback, Fault, Finish, Goto
<1>14. ASSUME NEW r \in Requests, CommitUnconfirmed(r) PROVE TypeOK'
  <2>1. Committed(r) /\ pc[r] = "commit"
    BY <1>14 DEF CommitUnconfirmed
  <2>2. CommitTypes(r)
    BY <2>1, CommittedTyped
  <2> QED
    BY <1>14, <2>2 DEF IInv, CommitUnconfirmed, Fault, Finish, Goto, CommitTypes
<1>15. ASSUME NEW r \in Requests, TellFails(r) PROVE TypeOK'
  BY <1>15 DEF IInv, TellFails, Fault, Finish, Goto
<1>16. ASSUME NEW u \in Ids, Refetch(u) \/ RefetchFails(u) PROVE TypeOK'
  BY <1>16 DEF IInv, Refetch, RefetchFails, Listed, Fault
<1>17. ASSUME NEW u \in Ids, Focus(u) PROVE TypeOK'
  BY <1>17 DEF IInv, Focus
<1>18. CASE UNCHANGED vars
  BY <1>18 DEF IInv, vars
<1> QED
  BY <1>1, <1>2, <1>3, <1>4, <1>5, <1>6, <1>7, <1>8, <1>9, <1>10, <1>11, <1>12, <1>13, <1>14, <1>15, <1>16, <1>17, <1>18 DEF Next, Handle, Fail

-----------------------------------------------------------------------------
(* What each request knows *)

\* The variables of a request q that a step of another request leaves alone.
Untouched(q) ==
  /\ pc'[q] = pc[q] /\ by'[q] = by[q] /\ to'[q] = to[q]
  /\ mine'[q] = mine[q] /\ conv'[q] = conv[q] /\ reply'[q] = reply[q]
  /\ \A u \in Ids : owner[u] = q => owner'[u] = q

\* What a step of r does to the table.
TableStep(r) ==
  \/ db' = db /\ nextId' = nextId /\ pc'[r] # "commit"
  \/ db' = db /\ nextId' = nextId + 1 /\ pc'[r] = "commit" /\ conv'[r] = nextId
  \/ pc[r] = "commit" /\ pc'[r] # "commit" /\ Committed(r)

\* A step of one request leaves what the others know true.
LEMMA OthersSound ==
  ASSUME NEW r \in Requests, NEW q \in Requests \ {r}, IInv, TableStep(r),
         \A p \in Requests \ {r} : Untouched(p)
  PROVE  Sound(q)'
<1> USE DEF Untouched
<1>1. Sound(q) /\ Pair(q)' = Pair(q)
  BY DEF IInv, Pair
<1>2. DOMAIN db \subseteq 1..(nextId - 1) /\ nextId \in Nat \ {0}
  BY DEF IInv, TypeOK
<1>3. pc[q] \notin {"new", "done"} => Pair(q) \subseteq Ids
  BY PairOfUsers DEF IInv
<1>4. PairSound(q)' /\ LockSound(q)'
  BY <1>1, <1>3 DEF Sound, PairSound, LockSound, InTransaction
<1>5. CASE db' = db /\ nextId' = nextId /\ pc'[r] # "commit"
  <2>1. SearchSound(q)' /\ FoundSound(q)'
    BY <1>1, <1>5 DEF Sound, SearchSound, FoundSound
  <2>2. IdSound(q)'
    BY <1>1, <1>5 DEF Sound, IdSound
  <2> QED
    BY <1>4, <2>1, <2>2 DEF Sound
<1>6. CASE db' = db /\ nextId' = nextId + 1 /\ pc'[r] = "commit" /\ conv'[r] = nextId
  <2>1. SearchSound(q)' /\ FoundSound(q)'
    BY <1>1, <1>6 DEF Sound, SearchSound, FoundSound
  <2>2. IdSound(q)'
    BY <1>1, <1>2, <1>6 DEF Sound, IdSound
  <2> QED
    BY <1>4, <2>1, <2>2 DEF Sound
<1>7. CASE pc[r] = "commit" /\ pc'[r] # "commit" /\ Committed(r)
  <2>1. /\ DOMAIN db' = DOMAIN db \cup {conv[r]}
        /\ conv[r] \notin DOMAIN db
        /\ \A c \in DOMAIN db : db'[c] = db[c]
        /\ db'[conv[r]] = Pair(r)
        /\ nextId' = nextId
    BY <1>7, CommittedGrows
  <2>2. ASSUME pc[q] \in InTransaction \ {"lock"} PROVE Pair(q) # Pair(r)
    <3>1. by[q] \in Pair(q) /\ owner[by[q]] = q
      BY <1>1, <2>2 DEF Sound, LockSound, Pair
    <3>2. \A u \in Pair(r) : owner[u] = r
      BY <1>7 DEF IInv, Sound, LockSound, InTransaction
    <3> QED
      BY <3>1, <3>2
  <2>3. SearchSound(q)'
    <3>1. mine[q] \subseteq DOMAIN db
      BY DEF IInv, TypeOK
    <3> QED
      BY <1>1, <2>1, <2>2, <3>1 DEF Sound, SearchSound, InTransaction
  <2>4. FoundSound(q)'
    BY <1>1, <2>1 DEF Sound, FoundSound
  <2>5. IdSound(q)'
    <3>1. pc[q] = "commit" => conv[q] # conv[r]
      BY <1>7 DEF IInv, Sound, IdSound
    <3> QED
      BY <1>1, <1>7, <2>1, <3>1 DEF Sound, IdSound
  <2> QED
    BY <1>4, <2>3, <2>4, <2>5 DEF Sound
<1> QED
  BY <1>5, <1>6, <1>7 DEF TableStep

\* What the table promises survives every step.
LEMMA TableSound ==
  ASSUME NEW r \in Requests, IInv, TableStep(r)
  PROVE  TwoMembers' /\ OneConversationPerPair'
<1>1. CASE db' = db
  BY <1>1 DEF IInv, TwoMembers, OneConversationPerPair
<1>2. CASE pc[r] = "commit" /\ Committed(r)
  <2>1. /\ DOMAIN db' = DOMAIN db \cup {conv[r]}
        /\ \A c \in DOMAIN db : db'[c] = db[c]
        /\ db'[conv[r]] = Pair(r)
        /\ \A c \in DOMAIN db : db[c] # Pair(r)
        /\ Pair(r) \subseteq Keyed /\ by[r] # to[r]
    BY <1>2, CommittedGrows
  <2>2. TwoMembers'
    <3>1. \E u, v \in Keyed : u # v /\ db'[conv[r]] = {u, v}
      BY <2>1 DEF Pair
    <3> QED
      BY <2>1, <3>1 DEF IInv, TwoMembers
  <2>3. OneConversationPerPair'
    BY <2>1 DEF IInv, OneConversationPerPair
  <2> QED
    BY <2>2, <2>3
<1> QED
  BY <1>1, <1>2 DEF TableStep

\* A step of a request leaves the others alone and changes the table in one of
\* the three ways.
LEMMA StepFrame ==
  ASSUME NEW r \in Requests, IInv,
         \/ \E ask \in Asks[r] : Ask(r, ask[1], ask[2])
         \/ Handle(r)
         \/ Fail(r)
  PROVE  TableStep(r) /\ \A q \in Requests \ {r} : Untouched(q)
<1> USE DEF TypeOK, TableStep, Untouched, askVars, dbVars
<1>1. ASSUME NEW ask \in Asks[r], Ask(r, ask[1], ask[2])
      PROVE  TableStep(r) /\ \A q \in Requests \ {r} : Untouched(q)
  BY <1>1 DEF IInv, Ask, Goto
<1>2. CASE Connect(r)
  BY <1>2 DEF IInv, Connect, Goto
<1>3. CASE Begin(r)
  BY <1>3 DEF IInv, Begin, Goto
<1>4. CASE Lock(r)
  <2>1. PICK next \in ToLock(r) :
          /\ owner[next] = Nobody
          /\ owner' = [owner EXCEPT ![next] = r]
          /\ Goto(r, IF ToLock(r) = {next} THEN "find" ELSE "lock")
    BY <1>4 DEF Lock
  <2>2. \A u \in Ids, q \in Requests \ {r} : owner[u] = q => owner'[u] = q
    BY <2>1, NobodyAssumption DEF IInv
  <2> QED
    BY <1>4, <2>1, <2>2 DEF IInv, Lock, Goto
<1>5. CASE FindOwn(r)
  BY <1>5 DEF IInv, FindOwn, Goto
<1>6. CASE FindShared(r)
  BY <1>6 DEF IInv, FindShared, Goto
<1>7. CASE AnswerExisting(r)
  BY <1>7, UnlockedType DEF IInv, AnswerExisting, Succeed, Finish, Goto
<1>8. CASE Insert(r)
  BY <1>8 DEF IInv, Insert, Goto
<1>9. CASE Commit(r)
  <2>1. Committed(r) /\ pc[r] = "commit" /\ owner' = Unlocked(r)
    BY <1>9 DEF Commit, Committed
  <2>2. \A u \in Ids, q \in Requests \ {r} : owner[u] = q => owner'[u] = q
    BY <2>1, UnlockedType DEF IInv
  <2> QED
    BY <1>9, <2>1, <2>2 DEF IInv, Commit, Goto
<1>10. CASE Tell(r)
  BY <1>10 DEF IInv, Tell, Succeed, Finish, Goto
<1>11. CASE ConnectFails(r)
  BY <1>11 DEF IInv, ConnectFails, Finish, Goto
<1>12. CASE BeginFails(r)
  BY <1>12 DEF IInv, BeginFails, Goto
<1>13. CASE Rollback(r)
  BY <1>13, UnlockedType DEF IInv, Rollback, Finish, Goto, InTransaction
<1>14. CASE CommitUnconfirmed(r)
  <2>1. Committed(r) /\ pc[r] = "commit" /\ owner' = Unlocked(r)
    BY <1>14 DEF CommitUnconfirmed, Committed
  <2>2. \A u \in Ids, q \in Requests \ {r} : owner[u] = q => owner'[u] = q
    BY <2>1, UnlockedType DEF IInv
  <2> QED
    BY <1>14, <2>1, <2>2 DEF IInv, CommitUnconfirmed, Finish, Goto
<1>15. CASE TellFails(r)
  BY <1>15 DEF IInv, TellFails, Finish, Goto
<1> QED
  BY <1>1, <1>2, <1>3, <1>4, <1>5, <1>6, <1>7, <1>8, <1>9, <1>10, <1>11, <1>12,
     <1>13, <1>14, <1>15 DEF Handle, Fail

\* What a request knows after its own step.
LEMMA OwnSound ==
  ASSUME NEW r \in Requests, IInv,
         \/ \E ask \in Asks[r] : Ask(r, ask[1], ask[2])
         \/ Handle(r)
         \/ Fail(r)
  PROVE  Sound(r)'
<1> USE DEF TypeOK, askVars, dbVars, PairSound, LockSound, SearchSound, IdSound,
            FoundSound, InTransaction
<1>1. ASSUME NEW ask \in Asks[r], Ask(r, ask[1], ask[2])
      PROVE  Sound(r)'
  BY <1>1 DEF IInv, Sound, Ask, Goto, Acceptable, Pair
<1>2. CASE Connect(r)
  BY <1>2 DEF IInv, Sound, Pair, Connect, Goto
<1>3. CASE Begin(r)
  BY <1>3 DEF IInv, Sound, Pair, Begin, Goto
<1>4. CASE Lock(r)
  <2>1. PICK next \in ToLock(r) :
          /\ owner' = [owner EXCEPT ![next] = r]
          /\ Goto(r, IF ToLock(r) = {next} THEN "find" ELSE "lock")
    BY <1>4 DEF Lock
  <2>2. /\ Pair(r) \subseteq Ids /\ Pair(r) \subseteq Keyed /\ by[r] # to[r]
        /\ Pair(r)' = Pair(r)
    BY <1>4, PairOfUsers DEF Lock, Pair
  <2>3. ToLock(r) = {next} => \A u \in Pair(r) : owner'[u] = r
    BY <2>1, <2>2 DEF IInv, ToLock
  <2>4. pc'[r] = IF ToLock(r) = {next} THEN "find" ELSE "lock"
    BY <2>1 DEF IInv, Goto
  <2>5. LockSound(r)'
    BY <2>2, <2>3, <2>4
  <2> QED
    BY <1>4, <2>2, <2>4, <2>5 DEF IInv, Sound, Lock
<1>5. CASE FindOwn(r)
  BY <1>5 DEF IInv, Sound, Pair, FindOwn, Goto
<1>6. CASE FindShared(r)
  <2> DEFINE shared == {c \in mine[r] : to[r] \in db[c] /\ Cardinality(db[c]) = 2}
  <2>1. /\ by[r] # to[r] /\ Pair(r) = {by[r], to[r]} /\ Pair(r)' = Pair(r)
        /\ mine[r] \subseteq DOMAIN db
        /\ \A c \in mine[r] : by[r] \in db[c]
        /\ \A c \in DOMAIN db : db[c] = Pair(r) => c \in mine[r]
    BY <1>6 DEF IInv, Sound, Pair, FindShared
  <2>2. \A c \in shared : c \in DOMAIN db /\ db[c] = Pair(r)
    BY <2>1 DEF IInv, TwoMembers
  <2>3. shared = {} => \A c \in DOMAIN db : db[c] # Pair(r)
    <3>1. Cardinality(Pair(r)) = 2
      BY <2>1, PairOfTwo
    <3> QED
      BY <2>1, <3>1
  <2>4. CASE shared = {} /\ Goto(r, "insert")
    BY <1>6, <2>1, <2>3, <2>4 DEF IInv, Sound, FindShared, Goto
  <2>5. CASE (\E c \in shared : conv' = [conv EXCEPT ![r] = c]) /\ Goto(r, "load")
    BY <1>6, <2>1, <2>2, <2>5 DEF IInv, Sound, FindShared, Goto
  <2> QED
    BY <1>6, <2>4, <2>5 DEF FindShared
<1>7. CASE AnswerExisting(r)
  BY <1>7 DEF IInv, Sound, Pair, AnswerExisting, Succeed, Finish, Goto
<1>8. CASE Insert(r)
  BY <1>8 DEF IInv, Sound, Pair, Insert, Goto
<1>9. CASE Commit(r)
  <2>1. /\ conv[r] \in DOMAIN db' /\ db'[conv[r]] = Pair(r) /\ Pair(r)' = Pair(r)
        /\ Pair(r) \subseteq Keyed /\ by[r] # to[r]
    BY <1>9, CommittedGrows DEF Commit, Pair
  <2>2. pc'[r] = "tell"
    BY <1>9 DEF IInv, Commit, Goto
  <2> QED
    BY <1>9, <2>1, <2>2 DEF IInv, Sound, Commit
<1>10. CASE Tell(r)
  BY <1>10 DEF IInv, Sound, Pair, Tell, Succeed, Finish, Goto
<1>11. CASE ConnectFails(r)
  BY <1>11 DEF IInv, Sound, Pair, ConnectFails, Finish, Goto
<1>12. CASE BeginFails(r)
  BY <1>12 DEF IInv, Sound, Pair, BeginFails, Goto
<1>13. CASE Rollback(r)
  BY <1>13 DEF IInv, Sound, Pair, Rollback, Finish, Goto
<1>14. CASE CommitUnconfirmed(r)
  BY <1>14 DEF IInv, Sound, Pair, CommitUnconfirmed, Finish, Goto
<1>15. CASE TellFails(r)
  BY <1>15 DEF IInv, Sound, Pair, TellFails, Finish, Goto
<1> QED
  BY <1>1, <1>2, <1>3, <1>4, <1>5, <1>6, <1>7, <1>8, <1>9, <1>10, <1>11, <1>12,
     <1>13, <1>14, <1>15 DEF Handle, Fail

-----------------------------------------------------------------------------
(* The inductive invariant holds *)

\* The initial state satisfies the inductive invariant.
LEMMA InitSound == Init => IInv
<1> SUFFICES ASSUME Init PROVE IInv
  OBVIOUS
<1>1. DOMAIN db = {} /\ nextId = 1
  BY DEF Init
<1>2. TypeOK
  BY <1>1 DEF Init, TypeOK, PC
<1>3. TwoMembers /\ OneConversationPerPair
  BY <1>1 DEF TwoMembers, OneConversationPerPair
<1>4. \A r \in Requests : Sound(r)
  BY DEF Init, Sound, PairSound, LockSound, SearchSound, IdSound, FoundSound, InTransaction
<1> QED
  BY <1>2, <1>3, <1>4 DEF IInv

\* Every step preserves it.
LEMMA NextSound == IInv /\ [Next]_vars => IInv'
<1> SUFFICES ASSUME IInv, [Next]_vars PROVE IInv'
  OBVIOUS
<1>1. TypeOK'
  BY TypeStep
<1>2. ASSUME NEW r \in Requests,
             \/ \E ask \in Asks[r] : Ask(r, ask[1], ask[2])
             \/ Handle(r)
             \/ Fail(r)
      PROVE  IInv'
  <2>1. TableStep(r) /\ \A q \in Requests \ {r} : Untouched(q)
    BY <1>2, StepFrame
  <2>2. TwoMembers' /\ OneConversationPerPair'
    BY <2>1, TableSound
  <2>3. \A q \in Requests \ {r} : Sound(q)'
    BY <2>1, OthersSound
  <2>4. Sound(r)'
    BY <1>2, OwnSound
  <2> QED
    BY <1>1, <2>2, <2>3, <2>4 DEF IInv
<1>3. ASSUME UNCHANGED <<pc, by, to, owner, mine, conv, db, nextId, reply>>
      PROVE  IInv'
  <2>1. TwoMembers' /\ OneConversationPerPair'
    BY <1>3 DEF IInv, TwoMembers, OneConversationPerPair
  <2>2. \A r \in Requests : Sound(r)'
    BY <1>3 DEF IInv, Sound, PairSound, LockSound, SearchSound, IdSound, FoundSound, Pair
  <2> QED
    BY <1>1, <2>1, <2>2 DEF IInv
<1>4. ASSUME NEW u \in Ids, Refetch(u) \/ RefetchFails(u) \/ Focus(u)
      PROVE  UNCHANGED <<pc, by, to, owner, mine, conv, db, nextId, reply>>
  BY <1>4 DEF Refetch, RefetchFails, Focus, askVars, dbVars
<1>5. UNCHANGED vars => UNCHANGED <<pc, by, to, owner, mine, conv, db, nextId, reply>>
  BY DEF vars
<1> QED
  BY <1>2, <1>3, <1>4, <1>5 DEF Next

LEMMA AlwaysSound == Spec => []IInv
BY InitSound, NextSound, PTL DEF Spec

-----------------------------------------------------------------------------
(* Theorems *)

\* The variables of the invitation module keep their types.
THEOREM TypeCorrect == Spec => []TypeOK
<1>1. IInv => TypeOK
  BY DEF IInv
<1> QED
  BY <1>1, AlwaysSound, PTL

\* However many users invite each other at once, and whichever of their queries
\* fail, two users never get a second direct conversation.
THEOREM AtMostOneConversation == Spec => []OneConversationPerPair
<1>1. IInv => OneConversationPerPair
  BY DEF IInv
<1> QED
  BY <1>1, AlwaysSound, PTL

\* A successful reply names a committed conversation of exactly the two users.
THEOREM RepliesTrue == Spec => []RepliesHold
<1>1. IInv => RepliesHold
  BY DEF IInv, Sound, FoundSound, RepliesHold
<1> QED
  BY <1>1, AlwaysSound, PTL

\* The requests implement the promise about direct conversations: a commit
\* creates the conversation of the pair, a successful reply answers with it, and
\* every other step changes neither.
THEOREM Implementation == Spec => ImplementsDirectConversations
<1> DEFINE conversations == {<<db[c], c>> : c \in DOMAIN db}
           answers == {<<r, Pair(r), conv[r]>> : r \in {q \in Requests : reply[q] = "ok"}}
<1>1. Init => Promise!Init
  <2> SUFFICES ASSUME Init PROVE conversations = {} /\ answers = {}
    BY DEF Promise!Init
  <2> QED
    BY DEF Init
<1>2. IInv /\ [Next]_vars => [Promise!Next]_(Promise!vars)
  <2> SUFFICES ASSUME IInv, [Next]_vars
               PROVE  Promise!Next \/ UNCHANGED <<conversations, answers>>
    BY DEF Promise!vars
  <2>1. ASSUME NEW r \in Requests, pc[r] = "commit", Committed(r),
               \A q \in Requests : reply'[q] = reply[q] \/ (q = r /\ reply'[q] # "ok"),
               UNCHANGED <<by, to, conv>>
        PROVE  Promise!Next
    <3> DEFINE new == <<Pair(r), conv[r]>>
    <3>1. conversations' = conversations \cup {new} /\ new \notin conversations
      <4>1. /\ DOMAIN db' = DOMAIN db \cup {conv[r]}
            /\ conv[r] \notin DOMAIN db
            /\ \A c \in DOMAIN db : db'[c] = db[c]
            /\ db'[conv[r]] = Pair(r)
        BY <2>1, CommittedGrows
      <4> QED
        BY <4>1
    <3>2. \A old \in conversations : old[1] # new[1] /\ old[2] # new[2]
      <4>1. conv[r] \notin DOMAIN db /\ \A c \in DOMAIN db : db[c] # Pair(r)
        BY <2>1, CommittedGrows
      <4> QED
        BY <4>1
    <3>3. UNCHANGED answers
      <4>1. reply[r] # "ok"
        BY <2>1 DEF IInv, Sound, FoundSound
      <4>2. {q \in Requests : reply'[q] = "ok"} = {q \in Requests : reply[q] = "ok"}
        BY <2>1, <4>1
      <4> QED
        BY <2>1, <4>2 DEF Pair
    <3> QED
      BY <3>1, <3>2, <3>3 DEF Promise!Next, Promise!Create
  <2>2. ASSUME NEW r \in Requests, pc[r] \in {"load", "tell"}, Succeed(r),
               UNCHANGED <<by, to, conv, db>>
        PROVE  Promise!Next
    <3> DEFINE a == <<r, Pair(r), conv[r]>>
    <3>1. {q \in Requests : reply'[q] = "ok"} = {q \in Requests : reply[q] = "ok"} \cup {r}
      BY <2>2 DEF IInv, TypeOK, Succeed, Finish
    <3>2. answers' = answers \cup {a}
      BY <2>2, <3>1 DEF Pair
    <3>3. \A b \in answers : b[1] # r
      BY <2>2 DEF IInv, Sound, FoundSound
    <3>4. <<Pair(r), conv[r]>> \in conversations
      BY <2>2 DEF IInv, Sound, FoundSound
    <3>5. UNCHANGED conversations
      BY <2>2
    <3>6. a \in answers' \ answers
      BY <3>2, <3>3
    <3>7. <<a[2], a[3]>> \in conversations /\ a[1] = r
      BY <3>4
    <3> HIDE DEF a, answers, conversations
    <3>8. \E b \in answers' \ answers :
            /\ <<b[2], b[3]>> \in conversations
            /\ \A old \in answers : old[1] # b[1]
            /\ answers' = answers \cup {b}
            /\ UNCHANGED conversations
      BY <3>2, <3>3, <3>5, <3>6, <3>7
    <3> QED
      BY <3>8 DEF Promise!Next, Promise!Answer, answers, conversations
  <2>3. ASSUME UNCHANGED db,
               \A q \in Requests : (reply'[q] = "ok") = (reply[q] = "ok"),
               \A q \in Requests : reply[q] = "ok" =>
                  by'[q] = by[q] /\ to'[q] = to[q] /\ conv'[q] = conv[q]
        PROVE  UNCHANGED <<conversations, answers>>
    <3>1. {q \in Requests : reply'[q] = "ok"} = {q \in Requests : reply[q] = "ok"}
      BY <2>3
    <3>2. UNCHANGED answers
      BY <2>3, <3>1 DEF Pair
    <3> QED
      BY <2>3, <3>2
  <2>4. ASSUME NEW r \in Requests,
               \/ \E ask \in Asks[r] : Ask(r, ask[1], ask[2])
               \/ Connect(r) \/ Begin(r) \/ Lock(r) \/ FindOwn(r) \/ FindShared(r)
               \/ Insert(r) \/ ConnectFails(r) \/ BeginFails(r) \/ Rollback(r)
               \/ TellFails(r)
        PROVE  UNCHANGED <<conversations, answers>>
    <3>1. UNCHANGED db
      BY <2>4 DEF Ask, Connect, Begin, Lock, FindOwn, FindShared, Insert, ConnectFails,
                  BeginFails, Rollback, TellFails, dbVars
    <3>2. reply[r] # "ok" /\ reply'[r] # "ok"
      BY <2>4 DEF IInv, TypeOK, Sound, FoundSound, Ask, Connect, Begin, Lock, FindOwn,
                  FindShared, Insert, ConnectFails, BeginFails, Rollback, TellFails,
                  Finish, InTransaction
    <3>3. \A q \in Requests \ {r} : Untouched(q)
      BY <2>4, StepFrame DEF Handle, Fail
    <3> QED
      BY <2>3, <3>1, <3>2, <3>3 DEF Untouched
  <2>5. ASSUME UNCHANGED <<by, to, conv, db, reply>>
        PROVE  UNCHANGED <<conversations, answers>>
    BY <2>3, <2>5
  <2>6. ASSUME NEW r \in Requests, AnswerExisting(r) \/ Tell(r)
        PROVE  Promise!Next
    BY <2>2, <2>6 DEF AnswerExisting, Tell, askVars, dbVars
  <2>7. ASSUME NEW r \in Requests, Commit(r) \/ CommitUnconfirmed(r)
        PROVE  Promise!Next
    <3>1. \A q \in Requests : reply'[q] = reply[q] \/ (q = r /\ reply'[q] # "ok")
      <4>1. CASE Commit(r)
        BY <4>1 DEF Commit
      <4>2. CASE CommitUnconfirmed(r)
        BY <4>2 DEF IInv, TypeOK, CommitUnconfirmed, Finish
      <4> QED
        BY <2>7, <4>1, <4>2
    <3> QED
      BY <2>1, <2>7, <3>1 DEF Commit, CommitUnconfirmed, askVars
  <2>8. ASSUME NEW u \in Ids, Refetch(u) \/ RefetchFails(u) \/ Focus(u)
        PROVE  UNCHANGED <<by, to, conv, db, reply>>
    BY <2>8 DEF Refetch, RefetchFails, Focus, askVars, dbVars
  <2>9. UNCHANGED vars => UNCHANGED <<by, to, conv, db, reply>>
    BY DEF vars
  <2> QED
    BY <2>4, <2>5, <2>6, <2>7, <2>8, <2>9 DEF Next, Handle, Fail
<1> QED
  BY <1>1, <1>2, AlwaysSound, PTL DEF Spec, ImplementsDirectConversations, Promise!Spec
=============================================================================
