---------------------------- MODULE DirectInvite ----------------------------
(***************************************************************************)
(* POST /conversations/invite: ConversationService.inviteUserById starts a *)
(* direct conversation of two users, or finds the one they have.  The      *)
(* search and the inserts run in a transaction that first locks the rows   *)
(* of both users, in the order of their ids.  After the commit a           *)
(* membership is read on another connection of the pool and sent to the    *)
(* invited user.                                                           *)
(*                                                                         *)
(* Requests interleave at every query.  Statements read what is committed  *)
(* (READ COMMITTED).  A query may fail; the transaction is then rolled     *)
(* back and the request ends with an error, and the user may ask again.    *)
(***************************************************************************)
EXTENDS Integers, FiniteSets

CONSTANTS
  Requests,    \* invitation requests, each handled once
  Ids,         \* user ids a client may name
  Registered,  \* those of them that exist
  Keyed,       \* those of them with a public key
  Nobody,      \* the owner of a row nobody has locked
  Asks,        \* bound: <<by, to>> as each request may have it
  Away,        \* bound: the users who leave their window and come back
  PoolSize,    \* connections of the pool
  MaxFaults    \* bound: failed queries

ASSUME IdsAssumption ==
  Ids \subseteq Nat \ {0} /\ Registered \subseteq Ids /\ Keyed \subseteq Registered
ASSUME AsksAssumption == Asks \in [Requests -> SUBSET (Registered \X Ids)]
ASSUME AwayAssumption == Away \subseteq Registered
ASSUME NobodyAssumption == Nobody \notin Requests
ASSUME PoolAssumption == PoolSize \in Nat /\ MaxFaults \in Nat

VARIABLES
  pc,       \* what each request waits for
  by, to,   \* the user who invites, the user who is invited; 0 before that
  owner,    \* the request that has locked each user row
  mine,     \* currentUserMemberships of each request
  conv,     \* the conversation each request has found or is creating
  db,       \* the members of each committed conversation
  nextId,   \* ids are unique (uuidv7)
  held,     \* requests that hold a connection of the pool
  reply,    \* "none", "rejected", "error", or "ok"
  invited,  \* conversation_invitation events: <<user, conversation>>
  chats,    \* the conversations each user's chat list shows
  stale,    \* users whose chat list was invalidated
  blank,    \* users whose chat list is the answer without data of a failed request
  faults

vars == <<pc, by, to, owner, mine, conv, db, nextId, held, reply, invited,
          chats, stale, blank, faults>>
askVars == <<by, to>>
dbVars == <<db, nextId>>
clientVars == <<chats, stale, blank>>

PC == {"new", "connect", "begin", "lock", "find", "shared", "load", "insert",
       "commit", "tell", "done"}

\* The try block: after BEGIN and before the commit.
InTransaction == {"lock", "find", "shared", "load", "insert", "commit"}

\* The two participants.
Pair(r) == {by[r], to[r]}

\* A connection is free.
Free == Cardinality(held) < PoolSize

Init ==
  /\ pc = [r \in Requests |-> "new"]
  /\ by = [r \in Requests |-> 0] /\ to = by
  /\ owner = [u \in Ids |-> Nobody]
  /\ mine = [r \in Requests |-> {}]
  /\ conv = [r \in Requests |-> 0]
  /\ db = <<>> /\ nextId = 1
  /\ held = {}
  /\ reply = [r \in Requests |-> "none"]
  /\ invited = {}
  /\ chats = [u \in Ids |-> {}]
  /\ stale = {} /\ blank = {}
  /\ faults = 0

Goto(r, l) == pc' = [pc EXCEPT ![r] = l]
Unlocked(r) == [u \in Ids |-> IF owner[u] = r THEN Nobody ELSE owner[u]]

\* The finally block: the connection goes back to the pool, and the reply is sent.
Finish(r, result) ==
  /\ Goto(r, "done")
  /\ reply' = [reply EXCEPT ![r] = result]
  /\ held' = held \ {r}

-----------------------------------------------------------------------------
(* Before the transaction *)

\* Both users are looked up, one after the other; users are never deleted.
Acceptable(u, v) == v \in Registered /\ v # u /\ {u, v} \subseteq Keyed

Ask(r, u, v) ==
  /\ pc[r] = "new"
  /\ Free
  /\ by' = [by EXCEPT ![r] = u]
  /\ to' = [to EXCEPT ![r] = v]
  /\ IF Acceptable(u, v) THEN Goto(r, "connect") /\ UNCHANGED reply
     ELSE Goto(r, "done") /\ reply' = [reply EXCEPT ![r] = "rejected"]
  /\ UNCHANGED <<owner, mine, conv, dbVars, held, invited, clientVars, faults>>

\* queryRunner.connect waits until the pool has a connection ...
Connect(r) ==
  /\ pc[r] = "connect"
  /\ Free
  /\ held' = held \cup {r}
  /\ Goto(r, "begin")
  /\ UNCHANGED <<askVars, owner, mine, conv, dbVars, reply, invited, clientVars, faults>>

\* ... and the transaction is started.
Begin(r) ==
  /\ pc[r] = "begin"
  /\ Goto(r, "lock")
  /\ UNCHANGED <<askVars, owner, mine, conv, dbVars, held, reply, invited,
                 clientVars, faults>>

-----------------------------------------------------------------------------
(* The transaction *)

ToLock(r) == {u \in Pair(r) : owner[u] # r}

\* Mutant: the rows are locked in the order inviter, invited.
LockInviterFirst(r) ==
  LET next == IF owner[by[r]] # r THEN by[r] ELSE to[r] IN
  /\ pc[r] = "lock"
  /\ owner[next] = Nobody
  /\ owner' = [owner EXCEPT ![next] = r]
  /\ Goto(r, IF ToLock(r) = {next} THEN "find" ELSE "lock")
  /\ UNCHANGED <<askVars, mine, conv, dbVars, held, reply, invited, clientVars, faults>>

\* Mutant: only the inviter's row is locked.
LockInviter(r) ==
  /\ pc[r] = "lock"
  /\ owner[by[r]] = Nobody
  /\ owner' = [owner EXCEPT ![by[r]] = r]
  /\ Goto(r, "find")
  /\ UNCHANGED <<askVars, mine, conv, dbVars, held, reply, invited, clientVars, faults>>

\* SELECT ... WHERE id IN (...) ORDER BY id FOR UPDATE locks the rows one by one
\* in the order of the ids, waiting for each.
Lock(r) ==
  /\ pc[r] = "lock"
  /\ \E next \in ToLock(r) :
       /\ \A u \in ToLock(r) : next <= u
       /\ owner[next] = Nobody
       /\ owner' = [owner EXCEPT ![next] = r]
       /\ Goto(r, IF ToLock(r) = {next} THEN "find" ELSE "lock")
  /\ UNCHANGED <<askVars, mine, conv, dbVars, held, reply, invited, clientVars, faults>>

\* findExistingDirectConversationId: the conversations of the inviter ...
FindOwn(r) ==
  LET own == {c \in DOMAIN db : by[r] \in db[c]} IN
  /\ pc[r] = "find"
  /\ mine' = [mine EXCEPT ![r] = own]
  /\ Goto(r, IF own = {} THEN "insert" ELSE "shared")
  /\ UNCHANGED <<askVars, owner, conv, dbVars, held, reply, invited, clientVars, faults>>

\* ... those of them the invited user is in, and the first with two members.
FindShared(r) ==
  LET shared == {c \in mine[r] : to[r] \in db[c] /\ Cardinality(db[c]) = 2} IN
  /\ pc[r] = "shared"
  /\ \/ /\ shared = {}
        /\ Goto(r, "insert")
        /\ UNCHANGED conv
     \/ /\ \E c \in shared : conv' = [conv EXCEPT ![r] = c]
        /\ Goto(r, "load")
  /\ UNCHANGED <<askVars, owner, mine, dbVars, held, reply, invited, clientVars, faults>>

\* Mutant: the chat list is left as it is.
SucceedQuietly(r) ==
  /\ Finish(r, "ok")
  /\ UNCHANGED stale

\* The inviter's client reloads its chat list (onSuccess of useInviteUser).
Succeed(r) ==
  /\ Finish(r, "ok")
  /\ stale' = stale \cup {by[r]}

\* The conversation and the membership exist (nothing deletes them), and the
\* transaction, which wrote nothing, commits.
AnswerExisting(r) ==
  /\ pc[r] = "load"
  /\ owner' = Unlocked(r)
  /\ Succeed(r)
  /\ UNCHANGED <<askVars, mine, conv, dbVars, invited, chats, blank, faults>>

\* The conversation and its two members are inserted; nobody else sees them yet.
Insert(r) ==
  /\ pc[r] = "insert"
  /\ conv' = [conv EXCEPT ![r] = nextId]
  /\ nextId' = nextId + 1
  /\ Goto(r, "commit")
  /\ UNCHANGED <<askVars, owner, mine, db, held, reply, invited, clientVars, faults>>

\* The members of the new conversation become visible, the row locks are free.
Committed(r) ==
  /\ db' = [c \in DOMAIN db \cup {conv[r]} |-> IF c = conv[r] THEN Pair(r) ELSE db[c]]
  /\ owner' = Unlocked(r)
  /\ UNCHANGED nextId

Commit(r) ==
  /\ pc[r] = "commit"
  /\ Committed(r)
  /\ Goto(r, "tell")
  /\ UNCHANGED <<askVars, mine, conv, held, reply, invited, clientVars, faults>>

-----------------------------------------------------------------------------
(* After the commit *)

\* The membership of the invited user is read through the repository, on a second
\* connection, while the first is still held; then it is emitted.
Tell(r) ==
  /\ pc[r] = "tell"
  /\ Free
  /\ invited' = invited \cup {<<to[r], conv[r]>>}
  /\ Succeed(r)
  /\ UNCHANGED <<askVars, owner, mine, conv, dbVars, chats, blank, faults>>

-----------------------------------------------------------------------------
(* Failures *)

Fault == faults < MaxFaults /\ faults' = faults + 1

\* A query of the transaction fails, or a key cannot be used: ROLLBACK.
Rollback(r) ==
  /\ pc[r] \in InTransaction
  /\ Fault
  /\ owner' = Unlocked(r)
  /\ Finish(r, "error")
  /\ UNCHANGED <<askVars, mine, conv, dbVars, invited, clientVars>>

\* The pool cannot open a connection.
ConnectFails(r) ==
  /\ pc[r] = "connect"
  /\ Fault
  /\ Finish(r, "error")
  /\ UNCHANGED <<askVars, owner, mine, conv, dbVars, invited, clientVars>>

\* BEGIN fails outside the try: the connection is never given back.
BeginFails(r) ==
  /\ pc[r] = "begin"
  /\ Fault
  /\ Goto(r, "done")
  /\ reply' = [reply EXCEPT ![r] = "error"]
  /\ UNCHANGED <<askVars, owner, mine, conv, dbVars, held, invited, clientVars>>

\* The commit took effect, and its reply is lost.
CommitUnconfirmed(r) ==
  /\ pc[r] = "commit"
  /\ Fault
  /\ Committed(r)
  /\ Finish(r, "error")
  /\ UNCHANGED <<askVars, mine, conv, invited, clientVars>>

\* The query after the commit fails: there is nothing to roll back, and the
\* request ends with an error although the conversation exists.
TellFails(r) ==
  /\ pc[r] = "tell"
  /\ Fault
  /\ Finish(r, "error")
  /\ UNCHANGED <<askVars, owner, mine, conv, dbVars, invited, clientVars>>

-----------------------------------------------------------------------------
(* The clients *)

\* listConversationsForUser: conversations of two that the user is a member of.
Listed(u) == {c \in DOMAIN db : u \in db[c] /\ Cardinality(db[c]) = 2}

\* The window is opened or gains focus when the list is older than staleTime.
Focus(u) ==
  /\ u \in Away
  /\ stale' = stale \cup {u}
  /\ UNCHANGED <<pc, askVars, owner, mine, conv, dbVars, held, reply, invited, chats,
                 blank, faults>>

\* The query "conversations" is fetched again once it was invalidated.  An
\* invitation that arrives shows a toast and leaves the list as it is.
Refetch(u) ==
  /\ u \in stale
  /\ Free
  /\ chats' = [chats EXCEPT ![u] = Listed(u)]
  /\ stale' = stale \ {u} /\ blank' = blank \ {u}
  /\ UNCHANGED <<pc, askVars, owner, mine, conv, dbVars, held, reply, invited, faults>>

\* getConversationsApi turns an error into an answer without data: the query has
\* succeeded, is fresh and is not tried again, and the list is empty.
RefetchFails(u) ==
  /\ u \in stale
  /\ Fault
  /\ chats' = [chats EXCEPT ![u] = {}]
  /\ stale' = stale \ {u} /\ blank' = blank \cup {u}
  /\ UNCHANGED <<pc, askVars, owner, mine, conv, dbVars, held, reply, invited>>

-----------------------------------------------------------------------------

Handle(r) ==
  \/ Connect(r) \/ Begin(r) \/ Lock(r)
  \/ FindOwn(r) \/ FindShared(r) \/ AnswerExisting(r)
  \/ Insert(r) \/ Commit(r) \/ Tell(r)
Fail(r) ==
  \/ ConnectFails(r) \/ BeginFails(r) \/ Rollback(r)
  \/ CommitUnconfirmed(r) \/ TellFails(r)

Next ==
  \/ \E r \in Requests :
       \/ \E ask \in Asks[r] : Ask(r, ask[1], ask[2])
       \/ Handle(r)
       \/ Fail(r)
  \/ \E u \in Ids : Refetch(u) \/ RefetchFails(u) \/ Focus(u)

Spec == Init /\ [][Next]_vars

\* Postgres answers every query, the pool and the row locks are handed on in the
\* order of the waiters, and a client reloads an invalidated list, well or badly.  No user need
\* ever invite anybody or come back to a window.
Fairness ==
  /\ \A r \in Requests : WF_vars(Handle(r))
  /\ \A u \in Ids : WF_vars(Refetch(u))

FairSpec == Spec /\ Fairness

-----------------------------------------------------------------------------
(* Properties *)

TypeOK ==
  /\ pc \in [Requests -> PC]
  /\ by \in [Requests -> Ids \cup {0}] /\ to \in [Requests -> Ids \cup {0}]
  /\ owner \in [Ids -> Requests \cup {Nobody}]
  /\ mine \in [Requests -> SUBSET DOMAIN db]
  /\ conv \in [Requests -> Nat]
  /\ DOMAIN db \subseteq 1..(nextId - 1) /\ nextId \in Nat \ {0}
  /\ \A c \in DOMAIN db : db[c] \subseteq Keyed
  /\ held \subseteq Requests
  /\ reply \in [Requests -> {"none", "rejected", "error", "ok"}]
  /\ invited \subseteq Ids \X DOMAIN db
  /\ chats \in [Ids -> SUBSET DOMAIN db]
  /\ stale \subseteq Ids /\ blank \subseteq Ids /\ faults \in Nat

\* Two users have at most one direct conversation, however many invitations run
\* at once, and although an invitation may fail after its commit and be repeated.
OneConversationPerPair ==
  \A c, d \in DOMAIN db : db[c] = db[d] => c = d

\* A successful reply names a committed conversation of exactly the two users.
RepliesHold ==
  \A r \in Requests : reply[r] = "ok" =>
    /\ conv[r] \in DOMAIN db
    /\ db[conv[r]] = Pair(r)

\* Every invitation is answered: neither the row locks nor the connections of
\* the pool leave requests waiting for each other (with PoolSize above the
\* number of requests; each holds one connection while it waits for another).
EveryInviteAnswered ==
  \A r \in Requests : (pc[r] # "new") ~> (reply[r] # "none")

\* The chat list of a user who invited somebody eventually shows the conversation,
\* unless the request for it fails: the empty list is then kept until the user
\* comes back to a list that is out of date, or invites again.
InviterSeesIt ==
  \A r \in Requests, u \in Ids :
    (reply[r] = "ok" /\ by[r] = u) ~>
      (conv[r] \in chats[u] \/ u \in blank)

\* The requests implement the promise about direct conversations.
Promise == INSTANCE DirectConversations
  WITH conversations <- {<<db[c], c>> : c \in DOMAIN db},
       answers <- {<<r, Pair(r), conv[r]>> : r \in {q \in Requests : reply[q] = "ok"}}

ImplementsDirectConversations == Promise!Spec
=============================================================================
