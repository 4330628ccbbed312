# Webchat in TLA+

This directory is a verification development of the webchat repository: TLA+
modules translated from its source, TLC configurations that check them on small
instances, and theorems checked by TLAPS. Paths below are relative to the root
of the repository; `backend` stands for `webchat-backend/src` and `frontend` for
`webchat-frontend/src`.

## 1. The system

The backend is a NestJS application that runs as any number of identical
instances. They share one Postgres database and one Redis server. The client is
a React application; each browser window holds one WebSocket to some instance
and calls the HTTP interface of any.

A message takes this way:

1. the client encrypts it and sends `send_message` on its socket;
2. the **gateway** of the instance appends it to the Redis stream
   `chat:messages` and answers;
3. the **message worker** of some instance, a consumer of the group
   `chat-workers`, checks the membership of the sender, inserts the row with
   status QUEUED, publishes it on the channel `chat:outbound`, and acknowledges
   the stream entry;
4. the **fanout** of *every* instance receives it, emits `new_message` to the
   recipient's sockets in its **connection registry**, increments the unread
   count of the recipient unless its **chat activity** map says that the
   recipient is viewing the conversation, moves the row to DELIVERED, and
   publishes the acknowledgement, which every fanout handles again to tell the
   sender;
5. receipts (`delivered`, `seen`) come back from the clients through the
   gateway, on two more channels, and move the row to DELIVERED or SEEN.

Beside this way are invitations (an HTTP request that creates a direct
conversation in one transaction), presence (the gateway broadcasts who comes and
goes), sign-up and login (with a Bloom filter in Redis in front of the
database), read-only queries for history and search that a window reads page by
page, and what a window keeps to itself: its session and keys, its cache, and
the message being composed.

### 1.1 Components

| Component | State it keeps | Operations | Interacts with | What is hard | What makes it correct |
|---|---|---|---|---|---|
| Message worker `backend/chat/services/message-worker.service.ts` | stream, consumer group, pending list (Redis); the batch in hand; message rows | start (create group, claim idle entries), consume loop, `processEntry` | gateway (XADD), Postgres, Redis channel | every await can fail before or after its effect; process death; several instances in one group | nothing is acknowledged before it is saved and published; only members' messages are stored; rows repeat only with redelivery |
| Chat fanout `backend/chat/services/chat-fanout.service.ts` | status and unread columns; handlers in progress | five channel handlers, `persistMessageStatus`, `onModuleInit` | every instance hears every event; registry, activity, conversation service | handlers are not awaited, so all interleave; read-then-write of the status; published counts may overtake each other | counts are exact, a message is SEEN only when somebody other than its sender has said so, the sender learns of it |
| Gateway `backend/chat/chat.gateway.ts` | `userId`, `socketId` on each socket | connect, disconnect, send, receipts, typing, set active conversation | registry, activity, Redis | the token is verified asynchronously: the socket may close or send meanwhile | whoever is connected is registered, whoever left is not, unless during the verification |
| Connection registry `backend/chat/services/connection-registry.service.ts` | `socketsByUser` | register, remove, `emitToUser`, online users | gateway, fanout | drops stale sockets on its own, silently | users with a connection, and no others, are online |
| Chat activity `backend/chat/services/chat-activity.service.ts` | `activeChats`: active conversation per socket | register, remove, set, clear, is-viewing | gateway, fanout | local to one instance; an entry left behind suppresses counts | no closed socket is viewing anything |
| Conversations `backend/conversation/services/conversation.service.ts` | conversation, member and user rows; pool connections | invite, list, unread counts | Postgres, registry (`conversation_invitation`) | concurrent invitations of one pair; row locks; a second pool connection after the commit; failures after the commit | one conversation per pair; every request ends; replies are true; both chat lists show it |
| Client socket and presence `frontend/context/SocketContext.tsx`, `PresenceContext.tsx` | current socket, reconnect timer, `onlineUsers` | connect, reconnect, sign out, presence events | gateway | the two ends of a connection break at different times | comes back; shows who is online |
| Client chat list and badges `frontend/modules/chatlist/pages/ChatPage.tsx`, `hooks/chat/useUnreadCountSocketEvents.ts` | selected conversation, unread counts shown | select a conversation, count events | mark-as-read request, set active conversation | a count on its way while the count is reset | the badge agrees with the stored count |
| Client conversation state `frontend/hooks/chat/*`, `hooks/useConversationMessages.ts` | messages by client id and by server id | optimistic send, new message, receipts, history pages | socket, history request | keys, pages, events and answers in any order, and another conversation opened in between | every peer message once, statuses true, receipts only for what was shown, sends settle, loading ends |
| Sign-up and login `backend/auth/services/auth.service.ts`, `backend/redis/services/*.ts`, `backend/user/services/user.service.ts` | user and profile rows, Bloom filter, cache of users | sign up, log in | Postgres, Redis | two inserts without a transaction; `BF.ADD` is not awaited; a "no" of the filter is final, and nothing fills it again; the cache may be behind | one account per name; only its password lets anyone in; who was told of success can log in; nobody gets in without a profile |
| Client session `frontend/context/AuthContext.tsx`, `utils/auth-session.ts`, `api-client/api-client.ts`, `config/query-client.ts` | the token in `localStorage`, shared by all windows; user, keys and cached queries of each window | sign in, up and out, derive keys, 401, `auth_error`, reload | HTTP interface, socket | windows are not told of each other; keys and answers come after the user has changed; a 401 or an `auth_error` takes whatever token there is | keys, requests and lists are those of the user shown; a session ends for a reason; keys come and stay |
| Message composer `frontend/modules/chatlist/components/ChatPanel.tsx`, `hooks/chat/useConversationMessageSender.ts`, `useConversationKey.ts`, `components/ImageUploadExample.tsx`, `backend/upload/upload.controller.ts` | draft, image, uploads, the send under way, typing timer: one of each for all chats | type, attach, upload, send, change the chat, leave | socket, upload request, peers | uploads, keys, answers and timers come back in another chat | nothing prepared is lost; nothing is sent twice; sends end; the indicator goes out |
| History and search `backend/conversation/controllers/messages.controller.ts`, `backend/search/search.service.ts`, `frontend/hooks/chat/useConversationHistoryMessages.ts`, `modules/chatlist/components/NewChatModal.tsx` | pages in the query cache, the scroll position and its latch | next page, refetch, scroll, debounced search | Postgres | pages against inserts, failures, offline times and refetches; two ways to read a cursor | no gap, an end is an end, scrolling gets there, "No matches found" is true |
| Profiles, GIF search, WebCrypto, rendering, configuration, the presence service | none, or one request and one reply | | | | |

The hazards of the code, each at its line with the properties that would catch
it, are the list `hazards` in `PROJECT.json`.

## 2. Modules

| Module | What it is | Extends / instantiates |
|---|---|---|
| `DurableDelivery` | abstract: at-least-once delivery | |
| `MessageWorker` | gateway XADD, stream, group, workers, database rows | implements `DurableDelivery` (`Promise`) |
| `LiveDelivery` | abstract: what is stored of a message and told of it, and on what grounds | |
| `ChatFanout` | fanout handlers of all instances, database status and counts, clients | implements `LiveDelivery` (`Promise`) |
| `Connections` | gateway connections, registry, activity, client socket and presence | |
| `DirectConversations` | abstract: one direct conversation per pair, true answers | |
| `DirectInvite` | invitations: transaction, locks, pool, failures, chat lists | implements `DirectConversations` (`Promise`) |
| `AccountStore` | abstract: one account per name, let in by its password only | |
| `Accounts` | sign-up and login over rows, Bloom filter and cache | implements `AccountStore` (`Promise`) |
| `ClientMessages` | one window's open conversation: list, keys, pages, sends, receipts, socket; the server as its environment | |
| `Composer` | the composer of the chat page: text, image, uploads, the send, the typing indicator | |
| `ClientSession` | the sessions of all windows of one browser: token, users, keys, cached list | |
| `PagedLists` | the paged history and the paged search: endpoints, query cache, scrolling | |
| `…Proofs` | the inductive invariant of a module and the theorems about it | the module, `TLAPS` |
| `BrowserProofs` | the same for `Connections` and `ClientSession`, the two modules about the windows of a browser | `Connections`, `ClientSession`, `TLAPS` |
| `BrowserWindows` | the users and windows that both modules are about | |
| `MC…` | the instances for TLC: users, conversations, placements, symmetry | the module of the same name |

Definitions marked `Mutant:` in a comment are deliberate bugs, each a variant of
the definition that follows them. They are used by no specification; a property
is worth stating only when such a variant violates it, and `PROJECT.json` names
the variant for each property.

The modules divide the system where its parts meet: `MessageWorker` ends with
the publication of a row, and `ChatFanout` starts with it (its actions
`SaveMessage` and `PublishOutbound` are what the fanout sees of a worker, in the
order that `MessageWorker` proves: a published row is saved). `ChatFanout`
reduces a user's connections to one place (`at`) and one active conversation;
`Connections` takes that place apart into sockets. `ClientMessages` is the other
end of the same events: the stored status of a message and the events emitted to
one window are its environment, and it says what the window makes of them. It
takes the first page of the history for the whole; `PagedLists` is about the
other pages, and takes decryption for one step. `Composer` is what comes before
`sendMessage` in `ClientMessages`, over all chats, with the answer of the server
as an event that may come or not. `ClientSession` and `Accounts` are two sides
of a sign-in: the one takes the server's answer as given, the other says what it
is.

### 2.1 `MessageWorker` and the code

An entry id is its index in `stream`, a row id its index in `rows`. `pc[w]`
names the await at which the worker of instance `w` is:

| `pc` | await in `message-worker.service.ts` | action |
|---|---|---|
| `down` | process not running | `Boot`: `onModuleInit` up to the first XAUTOCLAIM |
| `claim` | XAUTOCLAIM in `recoverPendingEntries` | `Claim`, `ClaimFails` |
| `read` | XREADGROUP in `consumeLoop` | `Read`, `ReadNothing`, `ReadLost` |
| `entry` | members query in `processEntry` (`parseStreamEntry` before it) | `Lookup`, `ParseFails` |
| `save` | `messageRepo.save` | `Save`, `SaveUnconfirmed` |
| `publish` | PUBLISH `chat:outbound` | `Publish`, `PublishUnconfirmed` |
| `ack` | XACK | `Ack` |

`CallFails` is a call that fails without effect, at any of the last four;
`Caught` is the catch block, which leaves the entry pending. `Crash` is the death
of the process: no shutdown hooks are enabled, so `onModuleDestroy` is never
reached. `Age` marks a pending entry as idle for
`CHAT_STREAM_CLAIM_MIN_IDLE_MS`, whether its worker is dead or merely slow, so a
starting instance may claim what a live one is still working on. Redis replies
in id order. XAUTOCLAIM looks at the pending entries from the start id on, until
it has found `COUNT` idle ones or has looked at ten times as many (`Scanned`;
`ScanFactor` is the ten), and returns those and where it stopped (`NextStart`):
its reply may be empty although idle entries follow, and the code then ends the
recovery, whatever the start id (`brokeOff`, a history variable). These are the
external definitions of the module. The stream's trimming
(`MAXLEN ~`) is not used by the code and not modelled. A message's text is
abstracted to its conversation, its sender and whether it has a payload.

### 2.2 `ChatFanout` and the code

`inbox[i]` holds what Redis has sent to the subscriber connection of instance
`i`; `Publish` copies an event to the instances that are up. `redisMessageHandler`
starts a handler with `void`, so each event becomes a *task*, and the tasks of an
instance interleave: `loc` is the await at which one stands. `HandleOutbound`,
`HandleAck`, `HandleReceipt` and `HandleUnread` are the handlers up to their
first await; `Increment`, `ReadCount`, `AnnounceCount`, `ReadStatus`,
`WriteStatus`, `PublishAck`, `Find`, `Reset`, `AnnounceZero` are the awaits;
`Proceed` is the loop of the receipt handlers over the snapshot `findBy` gave
them. `status` and `unread` are columns; `got`, `told` and `badge` are what
clients were sent. `away` is a history variable: the pairs of a user and a
conversation that the user has not viewed all the time.

Clients are reduced to what the fanout depends on: `Connect`, `Disconnect`,
`OpenConversation` (with the mark-as-read request it sends, which arrives later
as `MarkAsRead`), `CloseConversation` and `SendReceipt`. A user has at most one
socket here. A failed call (`CallFails`) has no effect and ends the handler, as
its catch block does.

`SendReceipt` is the gateway's part of both receipts, which asks only for an
authenticated socket: whoever names a message may be its recipient, its sender
or a user of no conversation with it. The handlers skip what the user has sent.

Seen as `LiveDelivery`, `received` and `marked` are the messages that somebody
other than their sender has named in a receipt of either kind, and `failed` says
that `faults > 0`; inboxes, handlers, places and counts are left out.

### 2.3 `Connections` and the code

A socket is a window and a number. `link[s]` is its `readyState` at the server,
which changes on its own (`Break`), and `phase[w]` the client's side, which
changes at another time (`Lost`). `verifying` holds the sockets for which
`handleConnection` awaits `jwtService.verify`; `session` those with a `userId`;
`registry` is `socketsByUser`, flattened to a set of sockets, and `activity` is
`activeChats`. `Verified`, `Refused` and `Disconnect` are the two ends of
`handleConnection` and the whole of `handleDisconnect`; after the await these are
synchronous, so each is one action with its broadcast, which drops stale sockets
as `emitToUser` does. `Prune` is any other `emitToUser` of the application that
meets a stale socket. On the client, `Connect`, `Reconnect`, `Lost`, `Logout` and
`Receive` are `SocketContext`, `Shows` is `PresenceContext`. Events of a
connection arrive in order, and those still on their way are lost when the client
leaves it. `Restart` empties the maps of the instance. `hungUp` and `closedEarly`
are history variables: the sockets the client has closed, and those whose close
event came while their token was verified. `handleDisconnect` finds no `userId`
on the latter and does nothing, and `Verified` registers them all the same.

### 2.4 `DirectInvite` and the code

`inviteUserById` is a sequence of queries and `pc[r]` the one request `r` waits
for. `Ask` is the handler up to the lookup of both users, `Connect` and `Begin`
the query runner, `Lock` the row locks of `SELECT … ORDER BY id FOR UPDATE`, taken
one at a time in id order, `FindOwn` and `FindShared` the two queries of
`findExistingDirectConversationId`, `AnswerExisting` the reply with the
conversation found, `Insert` and `Commit` the new one, `Tell` the membership query
after the commit and the event. `held` are the pool connections that requests
keep; a query outside the transaction needs a free one for its duration (`Free`).
Failures: `ConnectFails`, `BeginFails` (outside the `try`, so the connection is
never given back), `Rollback`, `CommitUnconfirmed`, `TellFails`. On the client,
`Succeed` includes the invalidation of the chat list by `useInviteUser`,
`Refetch` and `RefetchFails` are the query, which makes of an error an answer
without data that counts as fresh, and `Focus` the user's return to a window
whose list is older than its `staleTime`; `blank` holds the users whose list is
such an answer. Key material is abstracted to whether a user has a public
key.

### 2.5 `ClientMessages` and the code

`bubbles` is the list `messages` of `useConversationMessages`. An entry has the id
of the client until a patch or an upsert gives it that of the row, and an own
entry also keeps its `clientMsgId`; `Matches`, `Upserts`, `Patches` and
`Hydrates` are the reducer. `findIndex` takes the first match in the order of the
timestamps, which come from two clocks: any match may be the first, so these
operators return the set of possible lists.

`Open` is the selection of a conversation with all effects that depend on it: the
list and the refs are reset, the pending acknowledgements dropped, the history
effect cancelled and run again, the query started unless its pages are recent.
`key` lags behind `selected` until `DecryptKey`, as the state of
`useConversationKey` does; `DecryptKeyFails` is its catch block, after which there
is no key (`keyless`) until the effect runs again (`Open`, or `RetryKey`: the
private key has come, or the conversation is selected anew as a refetched list has
it). `Fetch`, `Refetch` and `FetchFails` are the query
(`getMessagesApi` returns an error as a page without items, so a failed query
looks like an empty conversation), `DecryptPage` the end of the decryption, with
the hydration of the list. `Submit` is `ChatPanel.submitMessage` with
`sendMessage` up to the encryption, `Send` what follows it, `Timeout` the timer;
`ReceiveQueued`, `ReceiveDelivery`, `ReceiveNew` and `DecryptNew` are the
listeners; `MarkDelivered` and `MarkSeen` the effects that send receipts.

`HandleUp` to `PeerSeen` are the server as `MessageWorker` and `ChatFanout`
describe it, reduced to what this window can tell: `stage[m]` is how far
`handleOutboundMessage` and `handleDeliveryAck` are with a message, `writing` the
messages whose status a handler of a delivered receipt has read and not yet
written. Reads and writes of the status are steps of their own, and a write goes
over whatever is stored (`Store`), so a row may fall back from SEEN to DELIVERED
here as it does in `fanout_seen`. Rows saved twice, and updates of the status that
fail, are left to those modules. `shown` and `wasSeen` are history variables: what
was displayed, and which rows have ever been SEEN.

### 2.6 `Accounts` and the code

`pc[r]` is the await at which request `r` is. A sign-up goes through `insert`
(`Insert`, `InsertTaken`: SQLSTATE 23505 of the unique index), `profile`
(`InsertProfile`, which also sends `BF.ADD` without waiting for it) and `cache`
(`CacheUser`, the awaited SETEX). `adding` holds the `BF.ADD` that are on their
way; since one Redis connection handles its commands in order, the SETEX is
answered only after it (`CacheUser` needs `r \notin adding`). A login goes through
`filter` (`CheckBloom`; `FalsePositive` and `CheckBloomFails` let it on), `lookup`
(`ReadCache`), then `find` and `fill` after a miss or `confirm` after a hit.
`QueryFails`, `InsertUnconfirmed`, `InsertProfileUnconfirmed`, `BloomAddFails`,
`ReadCacheFails` and `CacheFails` are what the code makes of failed calls: some
end the request, some are swallowed. `Flush` is Redis without its data, `Expire`
the hour of a cache entry, `Crash` an instance with the requests it handles.
Names are abstracted to a normalized name and the form in which it was typed
(`Normalize`). `known`, `lost` and `blind` are history variables.

### 2.7 `Composer` and the code

The text is the set of pieces typed so far, an image a file with its `stage`,
from `handleUpload` and the encryption (`Drop`, `Paste`, `Extracted`) through
the events of progress to the answer (`UploadSucceeds`, `UploadFails`). `key`
lags behind `chat` (`Select`, `KeyDecrypted`), and `IsLoading` follows it.
`Submit` is `submitMessage` and `sendMessage` up to the encryption, `Emit` the
event, `Queued`, `AckTimeout` and `EmitFails` its three ends; `Strand`, in
`Select`, is the cleanup that leaves a send without an end. `Type` and `Erase`
are the two branches of `onChange` with the one timer, `TypingTimeout` its end;
`shown` holds the chats whose peer is shown "typing". `reached` are the chats
whose peer gets what this window sends: the gateway refuses the event before the
socket is authenticated and emits it to the sockets of its own instance, and a
peer whose connection is lost keeps what it shows. It is any set at the start, is
empty after `Lose`, shrinks with `Part` and grows with `Meet`. `Leave` unmounts the
page. `excused` and `unheard` are history variables: what may be gone, and which
stop events were never sent, or were sent and reached nobody.

### 2.8 `ClientSession` and the code

A token is the number of its issue. `token` is `localStorage`, which all windows
share; `user`, `keys`, `page` and the cached `list` are each window's. `Accepted`
is the successful `loginApi` or sign-up, `Derived` the end of
`setCryptoDecryptedPassword`, after which the chat page opens and the list is
fetched (`Fetches`, with the token of that moment). `Unauthorized` is the response
interceptor on 401: it clears the token there is and sends the window to
`/signin`, which is a `Reload`. `dial` is the token with which the current socket was
opened, until it is answered; `connect` replaces that socket without closing it,
so the earlier ones are heard on (`stray`). `Answered` is the end of
`handleConnection`, `TurnedAway` the `auth_error` of a token that is over by then,
which does what a 401 does. `SignOut` is `handleLogout`, which leaves the
query cache alone; `Stale`, `Focus` and `Collect` are the times of React Query.
Keys are boxes that only their key opens (`Wrap`, `Unwrap`), made as
`generateCryptoData` makes them. `signer`, `overtaken` and `mixed` are history
variables.

### 2.9 `PagedLists` and the code

The module is the history or the search, as `kind` says; a key is a conversation
or a search term. `HistoryPage` and `SearchPage` are the two endpoints, each with
its own rule for the next cursor: the history has one when the page is full, the
search when it found one row more. `a OR b AND c` in the search binds as SQL binds
it. `fetch[k]` is a fetch of all pages, one after the other, each from the end of
the one before (`AnswerAll`), or of the next one (`AnswerNext`), as an infinite
query of TanStack Query does; these operators and the paused requests of an
offline window are external. `ScrollHistory` is `handleMessagesScroll` with its
latch, `ScrollResults` the handler of the modal; pixels are reduced to three
zones. `OpenModal`, `ResetInput`, `CloseModal`, `Type` and `Debounce` are the
modal, `NoMatches` its `showNoResults`. `since` holds the rows there were when the
first page was read, so that later ones do not count as missing.

## 3. Runs

`tlc -workers 2 -config X.cfg MC….tla` reproduces each. "Violation" runs show a
place where the code does not do what a comment, a document or its own guard
says; they are the `findings` of `PROJECT.json`, with the line quoted.

| Run | Module, configuration | Checks | Shows |
|---|---|---|---|
| `worker` | `MCMessageWorker`, `MessageWorker.cfg` | `NothingLost`, `SavedAtMostOncePerDelivery`, `ImplementsDurableDelivery`, `DeliveredUnlessDeath`, `StartRecoversStale` | under one crash and one failed call, with two instances and every kind of entry, an entry leaves the pending list only when its row was saved and published or must not be; rows repeat only with redelivery; the whole implements at-least-once delivery; without a failure every message is published, and a start claims every idle entry, batch after batch, until a call of XAUTOCLAIM comes back empty |
| `fanout` | `MCChatFanout`, `ChatFanout.cfg` | `UnreadIsExact`, `BadgeAgrees`, `ImplementsLiveDelivery` | on one instance, with all handlers interleaving, a failed call or a crash, a move, and a receipt of the recipient, the sender or a stranger: counts and badge are right once all is quiet; a status is stored only because the message was published or somebody other than its sender named it, never back to QUEUED, and the sender is told of no other, and of none that was not stored unless a call failed |
| `fanout_live` | `ChatFanoutLive.cfg` | `SenderLearnsSeen`, `PublishedIsDelivered` | across two instances, without failures |
| `fanout_seen` | `ChatFanoutSeen.cfg` | violates `SeenStaysSeen` | the read-then-write of `persistMessageStatus` turns SEEN into DELIVERED |
| `connections` | `MCConnections`, `Connections.cfg` | `NobodyMissing`, `NobodyLingers`, `ComesBack`, `SignOutIsSeen` | nobody who is connected is missing, and nobody is shown but the connected and those whose socket closed while its token was verified (`closedEarly`), although either end may see a close first |
| `invite` | `MCDirectInvite`, `DirectInvite.cfg` | `OneConversationPerPair`, `EveryInviteAnswered`, `InviterSeesIt`, `ImplementsDirectConversations` | three concurrent invitations with two failures, of queries or of the inviter's list, make one conversation per pair, all are answered, truthfully, and the inviter's list shows it unless its request failed |
| `accounts` | `MCAccounts`, `Accounts.cfg` | `KnownNotRefused`, `AdmittedHasProfile`, `ImplementsAccountStore` | two sign-ups of one name on two instances, three logins, two failures and a crash: one account, nobody in with another password or without a profile, and nobody refused after an answered sign-up unless Redis lost the entry |
| `accounts_missed` | `AccountsMissed.cfg` | violates `NeverMissed` | a user whose entry in the filter was lost is refused with the right password, for good |
| `client` | `MCClientMessages`, `ClientMessages.cfg` | `PeerMessagesOnce`, `StatusIsTrue`, `SeenOnlyWhenShown`, `SendSettles`, `LoadsAtLast`, `ReceiptsArrive` | one message and a reader who opens, returns, refetches and loses the connection: no peer message twice, no status of an own message that the server has not come to (SEEN, if the row has ever been), no receipt for what was not shown; sends settle, loading ends and receipts arrive, but for the exceptions below |
| `composer` | `MCComposer`, `Composer.cfg` | `NothingIsLost`, `TwiceOnlyAfterFailure`, `SendingEnds`, `TypingStops` | two chats, a piece of text, an image, two messages, a loss of the connection, of a peer's connection or of the page |
| `session` | `MCClientSession`, `ClientSession.cfg` | `KeysAreOwn`, `RequestsAreOwn`, `ListIsOwn`, `SessionEndsForReason`, `KeysArrive` | two users in two windows of one browser, two tokens that expire, sockets opened with them and turned away, and a list that is fetched, cached and refused |
| `lists` | `MCPagedLists`, `PagedLists.cfg` | `NoGap`, `EndIsComplete`, `NoMatchesIsTrue`, `ScrollingReachesEnd` | four rows in pages of two, a row added, a failed page or a time offline, and a user who scrolls, changes the list and comes back |

The type invariants (`TypeOK`, `SessionTypeOK`) are theorems (section 4) and not
listed with the runs.

What some properties except is what the code gets wrong, and each exception is
reached in its run:

- a reply of XAUTOCLAIM that is empty because the scan of that call has met no idle
  entry ends the recovery, and the idle entries behind wait for another start
  (`brokeOff` in `StartRecoversStale`);
- a socket that closes while its token is verified is registered afterwards, stays
  in the registry and keeps its user online, until an event is sent to that user or
  the instance restarts (`closedEarly` in `NobodyLingers` and `SignOutIsSeen`);
- a chat list whose request failed is empty and counts as fresh (`blank` in
  `InviterSeesIt`);
- a message shown as seen may have fallen back to DELIVERED in its row, and is
  shown so when the conversation is opened again (`wasSeen` in `StatusIsTrue` and
  `ReceiptsArrive`);
- a conversation whose key could not be decrypted loads for ever (`keyless` in
  `LoadsAtLast`);
- a send whose conversation is left is never settled (`SendSettles`; the phase
  `stranded` in `SendingEnds`), and `ChatPanel.isSending` stays true: the cleanup
  of the sender drops the pending acknowledgements without resolving or
  rejecting them;
- a hydration that is cancelled by opening an empty conversation leaves
  `isHydratingMessages` true (`Abandoned` in `LoadsAtLast` and `ReceiptsArrive`);
- an own message may have a second entry (`PeerMessagesOnce` allows two): a page
  read before the acknowledgement arrives carries no `clientMsgId`;
- a receipt that is lost is not sent again (`faults > 0` in `ReceiptsArrive`);
- what is typed or uploaded while a send is under way is wiped by its answer
  (`excused` in `NothingIsLost`);
- typing in a second chat, an answer or the loss of the connection swallows the
  stop event of the first chat; one that is sent may be refused, or miss a peer who
  is away or at another instance (`unheard` in `TypingStops`);
- keys whose derivation ends after a sign-out or another sign-in are set all the
  same, over those of the user (`overtaken` in `KeysAreOwn` and `KeysArrive`); a window keeps asking with the token of a
  user who signed in elsewhere (`signer` in `RequestsAreOwn`); the cached list
  outlives a sign-out (`mixed` in `ListIsOwn`);
- a late 401 ends a session that has just begun, and so does the `auth_error` of a
  socket opened with an expired token, of another window too
  (`SessionEndsForReason` allows it for a request or a socket with another token);
- users who match by username come again on every page, and when they fill one,
  nobody after them is reached (`byName` in `ScrollingReachesEnd`); a search that
  waits for the window to be online says "No matches found" (`paused` in
  `NoMatchesIsTrue`).

`CHECK_DEADLOCK FALSE` is set where the system may really stop: users need not
send, invite or move, and the numbers of sockets, requests and messages are
bounded. In `MessageWorker` a live worker can always read again, in `Composer`
and `ClientSession` the user can always go on, so deadlock is checked.

### 3.1 Bounds

Every bound is a constant of the module, named and used in a guard:

- `MaxEntries`, `MaxDeliveries`, `MaxCrashes`, `MaxFaults` (`MessageWorker`). Two
  entries and `BatchSize = 2` give a batch whose first entry blocks, fails or is
  given up before the second; `ClaimBatch = 1` makes the cursor loop of the
  recovery take two turns; `ScanFactor = 1` in place of Redis's 10 lets two pending
  entries show a call that comes back empty before the end of the list, which in
  fact takes more than a thousand; two deliveries are the original one and one claimed by
  the other instance or after a restart. Users include a stranger.
- `MaxReceipts`, `Marking`, `Movers`, `MaxMoves`, `MaxFaults` (`ChatFanout`).
  Two messages let two outbound handlers, two acknowledgements and a receipt for
  both interleave. One receipt and one move suffice for each to meet a handler at
  every await; in `fanout` it comes from the recipient, the sender, or `carol`, who
  is in no conversation. The two messages are interchangeable, which the symmetry uses.
- `Viewers`, `MaxSockets`, `MaxRestarts` (`Connections`). One window may lose a
  connection and open a second, so a user has two sockets for a while; the other
  stays on its first, for which `NobodyLingers` is stated. The last socket of a
  window does not fail (otherwise no window could come back): a socket may only
  break, and the instance restart, while another is left.
- `Asks`, `Away`, `PoolSize`, `MaxFaults` (`DirectInvite`). Two requests of one
  pair from either side, and a third that shares a user with both or names
  somebody else, give crossed locks and a lock shared by three; the second
  failure lets a lost commit confirmation be followed by another failure, or by a
  chat list that cannot be fetched.
  `PoolSize` is one more than the number of requests: at the number itself the
  requests can wait for each other for ever, each holding a connection and
  waiting for a second (a hazard of the code, and the reason for the bound).
- `Requests`, `MaxFaults`, `MaxCrashes` (`Accounts`). Each request is handled
  once. Two sign-ups of one name with different passwords race for the row; the
  logins have the password of either and come at any time; a second failure lets
  a lost entry of the filter follow a lost confirmation.
- `MaxMsgs`, `MaxFaults`, `MaxEvents` (`ClientMessages`). The reducer treats each
  message by itself, so one message, own or not, meets everything; three events
  are enough to open a conversation, leave it and come back, or to open it, fetch
  again and lose the connection. The second conversation is empty.
- `MaxTyped`, `MaxSent`, `MaxFaults` (`Composer`). One piece of text and one image
  can be sent together, apart, and again after a failure, in either of two chats;
  a second message is what a first one can be confused with. The one fault is a loss
  of either end's connection, or the page is left.
- `MaxTokens` (`ClientSession`). Two tokens are two sign-ins: of one user after
  the other in a window, of two users in two windows, of one user twice; and an
  expired and a valid one for a request or a socket to carry.
- `MaxPages`, `MaxRows`, `MaxFaults`, `MaxMoves` (`PagedLists`). Four rows in pages
  of two are the case in which the last page of the history is full and one more
  request finds nothing; the added row makes it odd. Three moves open a list,
  leave it and come back, or refetch while a next page is asked for.

### 3.2 Fairness

Weak fairness only, of what the runtime does by itself:

- the event loop runs on: a worker, a handler or a subscriber whose next step is
  enabled takes it, and HTTP requests that were sent arrive;
- a dead process is started again (`Boot`), and time passes for an idle entry
  (`Age`);
- `jwtVerify` answers, a closed socket is noticed by the end that has not closed
  it, and the reconnect timer fires. There is deliberately no fairness for a
  connection that merely broke: the code has no heartbeat;
- Postgres grants a row lock or a pool connection to some waiter, and React Query
  fetches an invalidated query;
- the event loop of a browser window, its timers, its requests and its socket go
  on (`ClientMessages`);
- in `Composer` only encryption and the two timers: nothing is asked of the
  server, the network or the user, so that `SendingEnds` rests on the timeout;
- in `ClientSession` the derivation of keys ends, and a window sent to `/signin`
  gets there;
- in `PagedLists` requests are answered or fail, decryptions and timers end, and
  an offline window comes back. That the user scrolls is a premise of
  `ScrollingReachesEnd`, not an assumption of the specification.

No user is ever obliged to act, nothing is obliged to fail, and no instance of
`ChatFanout` is obliged to restart.

## 4. Proofs

`tlapm M.tla` checks each of the eight proof modules, for all values of the
constants under the named assumptions of the modules (sizes positive, bounds
natural numbers, members and requests among the users, special values apart from
the others). Each has the theorems `Invariance` (the inductive invariant `IInv`)
and `TypeCorrect`, in `BrowserProofs` twice (`ConnectionsInvariance`,
`ConnectionTypes`, `SessionInvariance`, `SessionTypes`), and these. Every safety property that a
passing run checks is the subject of one of them.

| Module | Theorems and the properties they state |
|---|---|
| `MessageWorkerProofs` | `NothingIsLost` (`NothingLost`), `OnlyMembersAreStored` (`OnlyMembersStored`), `SavedOncePerDelivery` (`SavedAtMostOncePerDelivery`), `SettledStays` (`SettledForGood`), `Implementation` (`ImplementsDurableDelivery`) |
| `ChatFanoutProofs` | `SeenByOthers` (`SeenOnlyByOthers`), `StaysDelivered` (`NeverRequeued`), `EachInstanceCounts` (`CountedByEach`), `OneInstanceIsExact` (`UnreadIsExact`), `OneInstanceBadge` (`BadgeAgrees`), `Implementation` (`ImplementsLiveDelivery`) |
| `DirectInviteProofs` | `AtMostOneConversation` (`OneConversationPerPair`), `RepliesTrue` (`RepliesHold`), `Implementation` (`ImplementsDirectConversations`) |
| `AccountsProofs` | `KnownIsAdmitted` (`KnownNotRefused`), `ProfileFirst` (`AdmittedHasProfile`), `Implementation` (`ImplementsAccountStore`) |
| `ClientMessagesProofs` | `PeersOnce` (`PeerMessagesOnce`), `StatusesAreTrue` (`StatusIsTrue`), `SeenWhenShown` (`SeenOnlyWhenShown`) |
| `ComposerProofs` | `NothingDropped` (`NothingIsLost`), `NothingTwice` (`TwiceOnlyAfterFailure`), `TypingIsTimed` (`TypingHasTimer`) |
| `BrowserProofs` | `EverybodyIsShown` (`NobodyMissing`), `NobodyIsLeftBehind` (`NobodyLingers`), `KeysOfUser` (`KeysAreOwn`), `RequestsOfUser` (`RequestsAreOwn`), `ListOfUser` (`ListIsOwn`), `EndsForReason` (`SessionEndsForReason`) |
| `PagedListsProofs` | `ListedWithoutGap` (`NoGap`), `CompleteAtEnd` (`EndIsComplete`), `NoMatchesTrue` (`NoMatchesIsTrue`) |

`OnlyMembersStored`, `SettledForGood`, `SeenOnlyByOthers`, `NeverRequeued`,
`CountedByEach`, `RepliesHold` and `TypingHasTimer` are proved and belong to no
run; `ImplementsLiveDelivery`, which a run checks, includes the third and the
fourth.

Two theorems have a hypothesis of their own: `OneInstanceIsExact` and
`OneInstanceBadge` assume that `Instances` has one element, as the run `fanout`
does: with two, both properties are false (see 4.4).

### 4.1 `MessageWorkerProofs`

`NothingLost` alone is not inductive: that an acknowledged entry was published
follows from what the acknowledging worker did before. The invariant `IInv` adds
`GroupSound` (entries are handed out in order and only those can be pending; no
group means no stream, since gateways serve only after the group exists),
`BatchSound` (what a worker has in hand was handed out) and `StepSound` (what a
worker has established at each await: before the insert the entry may be
delivered, before the publish its row is saved, before the XACK it is finished).
Several workers may have the same entry in hand, so none of it may depend on who
owns the entry in the pending list. The lemma `FinishedStable` says that nothing
undoes a finished entry; `OtherWorkerSound` that a step of one worker keeps what
the others know. `NextEntrySound`, used by five actions, covers the end of
`processEntry`.

`SavedAtMostOncePerDelivery` needs a second invariant, `CountInv`, because the
row of an entry may be saved long after its delivery, and by a worker that owns it
no longer. `Owing(i)` are the workers whose next awaits may still insert a row for
entry `i`: those that have it in hand beyond the current entry, or are before
its insert. `Paid(i)` says that the rows of `i` and the workers that owe one are
together no more than its deliveries. A delivery adds one worker (`Ascending`: a
batch holds an entry once, so never two inserts), an insert turns a worker into a
row (`OneMoved`), also when its reply is lost, and everything else only
takes workers away (`PaidKept`).

For `Implementation` each step is mapped to the abstract one it performs
(`SendMessage` to `Accept`, `Save` to `Store`, `Publish` to `Announce`, `Ack` to
`Settle`) or to stuttering (`StepSimulated`).

### 4.2 `DirectInviteProofs`

`OneConversationPerPair` holds because a request that inserts has searched while
it held both row locks and holds them still. `IInv` says so: `LockSound` (from the
search to the commit a request owns both rows), `SearchSound` (what the search
found stays true, and before the insert and the commit there is no conversation of
the pair), `IdSound` (ids of uncommitted conversations differ), `FoundSound`
(what is replied was committed), and `TwoMembers`. The interesting case is the
commit of another request: its pair cannot be the same, because its locks would
be the same rows (`OthersSound`, `TableSound`).

### 4.3 `AccountsProofs`

That nobody known is refused goes through the filter: `AddSound` says that a
sign-up waiting for the cache has its name in the filter, or its `BF.ADD` is on
the way, or the entry was lost; the order of commands on one connection does the
rest. `KnownSound` carries it over to the logins that follow. `CacheTrue` (what
the cache holds is the row, since rows never change) and `RowSound` (what a
request has in hand is the row of its name) are why a hit in the cache lets in
nobody else, and `FilterSound` with `ProfileSound` why a name without a profile is
held back. For `Implementation`, the insert creates the account, also when its
confirmation is lost, and every successful answer, of a sign-up or a login, admits.

### 4.4 `ChatFanoutProofs`

`SeenOnlyByOthers` needs what every handler in progress works on: `TaskSound`
says that a handler of a seen receipt has only messages in hand that the sender of
the receipt did not send, and `InboxSound` that the receipt in its hand is one
that was sent. Nothing is assumed of who sends receipts, and nothing more can be
proved: the recipient is not the only one who can make a message SEEN.
`NeverRequeued` follows from the two values that `WriteStatus` writes.

`UnreadIsExact` and `BadgeAgrees` speak of states in which all is quiet, so their
invariants say what each handler in progress has still to do.

- A message is `Uncounted(i, m)` while instance `i` has its event in the inbox, or
  its handler before the increment; `CountInv` says that the stored count is the
  number of pairs of an instance and a message for the member that are no longer
  so (`CountExact`), and what this rests on: the event of a message is in an inbox
  at most once, and no handler runs beside it (`OnceEach`). Each increment adds one
  pair, every other step none. In a quiet state no pair is uncounted:
  `CountedByEach` then reads `Cardinality(Instances \X PublishedFor(c, u))` for any
  number of instances, and `UnreadIsExact` is the case of one. Two instances count
  every message twice, which is what the code does.
- `BadgeInv` adds, for a member who is connected and has at most one message, that
  every count on its way is the stored one, and that the badge shows it, or such
  a count is in an inbox, or a handler is about to read or to announce it
  (`BadgeComing`). With two instances, or two messages, the increments of one
  overtake the announcements of the other, and the badge may keep the earlier count.

For `Implementation`, `LiveInv` says of every event and handler on what grounds it
is there: `Grounded` that its event names a published message or is a receipt that
was sent, that it works on that message, or on messages of that receipt which its
user has not sent, and that what it will skip is stored already.
Events and handlers made by a step start on such grounds (`AfterPersistGrounded`,
`ProceedGrounded`, `TellGrounded`, `PublishGrounded`), and grounds once there stay
(`GroundedKept`): published messages and receipts are never withdrawn, and a status
written over DELIVERED or SEEN is again one of these two. `StepSimulated` maps
`SaveMessage`, `PublishOutbound` and `HandleOutbound` to `Save`, `Publish` and
`Emit`, a receipt to `Receipt`, the other steps of the handlers, their failures and
crashes to `Report`, and the rest (a handler that begins, a message whose recipient
is not here, clients that come, look and go) to stuttering. That SEEN may be
overwritten (run `fanout_seen`) is why `Report` may store DELIVERED at any time on
its grounds.

### 4.5 `ClientMessagesProofs`

Both list properties rest on `ListSound`: an entry without a `clientMsgId` has the
id of its row, entries of others have none, and of two entries of one message one
has the `clientMsgId` and the other has not (`Distinct`); and no entry says more of
an own message than the server bears out (`Truthful`). `UpsertsKeep`, `PatchesKeep`
and `HydratesKeep` say that the reducer keeps it whichever match comes first.
`PagesSound`, `DownSound` and `ServerSound` say the same of pages in the cache and
in decryption, of the events on their way, and of the server. `HoldsStays`, the
lemma everything uses, says that what the server bears out stays so. A stored
status does not only rise, since a write goes over a later one: what stays is that
a row that has passed QUEUED never returns to it (`Onward`), and that a row that has
been SEEN has been (`wasSeen`); `StoreMoves` says so of every update. That an
acknowledgement speaks the truth needs the order of the awaits: at the stages
`stored` and `done` the row has passed QUEUED (`Reached`). `ShownSound` and `UpSound` lead to `SeenOnlyWhenShown`:
a receipt on its way names only what was displayed.

### 4.6 `ComposerProofs`

`SendSound` says that while a send is under way its message is the last one and
the composer holds what is in it and what came meanwhile; `Spent` that nothing of
an earlier message that has not failed is in the composer. From these the answer
may wipe the composer (`NothingIsLost`), and a new message has nothing in common
with one that has not failed (`TwiceOnlyAfterFailure`). `TypingHasTimer` says of the
indicator what can be said whatever becomes of the events: it is shown only while
the timer of the chat runs, or its stop event was not sent or not heard.

### 4.7 `BrowserProofs`

Of `Connections`: the two properties compare two ends of a connection, what the
gateway has registered and what the window shows once the events on their way
have arrived (`WillShow`). `ShownAppend` says what one more event changes, and
`ShownTail` that the arrival of the first changes nothing, from the definition of
`ShownAfter` by the last event that names a user. `VerifiedSends` and
`DisconnectSends` say what a step of the gateway puts on every socket, so that each
step of a window that stays attached has two cases: it is told of what changed, or
nothing changed (`ToldKept`, `VerifiedTold`, `DisconnectTold`, `ReceiveTold`).
`ConnInv` adds `NothingEarly` (nothing is on a socket before its token is verified)
and `NobodyEarly` (nobody is shown before the first socket is registered), without
which a first connection might begin with somebody who has left; and
`SocketsKnown` (the server knows only sockets that were opened; `session` and
`activity` agree). `ClosedKnown` says that of the sockets the server still knows only
those are closed whose close event came during the verification, which `Present`
lets `NobodyLingers` say of the users shown. It speaks of `session` and not of the registry
because `Prune` takes a socket out of the registry without telling anybody.

Of `ClientSession`, a specification of its own (`SessionSpec`) without a variable in
common with `Connections`:
`KeysSound`: keys, there or being derived, are those of the user or of somebody
overtaken, and `KeyOfPassword` shows that they are the private key of the account
behind the boxes of `generateCryptoData`. `SignerSound` and `ListSound` follow the
token and the request that carries it: a window in which nothing was mixed up has
asked with a token of its user. `EndsForReason` is an action property: of the
steps that take the token, only `SignOut`, `Unauthorized` and `TurnedAway` exist, and
either refusal with the current token contradicts that it is not over.

### 4.8 `PagedListsProofs`

`Sound(ps, s)` relates a list of pages to the rows `s` there were at its first
page: no gap, the cursor is a listed row, and without a cursor and an error all of
`s` is there. `IInv` says it of the pages in the cache, of the pages a refetch has
read so far, and of the pages a next one will be added to. `FirstRows` proves from
cardinalities that a page is an initial segment of the rows after its cursor, and
full unless they are all; `ReadSound` lifts it to both endpoints, the search with
its misplaced condition included, and `OneMore` adds a page to a sound list.

### 4.9 Left to TLC

- Liveness (`DeliveredUnlessDeath`, `StartRecoversStale`, `SenderLearnsSeen`,
  `PublishedIsDelivered`, `ComesBack`, `SignOutIsSeen`, `EveryInviteAnswered`,
  `InviterSeesIt`, `SendSettles`, `LoadsAtLast`, `ReceiptsArrive`, `SendingEnds`,
  `TypingStops`, `KeysArrive`, `ScrollingReachesEnd`): fairness and ENABLED are out
  of reach of the prover.
- The counts and badges of several instances or messages, as far as they are not
  exact: `CountedByEach` is what can be said of the stored count, and nothing is
  said of the badge.

No other property of a passing run is left to TLC.

## 5. Deviations that no run shows

Read in the code while modelling; each is named by an exception, a bound or a note
of a hazard, and none is refuted by a run of its own.

- An instance that is back before its entries are idle for 30 s never looks at
  them again (`recoverPendingEntries` runs once, at start), while `README.md:32`
  promises that Redis ensures durability if an instance fails; another start of
  some instance is needed.
- Two instances save and publish the messages of one conversation in an order of
  their own, while `README.md:10` and `:31` promise ordered delivery.
- Whether a recipient is viewing a conversation is known to the instance of the
  socket only, while every instance counts: the comment at
  `chat-activity.service.ts:8` holds for one instance.
- A start stops claiming at the first empty reply of XAUTOCLAIM
  (`message-worker.service.ts:124-126`), although the start id of the reply may name
  entries that follow: `README.md:32` again.
- A receipt is handled whoever sends it: `chat.gateway.ts:186-258` and
  `chat-fanout.service.ts:242-319` skip the messages of its sender, and do not ask
  whether the sender of the receipt belongs to the conversation.
- A socket that closes while its token is verified is registered afterwards and
  keeps its user online, against the comment at
  `connection-registry.service.ts:34` ("has active WebSocket connection").
- An `auth_error` takes the token there is (`SocketContext.tsx:147`), also a valid one
  that another window has put there since the socket was opened.
- A failed request for the chat list is an empty list, fresh and not tried again
  (`conversation.service.ts:48-59` of the frontend), and a conversation key that
  could not be decrypted leaves its conversation loading
  (`useConversationHistoryMessages.ts:156-158`).
- A peer who loses the connection, or is at another instance, keeps "typing" of
  somebody who has stopped (`ChatPanel.tsx:156-180`).
- The invited user's chat list is not changed by the event: the update of the
  cache announced at `useConversationMember.ts:33` is commented out (:74), and
  `README.md:24` promises it live.
- An image is encrypted with the key at hand when it is attached, or with none
  while that key is being decrypted (`ChatPanel.tsx:389`), and sent to whatever
  chat is open later, whose members cannot read it.
- A message being decrypted, or encrypted, when the conversation is left is put
  into the list of the next one.
- A sender whose message is seen before it is acknowledged hears of neither by
  its `clientMsgId`: the fanout then sends no acknowledgement.
- An invitation that is answered after the modal was closed and opened again
  closes the modal (`NewChatModal.tsx:159`).
- The scroll position remembered for a next page is dropped when the request
  ends, before the page is decrypted and shown (`ChatPanel.tsx:117-140`).

## 6. What is abstracted, and what is not modelled

- Contents, timestamps and formats; encryption is a step that takes time
  (`ClientMessages`, `Composer`) or a box with a key (`ClientSession`); logging.
- Redis, Postgres, the browser and TanStack Query are external: modelled as their
  documentation and the code's use describe them; statements read what is
  committed. A loss of Redis is modelled for the filter and the cache
  (`Accounts`), not for the streams.
- `socket.send` that throws (`emitToUser` then terminates the socket): `ws`
  reports errors by the callback and the close event instead.
- `Connections` has one instance. The registry and the activity map are local to
  an instance, so between instances presence is not known at all (a hazard).
- In `Connections`, `onlineUsers` of a later connection is not required to be
  exact: `PresenceContext` adds the new list to the old set, so users who left
  meanwhile remain.
- In `ChatFanout` the counts of two messages published close together may reach a
  client in the wrong order; `BadgeAgrees` is therefore stated for one message.
- In `ClientMessages` an update of the status succeeds; one that fails, after which
  the event goes out all the same, is in `ChatFanout` (`CallFails`). The module has
  one window that stays on the chat page, and no images. An effect of React is a step of its own after the change of state that causes it.
- `Composer` knows an upload as a file with a stage; which key encrypted it is not
  followed (see section 5), nor are limits of type and size.
- `PagedLists`: rows are added and never renamed or removed, only to lists that
  are being read or kept; pages never expire; heights are zones; the invitation
  sent from the modal, with its error text, is in `DirectInvite`.
- `ClientSession` has one query, the chat list; others behave as it does. Of a
  socket it knows only the token and whether it has been answered; the rest is in
  `Connections`, where a window has one user. `Dial` may come whenever there are a user
  and a token, and not only when the user changes or a timer fires. That the `onclose` of a replaced socket
  clears the reference to the current one is left out of both.

Not modelled: the presence service (`backend/presence/presence.service.ts`), which
no module imports; `AuthForms.tsx`, which none imports either; the GIF picker,
whose button is commented out (`ChatPanel.tsx:798-807`); profile reads and writes,
one request and one reply each; WebCrypto, hashing and signatures; migrations and
configuration; rendering.

## 7. Plan

Done: every module of section 2, and a proof of every safety property that a
passing run checks.

Next:

1. `MessageWorker` and `ChatFanout` composed at the publication of a row, so that
   `DurableDelivery` and `LiveDelivery` become one promise about a message.
2. `Connections` with two instances, so that presence across them becomes a
   property.
