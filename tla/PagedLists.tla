----------------------------- MODULE PagedLists -----------------------------
(***************************************************************************)
(* The two lists that a window loads page by page while the user scrolls:  *)
(* the history of the open conversation, newest message first, and the     *)
(* users found in the new-chat modal, by username.  Each has an endpoint   *)
(* with its own reading of the cursor, and its own way to notice that the  *)
(* user has come to the edge; the query that keeps the pages is the same.  *)
(*                                                                         *)
(* Rows are added while a list is being read, pages fail, the window is    *)
(* offline for a while, and the user goes to another list and comes back.  *)
(* Decrypting the messages is one step here; ClientMessages has the rest.  *)
(***************************************************************************)
EXTENDS Integers, Sequences, FiniteSets

CONSTANTS
  Keys,      \* conversations, or search terms
  NoKey,     \* none: no conversation is open, or the search is empty
  Size,      \* rows are 1..Size: messages by age, users by username
  Limit,     \* the size of a page
  Starts,    \* the kinds of list, and the rows there are at first
  MaxPages,  \* bound: pages of a list
  MaxRows,   \* bound: rows added
  MaxFaults, \* bound: failed requests and times offline
  MaxMoves   \* bound: lists and the modal opened, terms typed, refetches

Row == 1..Size
Kinds == {"history", "search"}  \* useInfiniteMessages, useInfiniteSearchUsers

ASSUME SizesAssumption == Size \in Nat /\ Limit \in Nat \ {0}
ASSUME KeysAssumption == NoKey \notin Keys
ASSUME StartsAssumption ==
  Starts \subseteq [kind : Kinds, rows : [Keys -> SUBSET Row], byName : [Keys -> SUBSET Row]]
ASSUME BoundsAssumption ==
  MaxPages \in Nat /\ MaxRows \in Nat /\ MaxFaults \in Nat /\ MaxMoves \in Nat

VARIABLES
  kind,    \* which of the two lists this is
  rows,    \* the rows the list of each key is about
  byName,  \* search: the users whose username matches, not just the display name
  modal,   \* search: closed, opening (its input not yet reset), open
  typed,   \* search: the text in the input
  key,     \* the list shown: the open conversation, or the debounced text
  pages,   \* the pages in the query cache
  since,   \* the rows there were when the first of them was read
  fetch,   \* the requests under way
  paused,  \* requests that wait for the window to be online
  online,
  hydrating, decrypting,  \* history: isHydratingMessages, and whether a decryption runs
  history, \* history: the hook has messages, of this conversation or the last
  zone,    \* where the user is: at the edge where more is loaded, near it, far
  armed,   \* history: topLoadArmedRef
  added, faults, moves

dataVars == <<kind, rows, byName>>
modalVars == <<modal, typed>>
queryVars == <<pages, since, fetch, paused>>
hydrateVars == <<hydrating, decrypting, history>>
scrollVars == <<zone, armed>>
countVars == <<added, faults, moves>>
vars == <<dataVars, modalVars, key, queryVars, online, hydrateVars, scrollVars, countVars>>

Zones == {"edge", "near", "far"}

\* An answer; next is the cursor of the page after it, 0 if there is none.
Page == [items : SUBSET Row, next : Row \cup {0}, ok : BOOLEAN]

\* Nothing, all the pages from the first, or the next one.
Fetch == [mode : {"none", "all", "next"}, done : Seq(Page), since : SUBSET Row]
NoFetch == [mode |-> "none", done |-> <<>>, since |-> {}]
AllPages == [NoFetch EXCEPT !.mode = "all"]
NextPage == [NoFetch EXCEPT !.mode = "next"]
-----------------------------------------------------------------------------
(* The endpoints *)

\* The order of the lists.
Before(r, q) == IF kind = "history" THEN r > q ELSE r < q

\* The first n rows of S, and the last one of S.
FirstOf(S, n) == {r \in S : Cardinality({q \in S : Before(q, r)}) < n}
LastOf(S) == CHOOSE r \in S : \A q \in S : ~Before(r, q)

\* Mutant: there is more when there are more than asked for.
HistoryPageOver(k, cursor) ==
  LET items == FirstOf({r \in rows[k] : cursor = 0 \/ r < cursor}, Limit) IN
  [items |-> items, ok |-> TRUE,
   next |-> IF Cardinality(items) > Limit THEN LastOf(items) ELSE 0]

\* getMessages: the messages older than the cursor.  A full page has a next one,
\* even when nothing is left.
HistoryPage(k, cursor) ==
  LET items == FirstOf({r \in rows[k] : cursor = 0 \/ r < cursor}, Limit) IN
  [items |-> items, ok |-> TRUE,
   next |-> IF Cardinality(items) = Limit THEN LastOf(items) ELSE 0]

\* searchUsersByUsername: the condition on the cursor binds to the display name
\* only (a OR b AND c), so whose username matches is found on every page.
SearchPage(k, cursor) ==
  LET found == {r \in rows[k] : r \in byName[k] \/ cursor = 0 \/ r > cursor}
      items == FirstOf(found, Limit) IN
  [items |-> items, ok |-> TRUE,
   next |-> IF Cardinality(found) > Limit THEN LastOf(items) ELSE 0]

Read(k, cursor) == IF kind = "history" THEN HistoryPage(k, cursor) ELSE SearchPage(k, cursor)

\* getMessagesApi and searchUsersApi return the error instead of throwing it.
FailedPage == [items |-> {}, next |-> 0, ok |-> FALSE]
-----------------------------------------------------------------------------
(* The query *)

\* The rows of the pages, and whether one of them is an error.
Listed(k) == UNION {pages[k][n].items : n \in DOMAIN pages[k]}
Failed(k) == \E n \in DOMAIN pages[k] : ~pages[k][n].ok

\* getNextPageParam, hasNextPage, isFetchingNextPage, isLoading
NextParam(ps) == IF ps = <<>> THEN 0 ELSE ps[Len(ps)].next
HasNext(k) == NextParam(pages[k]) # 0
FetchingNext(k) == fetch[k].mode = "next" /\ k \notin paused
Loading(k) == pages[k] = <<>> /\ fetch[k].mode # "none" /\ k \notin paused

\* A request starts; offline it waits.
Start(k, f) ==
  /\ fetch' = [fetch EXCEPT ![k] = f]
  /\ paused' = IF online THEN paused \ {k} ELSE paused \cup {k}

\* The list of k is shown: its query runs if it has no pages, or no recent ones.
Shown(k) ==
  /\ key' = k
  /\ IF k = NoKey THEN UNCHANGED <<fetch, paused>>
     ELSE \/ fetch[k].mode = "none" /\ Start(k, AllPages)
          \/ /\ pages[k] # <<>> \/ fetch[k].mode # "none"
             /\ UNCHANGED <<fetch, paused>>
  /\ UNCHANGED <<pages, since>>

\* fetchNextPage: a refetch under way is given up.
FetchNextPage(k) ==
  /\ Start(k, NextPage)
  /\ UNCHANGED <<pages, since>>

\* The effect of the history hook starts to decrypt if there is something to
\* decrypt; what it was doing is cancelled, and isHydratingMessages stays.
Rehydrate(items) ==
  /\ decrypting' = (items # {})
  /\ hydrating' = (hydrating \/ items # {})
  /\ UNCHANGED history

\* The pages of k are in the cache.
Loaded(k, ps, s) ==
  /\ pages' = [pages EXCEPT ![k] = ps]
  /\ since' = [since EXCEPT ![k] = s]
  /\ fetch' = [fetch EXCEPT ![k] = NoFetch]
  /\ IF kind = "history" /\ k = key /\ ps # pages[k]
     THEN Rehydrate(UNION {ps[n].items : n \in DOMAIN ps})
     ELSE UNCHANGED hydrateVars

\* Mutant: the pages after the first are read with the cursors of the last time.
AnswerAllStale(k, fails) ==
  LET f == fetch[k]
      n == Len(f.done)
      page == IF fails THEN FailedPage
              ELSE Read(k, IF n = 0 THEN 0 ELSE pages[k][n].next)
      done == Append(f.done, page)
      s == IF f.done = <<>> THEN rows[k] ELSE f.since IN
  /\ f.mode = "all" /\ k \notin paused
  /\ IF Len(done) >= Len(pages[k]) \/ page.next = 0 THEN Loaded(k, done, s)
     ELSE /\ fetch' = [fetch EXCEPT ![k] = [@ EXCEPT !.done = done, !.since = s]]
          /\ UNCHANGED <<pages, since, hydrateVars>>

\* An answer while all pages are read: as many as there were, each from the end of
\* the one before, until one has no next.
AnswerAll(k, fails) ==
  LET f == fetch[k]
      page == IF fails THEN FailedPage ELSE Read(k, NextParam(f.done))
      done == Append(f.done, page)
      s == IF f.done = <<>> THEN rows[k] ELSE f.since IN
  /\ f.mode = "all" /\ k \notin paused
  /\ IF Len(done) >= Len(pages[k]) \/ page.next = 0 THEN Loaded(k, done, s)
     ELSE /\ fetch' = [fetch EXCEPT ![k] = [@ EXCEPT !.done = done, !.since = s]]
          /\ UNCHANGED <<pages, since, hydrateVars>>

\* The answer to fetchNextPage is appended.
AnswerNext(k, fails) ==
  LET page == IF fails THEN FailedPage ELSE Read(k, NextParam(pages[k])) IN
  /\ fetch[k].mode = "next" /\ k \notin paused
  /\ Loaded(k, Append(pages[k], page), since[k])

\* A request is answered, or fails.
Answer(k, fails) ==
  /\ fails => faults < MaxFaults
  /\ faults' = IF fails THEN faults + 1 ELSE faults
  /\ AnswerAll(k, fails) \/ AnswerNext(k, fails)
  /\ UNCHANGED <<dataVars, modalVars, key, paused, online, scrollVars, added, moves>>

\* One more move of the user may happen.
Moves == moves < MaxMoves /\ moves' = moves + 1

\* The window gets the focus, and the pages are no longer recent.
Refetch ==
  /\ Moves
  /\ key # NoKey
  /\ pages[key] # <<>> /\ fetch[key].mode = "none"
  /\ Start(key, AllPages)
  /\ UNCHANGED <<dataVars, modalVars, key, pages, since, online, hydrateVars,
                 scrollVars, added, faults>>

GoOffline ==
  /\ online
  /\ faults < MaxFaults /\ faults' = faults + 1
  /\ online' = FALSE
  /\ UNCHANGED <<dataVars, modalVars, key, queryVars, hydrateVars, scrollVars, added, moves>>

GoOnline ==
  /\ ~online
  /\ online' = TRUE /\ paused' = {}
  /\ UNCHANGED <<dataVars, modalVars, key, pages, since, fetch, hydrateVars,
                 scrollVars, countVars>>
-----------------------------------------------------------------------------
(* The history *)

\* Another conversation is opened: its list is at the bottom, far from the edge
\* unless it is short.
SelectConversation(k) ==
  /\ Moves
  /\ kind = "history" /\ k # key
  /\ Shown(k)
  /\ Rehydrate(Listed(k))
  /\ armed' = FALSE
  /\ zone' \in Zones
  /\ UNCHANGED <<dataVars, modalVars, online, added, faults>>

\* The pages are decrypted.
Hydrated ==
  /\ decrypting
  /\ decrypting' = FALSE /\ hydrating' = FALSE /\ history' = TRUE
  /\ UNCHANGED <<dataVars, modalVars, key, queryVars, online, scrollVars, countVars>>

\* isLoadingMore
LoadingMore == FetchingNext(key) \/ (hydrating /\ history)

\* Mutant: the latch is never released.
ScrollHistoryLatched(z) ==
  /\ kind = "history" /\ key # NoKey
  /\ zone' = z
  /\ IF HasNext(key) /\ ~LoadingMore /\ z = "edge" /\ ~armed
     THEN armed' = TRUE /\ Len(pages[key]) < MaxPages /\ FetchNextPage(key)
     ELSE UNCHANGED <<armed, queryVars>>
  /\ UNCHANGED <<dataVars, modalVars, key, online, hydrateVars, countVars>>

\* handleMessagesScroll: at the top the next page is loaded, once; the latch is
\* released far from the top.
ScrollHistory(z) ==
  /\ kind = "history" /\ key # NoKey
  /\ zone' = z
  /\ IF z = "far" THEN armed' = FALSE /\ UNCHANGED queryVars
     ELSE IF HasNext(key) /\ ~LoadingMore /\ z = "edge" /\ ~armed
     THEN armed' = TRUE /\ Len(pages[key]) < MaxPages /\ FetchNextPage(key)
     ELSE UNCHANGED <<armed, queryVars>>
  /\ UNCHANGED <<dataVars, modalVars, key, online, hydrateVars, countVars>>
-----------------------------------------------------------------------------
(* The new-chat modal *)

OpenModal ==
  /\ Moves
  /\ kind = "search" /\ modal = "closed"
  /\ modal' = "opening"
  /\ UNCHANGED <<dataVars, typed, key, queryVars, online, hydrateVars, scrollVars,
                 added, faults>>

\* The timer of the effect of opening.
ResetInput ==
  /\ modal = "opening"
  /\ modal' = "open" /\ typed' = NoKey
  /\ UNCHANGED <<dataVars, key, queryVars, online, hydrateVars, scrollVars, countVars>>

\* Escape, the button, the backdrop, an invitation answered.
CloseModal ==
  /\ modal # "closed"
  /\ modal' = "closed"
  /\ UNCHANGED <<dataVars, typed, key, queryVars, online, hydrateVars, scrollVars, countVars>>

Type(k) ==
  /\ Moves
  /\ modal # "closed" /\ k # typed
  /\ typed' = k
  /\ UNCHANGED <<dataVars, modal, key, queryVars, online, hydrateVars, scrollVars,
                 added, faults>>

\* useDebouncedValue: 300 ms after the last change.  The results are scrolled up.
Debounce ==
  /\ kind = "search" /\ typed # key
  /\ Shown(typed)
  /\ zone' = IF modal = "closed" THEN zone ELSE "far"
  /\ UNCHANGED <<dataVars, modalVars, online, hydrateVars, armed, countVars>>

\* What the modal shows below the input, when it is open.
Results == modal # "closed" /\ key # NoKey /\ Listed(key) # {}

\* Mutant: an error looks like an empty answer.
NoMatchesOnError == key # NoKey /\ ~Loading(key) /\ Listed(key) = {}

\* showNoResults: "No matches found".
NoMatches == key # NoKey /\ ~Loading(key) /\ ~Failed(key) /\ Listed(key) = {}

\* handleScroll: near the end the next page is loaded.
ScrollResults(z) ==
  /\ kind = "search" /\ Results
  /\ zone' = z
  /\ IF HasNext(key) /\ ~FetchingNext(key) /\ ~Loading(key) /\ z = "edge"
     THEN Len(pages[key]) < MaxPages /\ FetchNextPage(key)
     ELSE UNCHANGED queryVars
  /\ UNCHANGED <<dataVars, modalVars, key, online, hydrateVars, armed, countVars>>
-----------------------------------------------------------------------------
(* The data *)

\* A message is saved, or a user signs up, while the list is read or kept.
AddRow(k, r) ==
  /\ added < MaxRows /\ added' = added + 1
  /\ pages[k] # <<>> \/ fetch[k].mode # "none"
  /\ r \in Row \ rows[k]
  /\ kind = "history" => \A q \in rows[k] : q < r
  /\ rows' = [rows EXCEPT ![k] = @ \cup {r}]
  /\ UNCHANGED <<kind, byName, modalVars, key, queryVars, online, hydrateVars,
                 scrollVars, faults, moves>>

Init ==
  /\ \E s \in Starts : kind = s.kind /\ rows = s.rows /\ byName = s.byName
  /\ modal = "closed" /\ typed = NoKey /\ key = NoKey
  /\ pages = [k \in Keys |-> <<>>] /\ since = [k \in Keys |-> {}]
  /\ fetch = [k \in Keys |-> NoFetch] /\ paused = {} /\ online = TRUE
  /\ hydrating = FALSE /\ decrypting = FALSE /\ history = FALSE
  /\ zone = "far" /\ armed = FALSE
  /\ added = 0 /\ faults = 0 /\ moves = 0

\* Scroll events come from the user, and from the panel when it goes to the bottom
\* or keeps its place after a page.
Scroll(z) == ScrollHistory(z) \/ ScrollResults(z)

Next ==
  \/ \E k \in Keys : SelectConversation(k)
  \/ \E k \in Keys, fails \in BOOLEAN : Answer(k, fails)
  \/ \E k \in Keys, r \in Row : AddRow(k, r)
  \/ \E k \in Keys \cup {NoKey} : Type(k)
  \/ \E z \in Zones : Scroll(z)
  \/ Refetch \/ GoOffline \/ GoOnline \/ Hydrated
  \/ OpenModal \/ ResetInput \/ CloseModal \/ Debounce

Spec == Init /\ [][Next]_vars

\* Requests are answered, decryptions and timers end, the window comes back
\* online.  The user need not do anything.
Fairness ==
  /\ \A k \in Keys : WF_vars(\E fails \in BOOLEAN : Answer(k, fails))
  /\ WF_vars(Hydrated) /\ WF_vars(ResetInput) /\ WF_vars(Debounce) /\ WF_vars(GoOnline)

FairSpec == Spec /\ Fairness
-----------------------------------------------------------------------------
(* Properties *)

TypeOK ==
  /\ kind \in Kinds
  /\ rows \in [Keys -> SUBSET Row] /\ byName \in [Keys -> SUBSET Row]
  /\ modal \in {"closed", "opening", "open"}
  /\ typed \in Keys \cup {NoKey} /\ key \in Keys \cup {NoKey}
  /\ pages \in [Keys -> Seq(Page)] /\ since \in [Keys -> SUBSET Row]
  /\ fetch \in [Keys -> Fetch] /\ paused \subseteq Keys
  /\ {online, hydrating, decrypting, history, armed} \subseteq BOOLEAN
  /\ zone \in Zones
  /\ added \in Nat /\ faults \in Nat /\ moves \in Nat

\* What is listed has no gap: a row that was there when the first page was read is
\* listed if a row after it is, whatever was added, refetched or given up between
\* the requests for the pages.
NoGap ==
  \A k \in Keys : \A r \in since[k] \ Listed(k) : \A q \in Listed(k) : ~Before(r, q)

\* A list that says it has ended, without an error among its pages, has every row
\* there was when its first page was read ("End of results"; no more messages).
EndIsComplete ==
  \A k \in Keys :
    (pages[k] # <<>> /\ ~HasNext(k) /\ ~Failed(k)) => since[k] \subseteq Listed(k)

\* The modal says that nobody matches only if the search was answered and nobody
\* did; except when it waits, unasked, for the window to be online.
NoMatchesIsTrue ==
  (kind = "search" /\ modal # "closed" /\ NoMatches) =>
    key \in paused \/ (pages[key] # <<>> /\ since[key] = {})

\* The user keeps looking at the list of k.
Watched(k) == key = k /\ (kind = "history" \/ modal = "open")

\* A user who scrolls to the edge and back, again and again, comes to the last row
\* there was, unless a page fails; in a search only if fewer users than fit on a
\* page match by username, for these fill every page.
ScrollingReachesEnd ==
  \A k \in Keys :
    (/\ <>[](Watched(k) /\ ~Failed(k))
     /\ []<>(zone = "edge") /\ []<>(zone = "far")) =>
      <>(\/ pages[k] # <<>> /\ since[k] \subseteq Listed(k)
         \/ kind = "search" /\ Cardinality(byName[k]) >= Limit)
=============================================================================
