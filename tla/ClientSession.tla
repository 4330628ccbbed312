--------------------------- MODULE ClientSession ---------------------------
(***************************************************************************)
(* The sessions of one browser.  All windows share the access token in     *)
(* localStorage; each has its own user and keys (AuthContext) and its own  *)
(* cache of queries, here the chat list.  A window loses both when it is   *)
(* loaded anew, and not when its user signs out.                           *)
(*                                                                         *)
(* A request and a socket carry the token there is when they are sent and  *)
(* opened; their refusal takes away the token there is when it arrives.    *)
(***************************************************************************)
EXTENDS BrowserWindows, Integers, Sequences, FiniteSets

CONSTANT
  MaxTokens  \* bound: tokens issued

ASSUME NobodyAssumption == None \notin Users
ASSUME MaxAssumption == MaxTokens \in Nat

VARIABLES
  token,     \* access_token in localStorage, or NoToken
  owner,     \* the user each token was issued to, in the order of issue
  expired,   \* the tokens whose time is over
  user,      \* AuthContext.user of each window, or None
  keys,      \* AuthContext.decryptedData, or None
  page,      \* "auth" or "chat"
  asking,    \* the user whose sign-in is under way, or None
  deriving,  \* users whose keys are being derived from the password
  dial,      \* the token the socket (socketRef) was opened with, until it is answered, or None
  stray,     \* the same of sockets that connect has replaced, and has not closed
  leaving,   \* windows that are on their way to /signin
  req,       \* the token the query for the chat list was sent with, or None
  list,      \* the user whose chat list is in the cache, or None
  fresh,     \* windows whose list is not stale
  \* History:
  signer,    \* the window that signed in last, or None
  overtaken, \* per window: users whose keys come after they, or another user, left or came
  mixed      \* windows where one user followed another without a reload, or that asked
             \* with the token of a user who signed in elsewhere

tokenVars == <<token, owner, expired, signer>>
authVars == <<user, keys, page, asking, deriving, dial, stray, overtaken>>
queryVars == <<req, list, fresh, mixed>>
sessionVars == <<tokenVars, authVars, queryVars, leaving>>

NoToken == 0
Tokens == DOMAIN owner

-----------------------------------------------------------------------------
(* The keys of a user *)

\* What is encrypted with a key is got back with that key only.
Wrap(key, data) == [key |-> key, data |-> data]
Unwrap(key, box) == IF box.key = key THEN box.data ELSE None

PasswordKey(u) == <<"password", u>>
Dek(u) == <<"dek", u>>
PrivateKey(u) == <<"rsa", u>>

\* generateCryptoData: made at sign-up, kept by the server, returned at sign-in.
CryptoData(u) ==
  [dek |-> Wrap(PasswordKey(u), Dek(u)), privateKey |-> Wrap(Dek(u), PrivateKey(u))]

\* setCryptoDecryptedPassword, with the password u typed.
DecryptedData(u) ==
  LET dek == Unwrap(PasswordKey(u), CryptoData(u).dek)
  IN  [dek |-> dek, rsaPrivateKey |-> Unwrap(dek, CryptoData(u).privateKey)]

-----------------------------------------------------------------------------

SessionInit ==
  /\ token = NoToken /\ owner = <<>> /\ expired = {} /\ signer = None
  /\ user = [w \in Windows |-> None] /\ keys = [w \in Windows |-> None]
  /\ page = [w \in Windows |-> "auth"] /\ asking = [w \in Windows |-> None]
  /\ deriving = [w \in Windows |-> {}] /\ overtaken = [w \in Windows |-> {}]
  /\ dial = [w \in Windows |-> None] /\ stray = [w \in Windows |-> {}]
  /\ req = [w \in Windows |-> None] /\ list = [w \in Windows |-> None]
  /\ fresh = {} /\ mixed = {} /\ leaving = {}

Set(f, w, x) == [f EXCEPT ![w] = x]

-----------------------------------------------------------------------------
(* Signing in and up *)

\* Mutant: a sign-in that is asked for cancels the derivation of an earlier one.
AskCancels(w, u) ==
  /\ page[w] = "auth"
  /\ asking[w] = None
  /\ Len(owner) < MaxTokens
  /\ asking' = Set(asking, w, u)
  /\ deriving' = Set(deriving, w, {})
  /\ UNCHANGED <<tokenVars, user, keys, page, dial, stray, overtaken, queryVars, leaving>>

\* onSubmit.  A sign-in may be asked for while the keys of an earlier one are derived.
Ask(w, u) ==
  /\ page[w] = "auth"
  /\ asking[w] = None
  /\ Len(owner) < MaxTokens
  /\ asking' = Set(asking, w, u)
  /\ UNCHANGED <<tokenVars, user, keys, page, deriving, dial, stray, overtaken, queryVars, leaving>>

\* loginApi, signupApi: the token of the answer is put into localStorage.
StoreToken(w, u) ==
  /\ owner' = Append(owner, u)
  /\ token' = Len(owner')
  /\ signer' = w

\* The server accepts: the token is stored, the user is set, and the keys are derived.
Accepted(w) ==
  LET u == asking[w] IN
  /\ u # None
  /\ Len(owner) < MaxTokens
  /\ StoreToken(w, u)
  /\ user' = Set(user, w, u)
  /\ asking' = Set(asking, w, None)
  /\ deriving' = Set(deriving, w, deriving[w] \cup {u})
  /\ overtaken' = Set(overtaken, w, overtaken[w] \cup (deriving[w] \ {u})
                                     \cup (IF keys[w] = None THEN {} ELSE {user[w]} \ {u, None}))
  /\ mixed' = IF user[w] \in {None, u} THEN mixed ELSE mixed \cup {w}
  /\ UNCHANGED <<expired, keys, page, dial, stray, req, list, fresh, leaving>>

\* Mutant: the routes of signing in are not excepted from the interceptor.
DeniedEndsSession(w) ==
  /\ asking[w] # None
  /\ asking' = Set(asking, w, None)
  /\ token' = NoToken
  /\ UNCHANGED <<owner, expired, signer, user, keys, page, deriving, dial, stray, overtaken,
                 queryVars, leaving>>

\* The server denies, or cannot be reached.
Denied(w) ==
  /\ asking[w] # None
  /\ asking' = Set(asking, w, None)
  /\ UNCHANGED <<tokenVars, user, keys, page, deriving, dial, stray, overtaken, queryVars, leaving>>

\* ProtectedRoute: without a user the chat page is the page of signing in.
Opens(w) == IF user'[w] = None THEN "auth" ELSE "chat"

\* The list is fetched when the page opens unless it is there and fresh, or under way.
\* A request that goes out with the token of another window's user is a stranger's.
Fetches(w) ==
  /\ req' = IF page'[w] = "chat" /\ w \notin fresh /\ req[w] = None
            THEN Set(req, w, token) ELSE req
  /\ mixed' = IF req'[w] # req[w] /\ token # NoToken /\ owner[token] # user'[w]
              THEN mixed \cup {w} ELSE mixed

\* Mutant: the user whose keys are there is set again.
DerivedSetsUser(w, u) ==
  /\ u \in deriving[w]
  /\ deriving' = Set(deriving, w, deriving[w] \ {u})
  /\ keys' = Set(keys, w, DecryptedData(u))
  /\ user' = Set(user, w, u)
  /\ page' = Set(page, w, Opens(w))
  /\ Fetches(w)
  /\ UNCHANGED <<tokenVars, asking, dial, stray, overtaken, list, fresh, leaving>>

\* setCryptoDecryptedPassword ends, whoever is the user by now, and the chat page opens.
Derived(w, u) ==
  /\ u \in deriving[w]
  /\ deriving' = Set(deriving, w, deriving[w] \ {u})
  /\ keys' = Set(keys, w, DecryptedData(u))
  /\ UNCHANGED user
  /\ page' = Set(page, w, Opens(w))
  /\ Fetches(w)
  /\ UNCHANGED <<tokenVars, asking, dial, stray, overtaken, list, fresh, leaving>>

-----------------------------------------------------------------------------
(* Signing out *)

\* clearAuthSession and the listeners of its event, which close the socket there is, and
\* no other.  Other windows are not told.
ClearAuthSession(w) ==
  /\ token' = NoToken
  /\ user' = Set(user, w, None)
  /\ keys' = Set(keys, w, None)
  /\ page' = Set(page, w, "auth")
  /\ overtaken' = Set(overtaken, w, overtaken[w] \cup deriving[w])
  /\ dial' = Set(dial, w, None)
  /\ UNCHANGED <<owner, expired, signer, asking, deriving>>

\* Mutant: the keys outlive the user.
SignOutKeepsKeys(w) ==
  /\ page[w] = "chat"
  /\ token' = NoToken
  /\ user' = Set(user, w, None)
  /\ page' = Set(page, w, "auth")
  /\ overtaken' = Set(overtaken, w, overtaken[w] \cup deriving[w])
  /\ mixed' = mixed \cup {w}
  /\ dial' = Set(dial, w, None)
  /\ UNCHANGED <<owner, expired, signer, keys, asking, deriving, stray, req, list, fresh,
                 leaving>>

\* handleLogout: the cache of queries stays.
SignOut(w) ==
  /\ page[w] = "chat"
  /\ ClearAuthSession(w)
  /\ mixed' = mixed \cup {w}
  /\ UNCHANGED <<stray, req, list, fresh, leaving>>

\* The window is loaded anew: only what is in localStorage is kept.
Reload(w) ==
  /\ user' = Set(user, w, None) /\ keys' = Set(keys, w, None)
  /\ page' = Set(page, w, "auth") /\ asking' = Set(asking, w, None)
  /\ deriving' = Set(deriving, w, {}) /\ overtaken' = Set(overtaken, w, {})
  /\ dial' = Set(dial, w, None) /\ stray' = Set(stray, w, {})
  /\ req' = Set(req, w, None) /\ list' = Set(list, w, None)
  /\ fresh' = fresh \ {w} /\ mixed' = mixed \ {w} /\ leaving' = leaving \ {w}
  /\ UNCHANGED tokenVars

-----------------------------------------------------------------------------
(* The chat list *)

\* JwtAuthGuard: a token that is missing or over is refused.
Valid(t) == t \in Tokens \ expired

Listed(w) ==
  /\ req[w] # None
  /\ Valid(req[w])
  /\ req' = Set(req, w, None)
  /\ list' = Set(list, w, owner[req[w]])
  /\ fresh' = fresh \cup {w}
  /\ UNCHANGED <<tokenVars, authVars, mixed, leaving>>

\* Mutant: the window goes to the page of signing in, and is not loaded anew.
UnauthorizedStays(w) ==
  /\ req[w] # None
  /\ ~Valid(req[w])
  /\ req' = Set(req, w, None)
  /\ ClearAuthSession(w)
  /\ UNCHANGED <<stray, list, fresh, mixed, leaving>>

\* 401: the session is cleared, and the window is sent to /signin.
Unauthorized(w) ==
  /\ req[w] # None
  /\ ~Valid(req[w])
  /\ req' = Set(req, w, None)
  /\ ClearAuthSession(w)
  /\ leaving' = leaving \cup {w}
  /\ UNCHANGED <<stray, list, fresh, mixed>>

\* Any other error is a list without data, and is fresh.
ListFails(w) ==
  /\ req[w] # None
  /\ req' = Set(req, w, None)
  /\ list' = Set(list, w, None)
  /\ fresh' = fresh \cup {w}
  /\ UNCHANGED <<tokenVars, authVars, mixed, leaving>>

\* staleTime is over, or an invitation has made the list stale.
Stale(w) ==
  /\ w \in fresh
  /\ fresh' = fresh \ {w}
  /\ UNCHANGED <<tokenVars, authVars, req, list, mixed, leaving>>

\* The window is looked at again, and the list is stale.
Focus(w) ==
  /\ page[w] = "chat"
  /\ w \notin fresh
  /\ req[w] = None
  /\ UNCHANGED <<tokenVars, authVars>>
  /\ Fetches(w)
  /\ UNCHANGED <<list, fresh, leaving>>

\* gcTime is over, and no page shows the list.
Collect(w) ==
  /\ page[w] = "auth"
  /\ list[w] # None
  /\ req[w] = None
  /\ list' = Set(list, w, None)
  /\ fresh' = fresh \ {w}
  /\ UNCHANGED <<tokenVars, authVars, req, mixed, leaving>>

-----------------------------------------------------------------------------
(* The socket *)

\* connect, at a change of the user and when the reconnect timer fires.  It leaves the
\* socket it replaces open, and heard.
Dial(w) ==
  /\ user[w] # None
  /\ token # NoToken
  /\ dial' = Set(dial, w, token)
  /\ stray' = Set(stray, w, stray[w] \cup ({dial[w]} \ {None}))
  /\ UNCHANGED <<tokenVars, user, keys, page, asking, deriving, overtaken, queryVars, leaving>>

Dialled(w) == stray[w] \cup ({dial[w]} \ {None})

\* The socket opened with t is registered, or the connection breaks before that.
Answered(w, t) ==
  /\ t \in Dialled(w)
  /\ dial' = IF dial[w] = t THEN Set(dial, w, None) ELSE dial
  /\ stray' = Set(stray, w, stray[w] \ {t})
  /\ UNCHANGED <<tokenVars, user, keys, page, asking, deriving, overtaken, queryVars, leaving>>

\* auth_error: the session is cleared, and the window is sent to /signin.
TurnedAway(w, t) ==
  /\ t \in Dialled(w)
  /\ ~Valid(t)
  /\ ClearAuthSession(w)
  /\ stray' = Set(stray, w, stray[w] \ {t})
  /\ leaving' = leaving \cup {w}
  /\ UNCHANGED queryVars

-----------------------------------------------------------------------------

\* ACCESSTOKENTIME is over.
Expire(t) ==
  /\ t \in Tokens \ expired
  /\ expired' = expired \cup {t}
  /\ UNCHANGED <<token, owner, signer, authVars, queryVars, leaving>>

Window(w) ==
  \/ \E u \in Users : Ask(w, u) \/ Derived(w, u)
  \/ Accepted(w) \/ Denied(w)
  \/ SignOut(w) \/ Reload(w)
  \/ Listed(w) \/ Unauthorized(w) \/ ListFails(w)
  \/ Stale(w) \/ Focus(w) \/ Collect(w)
  \/ Dial(w)
  \/ \E t \in Tokens : Answered(w, t) \/ TurnedAway(w, t)

SessionNext ==
  \/ \E w \in Windows : Window(w)
  \/ \E t \in Tokens : Expire(t)

SessionSpec == SessionInit /\ [][SessionNext]_sessionVars

\* The keys are derived, and a window that was sent away leaves.
FairSession ==
  /\ SessionSpec
  /\ \A w \in Windows :
       /\ \A u \in Users : WF_sessionVars(Derived(w, u))
       /\ WF_sessionVars(w \in leaving /\ Reload(w))

-----------------------------------------------------------------------------
(* Properties *)

UsersOrNone == Users \cup {None}

SessionTypeOK ==
  /\ owner \in Seq(Users) /\ token \in 0..Len(owner) /\ expired \subseteq Tokens
  /\ signer \in Windows \cup {None}
  /\ user \in [Windows -> UsersOrNone] /\ page \in [Windows -> {"auth", "chat"}]
  /\ keys \in [Windows -> {DecryptedData(u) : u \in Users} \cup {None}]
  /\ asking \in [Windows -> UsersOrNone] /\ deriving \in [Windows -> SUBSET Users]
  /\ dial \in [Windows -> {None} \cup (0..Len(owner))]
  /\ stray \in [Windows -> SUBSET (0..Len(owner))]
  /\ overtaken \in [Windows -> SUBSET Users] /\ list \in [Windows -> UsersOrNone]
  /\ req \in [Windows -> {None} \cup (0..Len(owner))]
  /\ fresh \subseteq Windows /\ mixed \subseteq Windows /\ leaving \subseteq Windows

\* The keys in a window open what is encrypted for its user; those of another are there
\* only when their derivation, which nothing cancels, was overtaken by a sign-out or a
\* sign-in.
KeysAreOwn ==
  \A w \in Windows : keys[w] # None =>
    \E u \in {user[w]} \cup overtaken[w] : keys[w].rsaPrivateKey = PrivateKey(u)

\* A window asks the server in the name of the user it shows, unless another window has
\* signed in since: the token is shared, and the windows are not told.
RequestsAreOwn ==
  \A w \in Windows :
    user[w] # None /\ token # NoToken /\ owner[token] # user[w] => signer # w

\* The list on the chat page is that of its user, unless one user followed another in
\* the window without a reload, or another window has signed in; after a 401, and the
\* reload that follows it, the next user finds nothing of the one before.
ListIsOwn ==
  \A w \in Windows :
    page[w] = "chat" /\ list[w] \notin {user[w], None} => w \in mixed \cup leaving

\* A token that is not over goes only when somebody signs out, or when a request that
\* was sent, or a socket that was opened, with another token is refused; never by a
\* sign-in that is denied, and never by a refusal of its own.
SessionEndsForReason ==
  [][token # NoToken /\ token' = NoToken /\ token \notin expired =>
       \E w \in Windows :
         \/ SignOut(w)
         \/ Unauthorized(w) /\ req[w] # token
         \/ \E t \in Tokens \ {token} : TurnedAway(w, t)]_sessionVars

\* Who stays signed in has the keys of the password at last and for good, unless a
\* derivation for another user was overtaken in the window: its keys may be there for
\* good instead.
KeysArrive ==
  \A w \in Windows, u \in Users :
    <>[](user[w] = u) =>
      <>[](\/ keys[w] = DecryptedData(u)
          \/ \E v \in overtaken[w] \ {u} : keys[w] = DecryptedData(v))
=============================================================================
