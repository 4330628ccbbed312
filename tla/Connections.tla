---------------------------- MODULE Connections ----------------------------
(***************************************************************************)
(* The connections of one server instance and the browser windows that     *)
(* hold them: ChatGateway.handleConnection and handleDisconnect, the       *)
(* ConnectionRegistryService, the ChatActivityService, and in the client   *)
(* SocketContext (reconnecting) and PresenceContext (who is online).       *)
(*                                                                         *)
(* The token of a new socket is verified asynchronously: the socket may    *)
(* close, and the client may send events, before the answer.  A connection *)
(* breaks at the client and at the server at different times.              *)
(***************************************************************************)
EXTENDS BrowserWindows, Naturals, FiniteSets, Sequences

CONSTANTS
  UserOf,         \* the user of each window, which has a session of its own
  Conversations,
  Viewers,        \* bound: the windows that open conversations
  MaxSockets,     \* bound: sockets each window opens; its last one does not fail
  MaxRestarts     \* bound: restarts of the instance

ASSUME UserOfAssumption == UserOf \in [Windows -> Users]
ASSUME ViewersAssumption == Viewers \subseteq Windows
ASSUME NoneAssumption == None \notin Conversations
ASSUME BoundsAssumption == MaxSockets \in [Windows -> Nat] /\ MaxRestarts \in Nat

VARIABLES
  phase,      \* of each window: "idle" (signed out), "open", or "waiting" (reconnect timer)
  used,       \* sockets each window has opened; the last is its current one
  shown,      \* onlineUsers of each window
  hungUp,     \* sockets the client has closed
  link,       \* readyState of each socket at the server
  verifying,  \* sockets whose token is being verified
  session,    \* sockets that have a userId
  closedEarly,\* sockets whose close event came while their token was verified
  registry,   \* socketsByUser
  activity,   \* activeChats: the active conversation of registered sockets
  down, up,   \* events on their way to and from the client of each socket
  restarts

vars == <<phase, used, shown, hungUp, link, verifying, session, closedEarly, registry,
          activity, down, up, restarts>>
clientVars == <<phase, used, shown, hungUp>>
serverVars == <<verifying, session, closedEarly, registry, activity>>
wireVars == <<down, up>>

Sockets == UNION {{w} \X (1..MaxSockets[w]) : w \in Windows}
User(s) == UserOf[s[1]]
Current(w) == <<w, used[w]>>

\* Events of the gateway, with the users they name.
Event == [event : {"initial_online_users", "user_came_online", "user_went_offline",
                   "auth_error"},
          users : SUBSET Users]
CameOnline(u) == [event |-> "user_came_online", users |-> {u}]
WentOffline(u) == [event |-> "user_went_offline", users |-> {u}]
InitialUsers(us) == [event |-> "initial_online_users", users |-> us]
AuthError == [event |-> "auth_error", users |-> {}]

Init ==
  /\ phase = [w \in Windows |-> "idle"]
  /\ used = [w \in Windows |-> 0]
  /\ shown = [w \in Windows |-> {}]
  /\ hungUp = {}
  /\ link = [s \in Sockets |-> "none"]
  /\ verifying = {} /\ session = {} /\ closedEarly = {} /\ registry = {}
  /\ activity = <<>>
  /\ down = [s \in Sockets |-> <<>>]
  /\ up = [s \in Sockets |-> {}]
  /\ restarts = 0

-----------------------------------------------------------------------------
(* The registry *)

\* getOnlineUsers and isUserOnline: users with a socket in the registry, which
\* forgets a user with the last of the user's sockets.
Online(sockets) == {User(s) : s \in sockets}

\* Mutant: a user keeps the first socket.
RegisteredFirst(s) ==
  IF User(s) \in Online(registry) THEN registry ELSE registry \cup {s}

\* register.
Registered(s) == registry \cup {s}

\* emitToUser sends to the open sockets of a user and forgets the others.
Open(s) == link[s] = "open"

\* A client that has left the socket hears nothing of what is still sent on it.
Heard(s) == phase[s[1]] = "open" /\ s = Current(s[1])

\* broadcastPresenceUpdate(u, e), given the sockets now in the registry and the
\* events already on their way.
Broadcast(u, e, sockets, sent) ==
  /\ registry' = {s \in sockets : User(s) = u \/ Open(s)}
  /\ down' = [s \in Sockets |->
                IF s \in sockets /\ User(s) # u /\ Open(s) /\ Heard(s)
                THEN Append(sent[s], e)
                ELSE sent[s]]

\* Any other event sent to a user: stale sockets go, and nobody is told.
Prune(u) ==
  LET stale == {s \in registry : User(s) = u /\ ~Open(s)} IN
  /\ stale # {}
  /\ registry' = registry \ stale
  /\ UNCHANGED <<clientVars, link, verifying, session, closedEarly, activity, wireVars,
                 restarts>>

-----------------------------------------------------------------------------
(* The gateway *)

\* Mutant: nobody is told.
VerifiedQuietly(s) ==
  LET others == Online(registry) \ {User(s)} IN
  /\ s \in verifying
  /\ verifying' = verifying \ {s}
  /\ session' = session \cup {s}
  /\ activity' = [x \in DOMAIN activity \cup {s} |-> IF x = s THEN None ELSE activity[x]]
  /\ registry' = Registered(s)
  /\ down' = IF Open(s) /\ Heard(s)
              THEN [down EXCEPT ![s] = Append(@, InitialUsers(others))]
             ELSE down
  /\ UNCHANGED <<clientVars, link, closedEarly, up, restarts>>

\* handleConnection goes on when the token is verified, whether or not the socket
\* is still open.  Registering, the list of the users online and the broadcast are
\* one synchronous step.
Verified(s) ==
  LET others == Online(registry) \ {User(s)}
      sent == IF Open(s) /\ Heard(s)
              THEN [down EXCEPT ![s] = Append(@, InitialUsers(others))]
              ELSE down
  IN
  /\ s \in verifying
  /\ verifying' = verifying \ {s}
  /\ session' = session \cup {s}
  /\ activity' = [x \in DOMAIN activity \cup {s} |-> IF x = s THEN None ELSE activity[x]]
  /\ Broadcast(User(s), CameOnline(User(s)), Registered(s), sent)
  /\ UNCHANGED <<clientVars, link, closedEarly, up, restarts>>

\* The token is invalid or has expired: auth_error, and the socket is terminated.
Refused(s) ==
  /\ s \in verifying /\ s[2] < MaxSockets[s[1]]
  /\ verifying' = verifying \ {s}
  /\ down' = IF Open(s) /\ Heard(s) THEN [down EXCEPT ![s] = Append(@, AuthError)]
             ELSE down
  /\ link' = IF Open(s) THEN [link EXCEPT ![s] = "closing"] ELSE link
  /\ UNCHANGED <<clientVars, session, closedEarly, registry, activity, up, restarts>>

\* The server finds the connection broken or closed by the client.
Break(s) ==
  /\ Open(s)
  /\ s[2] < MaxSockets[s[1]] \/ s \in hungUp
  /\ link' = [link EXCEPT ![s] = "closing"]
  /\ UNCHANGED <<clientVars, serverVars, wireVars, restarts>>

\* The socket is forgotten; a socket without a userId was never registered.
Forget(s) ==
  /\ link[s] = "closing"
  /\ link' = [link EXCEPT ![s] = "closed"]
  /\ up' = [up EXCEPT ![s] = {}]
  /\ session' = session \ {s}
  /\ closedEarly' = closedEarly \cup ({s} \cap verifying)
  /\ activity' = [x \in DOMAIN activity \ {s} |-> activity[x]]
  /\ UNCHANGED <<clientVars, verifying, restarts>>

\* Mutant: whether the user is online is asked before the socket is removed.
DisconnectEarly(s) ==
  /\ Forget(s)
  /\ IF s \in session /\ User(s) \notin Online(registry)
     THEN Broadcast(User(s), WentOffline(User(s)), registry \ {s}, down)
     ELSE registry' = registry \ {s} /\ UNCHANGED down

\* Mutant: the socket is not removed.
DisconnectWithoutRemoval(s) ==
  /\ Forget(s)
  /\ UNCHANGED <<registry, down>>

\* handleDisconnect, on the close event: the others are told when this was the
\* last socket of the user.
Disconnect(s) ==
  /\ Forget(s)
  /\ IF s \in session /\ User(s) \notin Online(registry \ {s})
     THEN Broadcast(User(s), WentOffline(User(s)), registry \ {s}, down)
     ELSE registry' = registry \ {s} /\ UNCHANGED down

\* handleSetActiveConversation refuses a socket that has no userId yet; the event
\* is lost.
HandleActive(s) ==
  /\ Open(s)
  /\ \E c \in up[s] :
       activity' = IF s \in session THEN [activity EXCEPT ![s] = c] ELSE activity
  /\ up' = [up EXCEPT ![s] = {}]
  /\ UNCHANGED <<clientVars, link, verifying, session, closedEarly, registry, down,
                 restarts>>

\* The instance restarts: its maps are empty and its sockets gone.
Restart ==
  /\ restarts < MaxRestarts
  /\ \A w \in Windows : phase[w] = "idle" \/ used[w] < MaxSockets[w]
  /\ restarts' = restarts + 1
  /\ link' = [s \in Sockets |-> IF link[s] = "none" THEN "none" ELSE "closed"]
  /\ up' = [s \in Sockets |-> {}]
  /\ verifying' = {} /\ session' = {} /\ registry' = {} /\ activity' = <<>>
  /\ UNCHANGED <<clientVars, closedEarly, down>>

-----------------------------------------------------------------------------
(* The client *)

\* connect: a new socket; the server starts to verify its token.
Connect(w) ==
  /\ used[w] < MaxSockets[w]
  /\ used' = [used EXCEPT ![w] = @ + 1]
  /\ phase' = [phase EXCEPT ![w] = "open"]
  /\ link' = [link EXCEPT ![<<w, used[w] + 1>>] = "open"]
  /\ verifying' = verifying \cup {<<w, used[w] + 1>>}
  /\ UNCHANGED <<shown, hungUp, session, closedEarly, registry, activity, wireVars,
                 restarts>>

SignIn(w) == phase[w] = "idle" /\ Connect(w)

\* The reconnect timer fires.
Reconnect(w) == phase[w] = "waiting" /\ Connect(w)

\* onclose: what was still on its way is lost; a timer is set.
Lost(w) ==
  /\ phase[w] = "open" /\ used[w] < MaxSockets[w]
  /\ phase' = [phase EXCEPT ![w] = "waiting"]
  /\ down' = [down EXCEPT ![Current(w)] = <<>>]
  /\ UNCHANGED <<used, shown, hungUp, link, serverVars, up, restarts>>

\* Logout: disconnect detaches the handlers and closes the socket.
Logout(w) ==
  /\ phase[w] \in {"open", "waiting"}
  /\ hungUp' = IF phase[w] = "open" /\ link[Current(w)] # "closed"
               THEN hungUp \cup {Current(w)} ELSE hungUp
  /\ phase' = [phase EXCEPT ![w] = "idle"]
  /\ down' = [down EXCEPT ![Current(w)] = <<>>]
  /\ UNCHANGED <<used, shown, link, serverVars, up, restarts>>

\* What a presence event does to onlineUsers; the list of a new connection is
\* added to what was shown before.
Shows(users, e) ==
  IF e.event = "user_went_offline" THEN users \ e.users ELSE users \cup e.users

\* onmessage; auth_error ends the session and loads the sign-in page.
Receive(w) ==
  LET s == Current(w) IN
  /\ phase[w] = "open" /\ down[s] # <<>>
  /\ IF Head(down[s]) = AuthError
     THEN /\ phase' = [phase EXCEPT ![w] = "idle"]
          /\ shown' = [shown EXCEPT ![w] = {}]
          /\ down' = [down EXCEPT ![s] = <<>>]
     ELSE /\ shown' = [shown EXCEPT ![w] = Shows(@, Head(down[s]))]
          /\ down' = [down EXCEPT ![s] = Tail(@)]
          /\ UNCHANGED phase
  /\ UNCHANGED <<used, hungUp, link, serverVars, up, restarts>>

\* The user opens or leaves a conversation.  (Bound: one such event on its way.)
SetActive(w, c) ==
  /\ phase[w] = "open" /\ up[Current(w)] = {} /\ Open(Current(w))
  /\ up' = [up EXCEPT ![Current(w)] = {c}]
  /\ UNCHANGED <<clientVars, link, serverVars, down, restarts>>

-----------------------------------------------------------------------------

Next ==
  \/ \E s \in Sockets :
       Verified(s) \/ Refused(s) \/ Break(s) \/ Disconnect(s) \/ HandleActive(s)
  \/ \E w \in Windows :
       \/ SignIn(w) \/ Reconnect(w) \/ Lost(w) \/ Logout(w) \/ Receive(w)
       \/ \E c \in Conversations \cup {None} : w \in Viewers /\ SetActive(w, c)
  \/ \E u \in Users : Prune(u)
  \/ Restart

Spec == Init /\ [][Next]_vars

\* The token is answered, each end sees a socket that the other has closed, the
\* reconnect timer fires, and events arrive.  Nothing says that the server ever sees
\* a connection that merely broke: there is no heartbeat.
Fairness ==
  /\ \A s \in Sockets :
       /\ WF_vars(Verified(s) \/ Refused(s))
       /\ WF_vars(Disconnect(s))
       /\ WF_vars(s \in hungUp /\ Break(s))
  /\ \A w \in Windows :
       /\ WF_vars(Reconnect(w)) /\ WF_vars(Receive(w))
       /\ WF_vars(Lost(w) /\ link[Current(w)] = "closed")

FairSpec == Spec /\ Fairness

-----------------------------------------------------------------------------
(* Properties *)

TypeOK ==
  /\ phase \in [Windows -> {"idle", "open", "waiting"}]
  /\ used \in [Windows -> Nat]
  /\ shown \in [Windows -> SUBSET Users]
  /\ hungUp \subseteq Sockets
  /\ link \in [Sockets -> {"none", "open", "closing", "closed"}]
  /\ verifying \subseteq Sockets /\ session \subseteq Sockets \ verifying
  /\ closedEarly \subseteq Sockets
  /\ registry \subseteq session
  /\ DOMAIN activity \subseteq session
  /\ \A s \in DOMAIN activity : activity[s] \in Conversations \cup {None}
  /\ down \in [Sockets -> Seq(Event)]
  /\ up \in [Sockets -> SUBSET (Conversations \cup {None})]
  /\ restarts \in Nat

\* A window whose current socket is open and registered.
Attached(w) ==
  /\ phase[w] = "open" /\ Open(Current(w))
  /\ Current(w) \in registry

\* The users shown once the events have arrived, each as the last event that names
\* the user says.
ShownAfter(users, events) ==
  {u \in Users :
     LET naming == {n \in DOMAIN events : u \in events[n].users} IN
     \/ naming = {} /\ u \in users
     \/ \E n \in naming : /\ \A k \in naming : k <= n
                          /\ events[n].event # "user_went_offline"}

\* What a window will show.
WillShow(w) == ShownAfter(shown[w], down[Current(w)])

\* Whoever has a registered connection is shown, or about to be shown, to every
\* other user who is connected, whatever sockets came and went.
NobodyMissing ==
  \A w \in Windows : Attached(w) =>
    Online(registry) \ {UserOf[w]} \subseteq WillShow(w)

\* Present(u): the user has a socket that the server has not seen closed, or one
\* that closed while its token was verified and was registered afterwards: its close
\* event is over, and only an event sent to its user, or a restart, removes it.
Present(u) ==
  \E s \in session : User(s) = u /\ (link[s] = "closed" => s \in closedEarly)

\* A window on its first connection shows, once events arrive, only users who are
\* present: of those whose sockets have all closed, only the phantoms that
\* handleConnection leaves, which registers without asking whether the socket is
\* still open.
NobodyLingers ==
  \A w \in Windows : Attached(w) /\ used[w] = 1 =>
    \A u \in WillShow(w) : Present(u)

\* A window whose connection broke is connected and registered again, unless its
\* user is signed out.
ComesBack ==
  \A w \in Windows : (phase[w] = "waiting") ~> (phase[w] = "idle" \/ Attached(w))

\* A registered socket that its client has closed does not stay registered, unless
\* it was closed while its token was verified: registered after that, it may stay.
SignOutIsSeen ==
  \A s \in Sockets : (s \in hungUp \cap registry) ~> 
    (s \notin registry \/ s \in closedEarly)

=============================================================================
