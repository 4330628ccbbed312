--------------------------- MODULE BrowserProofs ---------------------------
(***************************************************************************)
(* Proofs about the windows of the browsers, for any users, windows,       *)
(* sockets and tokens: first their connections to the server               *)
(* (Connections), then their sessions (ClientSession).  The two are        *)
(* specifications of their own, Spec and SessionSpec, without a variable   *)
(* in common.                                                              *)
(***************************************************************************)
EXTENDS Connections, ClientSession, TLAPS

-----------------------------------------------------------------------------
(* The inductive invariant of Connections *)

\* A window opens its sockets in order; one that is signed in has opened a socket.
WindowsSound ==
  \A w \in Windows : used[w] <= MaxSockets[w] /\ (phase[w] # "idle" => used[w] > 0)

\* The server knows only sockets that were opened, and an active conversation for every
\* socket with a userId.
SocketsKnown ==
  /\ \A s \in verifying \cup session : s[2] <= used[s[1]]
  /\ session = DOMAIN activity

\* Of the sockets the server still knows, only those are closed that closed while their
\* token was verified.
ClosedKnown ==
  \A s \in verifying \cup session : link[s] = "closed" => s \in closedEarly

\* Nothing is sent on a socket before its token is verified.
NothingEarly ==
  \A s \in Sockets : s \in verifying \/ s[2] > used[s[1]] => down[s] = <<>>

\* A window shows nobody before its first socket is registered.
NobodyEarly ==
  \A w \in Windows :
    used[w] = 0 \/ (used[w] = 1 /\ Current(w) \in verifying) => shown[w] = {}

ConnInv ==
  /\ TypeOK /\ WindowsSound /\ SocketsKnown /\ ClosedKnown /\ NothingEarly /\ NobodyEarly
  /\ NobodyMissing /\ NobodyLingers

-----------------------------------------------------------------------------
(* Lemmas on sockets and on the events on their way *)

\* What a socket is made of.
LEMMA SocketFields ==
  ASSUME NEW s \in Sockets
  PROVE  /\ s[1] \in Windows /\ s[2] \in 1..MaxSockets[s[1]] /\ s = <<s[1], s[2]>>
         /\ User(s) \in Users /\ s[2] \in Nat /\ s[2] > 0
BY UserOfAssumption, BoundsAssumption DEF Sockets, User

\* A window and a number within its bound make a socket.
LEMMA SocketOf ==
  ASSUME NEW w \in Windows, NEW n \in 1..MaxSockets[w]
  PROVE  /\ <<w, n>> \in Sockets /\ <<w, n>>[1] = w /\ <<w, n>>[2] = n
         /\ User(<<w, n>>) = UserOf[w]
BY DEF Sockets, User

\* A window that has opened a socket has a current one.
LEMMA CurrentIsSocket ==
  ASSUME TypeOK, WindowsSound, NEW w \in Windows, used[w] > 0
  PROVE  /\ Current(w) \in Sockets /\ Current(w)[1] = w /\ Current(w)[2] = used[w]
         /\ User(Current(w)) = UserOf[w]
<1>1. used[w] \in 1..MaxSockets[w]
  BY BoundsAssumption DEF TypeOK, WindowsSound
<1> QED
  BY <1>1, SocketOf DEF Current

\* The server does not know the socket that a window opens next.
LEMMA NextSocket ==
  ASSUME TypeOK, SocketsKnown, NEW w \in Windows, Connect(w)
  PROVE  /\ <<w, used[w] + 1>> \in Sockets /\ <<w, used[w] + 1>> \notin verifying \cup session
         /\ used[w] + 1 \in Nat /\ used[w] < used[w] + 1 /\ used[w] + 1 <= MaxSockets[w]
<1>1. used[w] < MaxSockets[w] /\ used[w] \in Nat /\ MaxSockets[w] \in Nat
  BY BoundsAssumption DEF Connect, TypeOK
<1>2. used[w] + 1 \in 1..MaxSockets[w]
  BY <1>1
<1>3. <<w, used[w] + 1>> \in Sockets
  BY <1>2, SocketOf
<1>4. ~(used[w] + 1 <= used[w])
  BY <1>1
<1>5. <<w, used[w] + 1>>[1] = w /\ <<w, used[w] + 1>>[2] = used[w] + 1
  OBVIOUS
<1> QED
  BY <1>1, <1>3, <1>4, <1>5 DEF SocketsKnown

\* The events of the gateway.
LEMMA EventsOf ==
  ASSUME NEW u \in Users, NEW us \in SUBSET Users
  PROVE  /\ CameOnline(u) \in Event /\ WentOffline(u) \in Event
         /\ InitialUsers(us) \in Event /\ AuthError \in Event
         /\ \A shows : Shows(shows, CameOnline(u)) = shows \cup {u}
         /\ \A shows : Shows(shows, WentOffline(u)) = shows \ {u}
         /\ \A shows : Shows(shows, InitialUsers(us)) = shows \cup us
         /\ \A shows : Shows(shows, AuthError) = shows
BY DEF CameOnline, WentOffline, InitialUsers, AuthError, Event, Shows

\* One more event is on its way.
LEMMA ShownAppend ==
  ASSUME NEW us \in SUBSET Users, NEW s \in Seq(Event), NEW e \in Event
  PROVE  ShownAfter(us, Append(s, e)) = Shows(ShownAfter(us, s), e)
<1> DEFINE r == Append(s, e)
           last == Len(s) + 1
<1>1. /\ Len(s) \in Nat /\ DOMAIN s = 1..Len(s) /\ DOMAIN r = 1..last
      /\ r[last] = e /\ \A n \in 1..Len(s) : r[n] = s[n]
  OBVIOUS
<1>2. e.users \in SUBSET Users
  BY DEF Event
<1> HIDE DEF r
<1>3. ASSUME NEW u \in Users
      PROVE  u \in ShownAfter(us, r) <=> u \in Shows(ShownAfter(us, s), e)
  <2> DEFINE named == {n \in DOMAIN s : u \in s[n].users}
             naming == {n \in DOMAIN r : u \in r[n].users}
  <2>1. CASE u \in e.users
    <3>1. last \in naming /\ \A k \in naming : k <= last
      BY <1>1, <2>1
    <3>2. \A n \in naming : (\A k \in naming : k <= n) => n = last
      BY <1>1, <3>1
    <3>3. u \in ShownAfter(us, r) <=> e.event # "user_went_offline"
      BY <1>1, <3>1, <3>2 DEF ShownAfter
    <3> QED
      BY <2>1, <3>3 DEF Shows
  <2>2. CASE u \notin e.users
    <3>1. naming = named
      BY <1>1, <2>2
    <3>2. \A n \in named : r[n] = s[n]
      BY <1>1
    <3> HIDE DEF naming, named
    <3>3. u \in ShownAfter(us, r) <=> u \in ShownAfter(us, s)
      BY <3>1, <3>2 DEF ShownAfter, naming, named
    <3> QED
      BY <2>2, <3>3 DEF Shows
  <2> QED
    BY <2>1, <2>2
<1>4. ShownAfter(us, r) \subseteq Users /\ ShownAfter(us, s) \subseteq Users
  BY DEF ShownAfter
<1>5. Shows(ShownAfter(us, s), e) \subseteq Users
  BY <1>2, <1>4 DEF Shows
<1>6. ShownAfter(us, r) = Shows(ShownAfter(us, s), e)
  BY <1>3, <1>4, <1>5
<1> QED
  BY <1>6 DEF r

\* The first event on its way arrives.
LEMMA ShownTail ==
  ASSUME NEW us \in SUBSET Users, NEW s \in Seq(Event), s # <<>>
  PROVE  ShownAfter(Shows(us, Head(s)), Tail(s)) = ShownAfter(us, s)
<1> DEFINE r == Tail(s)
           e == Head(s)
<1>1. /\ Len(s) \in Nat /\ Len(s) > 0 /\ DOMAIN s = 1..Len(s) /\ DOMAIN r = 1..(Len(s) - 1)
      /\ e = s[1] /\ \A n \in 1..(Len(s) - 1) : r[n] = s[n + 1]
  OBVIOUS
<1> HIDE DEF r, e
<1>2. ASSUME NEW u \in Users
      PROVE  u \in ShownAfter(Shows(us, e), r) <=> u \in ShownAfter(us, s)
  <2> DEFINE left == {n \in DOMAIN r : u \in r[n].users}
             naming == {n \in DOMAIN s : u \in s[n].users}
  <2>1. ASSUME NEW n \in left PROVE n \in Nat /\ n + 1 \in naming /\ r[n] = s[n + 1]
    <3>1. n \in 1..(Len(s) - 1)
      BY <1>1
    <3>2. n + 1 \in 1..Len(s)
      BY <1>1, <3>1
    <3> QED
      BY <1>1, <3>1, <3>2
  <2>2. ASSUME NEW n \in naming
        PROVE  n \in Nat /\ ((n = 1 /\ u \in e.users) \/ (n - 1 \in left /\ n - 1 \in Nat))
    <3>1. n \in 1..Len(s) /\ u \in s[n].users
      BY <1>1
    <3>2. CASE n = 1
      BY <1>1, <3>1, <3>2
    <3>3. CASE n # 1
      <4>1. n - 1 \in 1..(Len(s) - 1) /\ r[n - 1] = s[(n - 1) + 1] /\ (n - 1) + 1 = n
        BY <1>1, <3>1, <3>3
      <4> QED
        BY <1>1, <3>1, <4>1
    <3> QED
      BY <3>2, <3>3
  <2>3. u \in e.users => 1 \in naming
    BY <1>1
  <2> HIDE DEF left, naming
  <2>4. u \in ShownAfter(us, s) <=>
          \/ naming = {} /\ u \in us
          \/ \E n \in naming : (\A k \in naming : k <= n) /\ s[n].event # "user_went_offline"
    BY DEF ShownAfter, naming
  <2>5. u \in ShownAfter(Shows(us, e), r) <=>
          \/ left = {} /\ u \in Shows(us, e)
          \/ \E n \in left : (\A k \in left : k <= n) /\ r[n].event # "user_went_offline"
    BY DEF ShownAfter, left
  <2>6. CASE left = {}
    <3>1. \A n \in naming : n = 1 /\ u \in e.users
      BY <2>2, <2>6
    <3>2. CASE u \in e.users
      <4>1. naming = {1}
        BY <2>3, <3>1, <3>2
      <4>2. u \in ShownAfter(us, s) <=> e.event # "user_went_offline"
        BY <1>1, <2>4, <4>1
      <4> QED
        BY <2>5, <2>6, <3>2, <4>2 DEF Shows
    <3>3. CASE u \notin e.users
      BY <2>4, <2>5, <2>6, <3>1, <3>3 DEF Shows
    <3> QED
      BY <3>2, <3>3
  <2>7. CASE left # {}
    <3>1. ASSUME NEW n \in left, \A k \in left : k <= n
          PROVE  n + 1 \in naming /\ \A k \in naming : k <= n + 1
      BY <2>1, <2>2, <3>1
    <3>2. ASSUME NEW n \in naming, \A k \in naming : k <= n
          PROVE  n - 1 \in left /\ \A k \in left : k <= n - 1
      <4>1. PICK k \in left : TRUE
        BY <2>7
      <4>2. k + 1 <= n /\ k \in Nat /\ n \in Nat /\ k > 0
        BY <1>1, <2>1, <2>2, <3>2, <4>1 DEF left
      <4>3. n - 1 \in left
        BY <2>2, <4>2
      <4> QED
        BY <2>1, <2>2, <3>2, <4>3
    <3>3. \A n \in naming : n - 1 \in left => r[n - 1] = s[n]
      BY <2>1, <2>2
    <3>4. naming # {}
      BY <2>1, <2>7
    <3> QED
      BY <2>1, <2>4, <2>5, <2>7, <3>1, <3>2, <3>3, <3>4
  <2> QED
    BY <2>6, <2>7
<1>3. ShownAfter(us, s) \subseteq Users /\ ShownAfter(Shows(us, e), r) \subseteq Users
  BY DEF ShownAfter
<1>4. ShownAfter(Shows(us, e), r) = ShownAfter(us, s)
  BY <1>2, <1>3
<1> QED
  BY <1>4 DEF r, e

\* A broadcast is one more event for the clients that hear it.
LEMMA BroadcastSends ==
  ASSUME NEW u \in Users, NEW e \in Event, NEW known \in SUBSET Sockets,
         NEW sent \in [Sockets -> Seq(Event)], Broadcast(u, e, known, sent)
  PROVE  /\ registry' \subseteq known /\ down' \in [Sockets -> Seq(Event)]
         /\ \A s \in Sockets : s \notin known => down'[s] = sent[s]
         /\ \A s \in registry' : down'[s] = IF User(s) # u /\ Heard(s)
                                            THEN Append(sent[s], e) ELSE sent[s]
<1>1. /\ registry' = {s \in known : User(s) = u \/ Open(s)}
      /\ down' = [s \in Sockets |->
                    IF s \in known /\ User(s) # u /\ Open(s) /\ Heard(s)
                    THEN Append(sent[s], e) ELSE sent[s]]
  BY DEF Broadcast
<1>2. \A s \in Sockets : Append(sent[s], e) \in Seq(Event) /\ sent[s] \in Seq(Event)
  OBVIOUS
<1>3. down' \in [Sockets -> Seq(Event)]
  BY <1>1, <1>2
<1> QED
  BY <1>1, <1>3

\* One more event for the client of a socket.
LEMMA SendOne ==
  ASSUME NEW f \in [Sockets -> Seq(Event)], NEW s \in Sockets, NEW e \in Event
  PROVE  /\ [f EXCEPT ![s] = Append(@, e)] \in [Sockets -> Seq(Event)]
         /\ [f EXCEPT ![s] = Append(@, e)][s] = Append(f[s], e)
         /\ \A x \in Sockets : x # s => [f EXCEPT ![s] = Append(@, e)][x] = f[x]
<1>1. Append(f[s], e) \in Seq(Event)
  OBVIOUS
<1> QED
  BY <1>1

\* What a verified socket and its user are sent.
Greeting(s) ==
  IF Open(s) /\ Heard(s)
  THEN [down EXCEPT ![s] = Append(@, InitialUsers(Online(registry) \ {User(s)}))]
  ELSE down

\* What is sent when a token is verified.
LEMMA VerifiedSends ==
  ASSUME TypeOK, NEW s \in Sockets, Verified(s)
  PROVE  /\ registry' \subseteq registry \cup {s} /\ down' \in [Sockets -> Seq(Event)]
         /\ Online(registry) \ {User(s)} \in SUBSET Users
         /\ down'[s] = IF Open(s) /\ Heard(s)
              THEN Append(down[s], InitialUsers(Online(registry) \ {User(s)})) ELSE down[s]
         /\ \A x \in Sockets : x \notin registry \cup {s} => down'[x] = down[x]
         /\ \A x \in registry' : x # s =>
              down'[x] = IF User(x) # User(s) /\ Heard(x)
                         THEN Append(down[x], CameOnline(User(s))) ELSE down[x]
<1> DEFINE us == Online(registry) \ {User(s)}
           e == CameOnline(User(s))
           hello == InitialUsers(us)
           sent == Greeting(s)
<1>1. registry \in SUBSET Sockets /\ down \in [Sockets -> Seq(Event)]
  BY DEF TypeOK
<1>2. User(s) \in Users /\ us \in SUBSET Users
  BY <1>1, SocketFields DEF Online
<1>3. e \in Event /\ hello \in Event
  BY <1>2, EventsOf
<1>4. Broadcast(User(s), e, registry \cup {s}, sent)
  BY DEF Verified, Registered, Greeting
<1>5. sent = IF Open(s) /\ Heard(s) THEN [down EXCEPT ![s] = Append(@, hello)] ELSE down
  BY DEF Greeting
<1> HIDE DEF e, hello, sent, us
<1>6. /\ sent \in [Sockets -> Seq(Event)]
      /\ sent[s] = IF Open(s) /\ Heard(s) THEN Append(down[s], hello) ELSE down[s]
      /\ \A x \in Sockets : x # s => sent[x] = down[x]
  BY <1>1, <1>3, <1>5, SendOne
<1>7. registry \cup {s} \in SUBSET Sockets
  BY <1>1
<1>8. /\ registry' \subseteq registry \cup {s} /\ down' \in [Sockets -> Seq(Event)]
      /\ \A x \in Sockets : x \notin registry \cup {s} => down'[x] = sent[x]
      /\ \A x \in registry' : down'[x] = IF User(x) # User(s) /\ Heard(x)
                                         THEN Append(sent[x], e) ELSE sent[x]
  BY <1>2, <1>3, <1>4, <1>6, <1>7, BroadcastSends
<1>9. down'[s] = sent[s]
  <2>1. down' = [x \in Sockets |->
                   IF x \in registry \cup {s} /\ User(x) # User(s) /\ Open(x) /\ Heard(x)
                   THEN Append(sent[x], e) ELSE sent[x]]
    BY <1>4 DEF Broadcast
  <2> QED
    BY <2>1
<1> QED
  BY <1>1, <1>2, <1>6, <1>8, <1>9 DEF e, hello, us

\* What is sent when a socket is forgotten.
LEMMA DisconnectSends ==
  ASSUME TypeOK, NEW s \in Sockets, Disconnect(s)
  PROVE  /\ registry' \subseteq registry \ {s} /\ down' \in [Sockets -> Seq(Event)]
         /\ \A x \in Sockets : x \notin registry => down'[x] = down[x]
         /\ \/ UNCHANGED down /\ (s \in session => User(s) \in Online(registry \ {s}))
            \/ /\ User(s) \notin Online(registry \ {s})
               /\ \A x \in registry' :
                    down'[x] = IF User(x) # User(s) /\ Heard(x)
                               THEN Append(down[x], WentOffline(User(s))) ELSE down[x]
<1>1. registry \ {s} \in SUBSET Sockets /\ down \in [Sockets -> Seq(Event)]
  BY DEF TypeOK
<1>2. User(s) \in Users /\ WentOffline(User(s)) \in Event
  <2>1. User(s) \in Users
    BY SocketFields
  <2> QED
    BY <2>1, EventsOf
<1>3. CASE s \in session /\ User(s) \notin Online(registry \ {s})
  <2>1. Broadcast(User(s), WentOffline(User(s)), registry \ {s}, down)
    BY <1>3 DEF Disconnect
  <2>2. /\ registry' \subseteq registry \ {s} /\ down' \in [Sockets -> Seq(Event)]
        /\ \A x \in Sockets : x \notin registry \ {s} => down'[x] = down[x]
        /\ \A x \in registry' :
             down'[x] = IF User(x) # User(s) /\ Heard(x)
                        THEN Append(down[x], WentOffline(User(s))) ELSE down[x]
    BY <1>1, <1>2, <2>1, BroadcastSends
  <2> QED
    BY <1>3, <2>2
<1>4. CASE ~(s \in session /\ User(s) \notin Online(registry \ {s}))
  BY <1>1, <1>4 DEF Disconnect
<1> QED
  BY <1>3, <1>4

-----------------------------------------------------------------------------
(* Every step keeps the types *)

\* The initial states are well typed.
LEMMA InitTypes == Init => TypeOK
BY DEF Init, TypeOK, Event

\* No step leaves the types, the callbacks of the server and of the client alike.
LEMMA TypeStep ==
  ASSUME TypeOK, WindowsSound, SocketsKnown, [Next]_vars
  PROVE  TypeOK'
<1> USE DEF clientVars, serverVars, wireVars
<1>1. ASSUME NEW s \in Sockets, Verified(s) PROVE TypeOK'
  <2>1. registry' \subseteq registry \cup {s} /\ down' \in [Sockets -> Seq(Event)]
    BY <1>1, VerifiedSends
  <2>2. /\ DOMAIN activity' = DOMAIN activity \cup {s}
        /\ \A x \in DOMAIN activity' : activity'[x] \in Conversations \cup {None}
    BY <1>1 DEF TypeOK, Verified
  <2>3. /\ verifying' = verifying \ {s} /\ session' = session \cup {s}
        /\ UNCHANGED <<clientVars, link, closedEarly, up, restarts>>
    BY <1>1 DEF Verified
  <2> QED
    BY <2>1, <2>2, <2>3 DEF TypeOK
<1>2. ASSUME NEW s \in Sockets, Refused(s) PROVE TypeOK'
  <2>1. down' \in [Sockets -> Seq(Event)]
    <3>1. AuthError \in Event
      BY DEF AuthError, Event
    <3> QED
      BY <1>2, <3>1, SendOne DEF Refused, TypeOK
  <2> QED
    BY <1>2, <2>1 DEF Refused, TypeOK
<1>3. ASSUME NEW s \in Sockets, Disconnect(s) PROVE TypeOK'
  <2>1. registry' \subseteq registry \ {s} /\ down' \in [Sockets -> Seq(Event)]
    BY <1>3, DisconnectSends
  <2>2. /\ DOMAIN activity' = DOMAIN activity \ {s}
        /\ \A x \in DOMAIN activity' : activity'[x] = activity[x]
    BY <1>3 DEF Disconnect, Forget
  <2>3. /\ link' = [link EXCEPT ![s] = "closed"] /\ up' = [up EXCEPT ![s] = {}]
        /\ closedEarly' = closedEarly \cup ({s} \cap verifying) /\ session' = session \ {s}
        /\ UNCHANGED <<clientVars, verifying, restarts>>
    BY <1>3 DEF Disconnect, Forget
  <2> QED
    BY <2>1, <2>2, <2>3 DEF TypeOK
<1>4. ASSUME NEW s \in Sockets, HandleActive(s) PROVE TypeOK'
  <2>1. PICK c \in up[s] : activity' = IF s \in session THEN [activity EXCEPT ![s] = c] ELSE activity
    BY <1>4 DEF HandleActive
  <2>2. c \in Conversations \cup {None}
    BY <2>1 DEF TypeOK
  <2>3. /\ DOMAIN activity' = DOMAIN activity
        /\ \A x \in DOMAIN activity' : activity'[x] \in Conversations \cup {None}
    BY <2>1, <2>2 DEF TypeOK
  <2>4. /\ up' = [up EXCEPT ![s] = {}]
        /\ UNCHANGED <<clientVars, link, verifying, session, closedEarly, registry, down,
                       restarts>>
    BY <1>4 DEF HandleActive
  <2> QED
    BY <2>3, <2>4 DEF TypeOK
<1>5. ASSUME NEW s \in Sockets, Break(s) PROVE TypeOK'
  BY <1>5 DEF Break, TypeOK
<1>6. ASSUME NEW w \in Windows, Connect(w) PROVE TypeOK'
  <2> DEFINE new == <<w, used[w] + 1>>
  <2>1. new \in Sockets /\ new \notin session /\ used[w] + 1 \in Nat
    BY <1>6, NextSocket
  <2>2. /\ used' = [used EXCEPT ![w] = used[w] + 1] /\ phase' = [phase EXCEPT ![w] = "open"]
        /\ link' = [link EXCEPT ![new] = "open"] /\ verifying' = verifying \cup {new}
        /\ UNCHANGED <<shown, hungUp, session, closedEarly, registry, activity, wireVars,
                       restarts>>
    BY <1>6 DEF Connect
  <2> HIDE DEF new
  <2> QED
    BY <2>1, <2>2 DEF TypeOK
<1>7. ASSUME NEW w \in Windows, Lost(w) \/ Logout(w) PROVE TypeOK'
  <2>1. used[w] > 0
    BY <1>7 DEF Lost, Logout, WindowsSound
  <2>2. Current(w) \in Sockets
    BY <2>1, CurrentIsSocket
  <2>3. /\ phase' = [phase EXCEPT ![w] = "waiting"] \/ phase' = [phase EXCEPT ![w] = "idle"]
        /\ hungUp' \subseteq hungUp \cup {Current(w)}
        /\ down' = [down EXCEPT ![Current(w)] = <<>>]
        /\ UNCHANGED <<used, shown, link, serverVars, up, restarts>>
    BY <1>7 DEF Lost, Logout
  <2>4. phase' \in [Windows -> {"idle", "open", "waiting"}]
    BY <2>3 DEF TypeOK
  <2>5. down' \in [Sockets -> Seq(Event)]
    BY <2>2, <2>3 DEF TypeOK
  <2> QED
    BY <2>2, <2>3, <2>4, <2>5 DEF TypeOK
<1>8. ASSUME NEW w \in Windows, Receive(w) PROVE TypeOK'
  <2> DEFINE s == Current(w)
  <2>1. s \in Sockets
    BY <1>8, CurrentIsSocket DEF Receive, WindowsSound
  <2>2. down[s] \in Seq(Event) /\ down[s] # <<>>
    BY <1>8, <2>1 DEF Receive, TypeOK
  <2>3. Head(down[s]) \in Event /\ Tail(down[s]) \in Seq(Event) /\ <<>> \in Seq(Event)
    BY <2>2
  <2>4. Shows(shown[w], Head(down[s])) \in SUBSET Users
    BY <2>3 DEF Shows, TypeOK, Event
  <2>5. UNCHANGED <<used, hungUp, link, serverVars, up, restarts>>
    BY <1>8 DEF Receive
  <2>6. /\ phase' \in [Windows -> {"idle", "open", "waiting"}]
        /\ shown' \in [Windows -> SUBSET Users] /\ down' \in [Sockets -> Seq(Event)]
    BY <1>8, <2>1, <2>3, <2>4 DEF Receive, TypeOK
  <2> QED
    BY <2>5, <2>6 DEF TypeOK
<1>9. ASSUME NEW w \in Windows, NEW c \in Conversations \cup {None}, SetActive(w, c) PROVE TypeOK'
  <2>1. Current(w) \in Sockets
    BY <1>9, CurrentIsSocket DEF SetActive, WindowsSound
  <2> QED
    BY <1>9, <2>1 DEF SetActive, TypeOK
<1>10. ASSUME NEW u \in Users, Prune(u) PROVE TypeOK'
  BY <1>10 DEF Prune, TypeOK
<1>11. ASSUME Restart PROVE TypeOK'
  BY <1>11 DEF Restart, TypeOK
<1>12. ASSUME UNCHANGED vars PROVE TypeOK'
  BY <1>12 DEF vars, TypeOK
<1> QED
  BY <1>1, <1>2, <1>3, <1>4, <1>5, <1>6, <1>7, <1>8, <1>9, <1>10, <1>11, <1>12
  DEF Next, SignIn, Reconnect

-----------------------------------------------------------------------------
(* The windows, the maps of the server, and what comes early *)

\* A window never opens more sockets than its bound.
LEMMA WindowsStep ==
  ASSUME TypeOK, WindowsSound, [Next]_vars
  PROVE  WindowsSound'
<1> USE DEF clientVars, serverVars, wireVars
<1>1. ASSUME NEW w \in Windows, Connect(w) PROVE WindowsSound'
  <2>1. /\ used' = [used EXCEPT ![w] = used[w] + 1] /\ phase' = [phase EXCEPT ![w] = "open"]
        /\ used[w] \in Nat /\ used[w] < MaxSockets[w] /\ MaxSockets[w] \in Nat
    BY <1>1, BoundsAssumption DEF Connect, TypeOK
  <2>2. \A x \in Windows : used'[x] = (IF x = w THEN used[w] + 1 ELSE used[x])
                           /\ (x # w => phase'[x] = phase[x])
    BY <2>1 DEF TypeOK
  <2> QED
    BY <2>1, <2>2 DEF WindowsSound
<1>2. ASSUME UNCHANGED used,
             \A w \in Windows : phase'[w] # "idle" => phase[w] # "idle"
      PROVE  WindowsSound'
  BY <1>2 DEF WindowsSound
<1>3. ASSUME NEW w \in Windows, Lost(w) \/ Logout(w) \/ Receive(w) PROVE WindowsSound'
  <2>1. /\ UNCHANGED used
        /\ \/ UNCHANGED phase
           \/ phase' = [phase EXCEPT ![w] = "idle"]
           \/ phase[w] = "open" /\ phase' = [phase EXCEPT ![w] = "waiting"]
    BY <1>3 DEF Lost, Logout, Receive
  <2> QED
    BY <1>2, <2>1 DEF TypeOK
<1>4. ASSUME UNCHANGED <<used, phase>> PROVE WindowsSound'
  BY <1>4 DEF WindowsSound
<1> QED
  BY <1>1, <1>3, <1>4
  DEF Next, SignIn, Reconnect, Verified, Refused, Break, Disconnect, Forget, HandleActive,
      SetActive, Prune, Restart, vars

\* The server comes to know only sockets that are open, and keeps session and activity alike.
LEMMA KnownStep ==
  ASSUME TypeOK, SocketsKnown, [Next]_vars
  PROVE  SocketsKnown'
<1> USE DEF clientVars, serverVars, wireVars
<1>1. ASSUME NEW w \in Windows, Connect(w) PROVE SocketsKnown'
  <2> DEFINE new == <<w, used[w] + 1>>
  <2>1. used[w] + 1 \in Nat /\ used[w] < used[w] + 1 /\ used[w] \in Nat
    BY <1>1, NextSocket DEF TypeOK
  <2>2. /\ used' = [used EXCEPT ![w] = used[w] + 1] /\ verifying' = verifying \cup {new}
        /\ UNCHANGED <<session, activity>>
    BY <1>1 DEF Connect
  <2>3. new[1] = w /\ new[2] = used[w] + 1
    OBVIOUS
  <2> HIDE DEF new
  <2>4. \A x \in Windows : used'[x] = IF x = w THEN used[w] + 1 ELSE used[x]
    BY <2>2 DEF TypeOK
  <2>5. ASSUME NEW s \in verifying' \cup session' PROVE s[2] <= used'[s[1]]
    <3>1. CASE s = new
      BY <2>1, <2>3, <2>4, <3>1
    <3>2. CASE s # new
      <4>1. s \in verifying \cup session /\ s \in Sockets
        BY <2>2, <2>5, <3>2 DEF TypeOK
      <4>2. s[2] <= used[s[1]] /\ s[1] \in Windows /\ s[2] \in Nat
        BY <4>1, SocketFields DEF SocketsKnown
      <4> QED
        BY <2>1, <2>4, <4>2
    <3> QED
      BY <3>1, <3>2
  <2> QED
    BY <2>2, <2>5 DEF SocketsKnown
<1>2. ASSUME UNCHANGED used, verifying' \cup session' \subseteq verifying \cup session,
             session' = DOMAIN activity'
      PROVE  SocketsKnown'
  BY <1>2 DEF SocketsKnown
<1>3. ASSUME NEW s \in Sockets, Verified(s) PROVE SocketsKnown'
  <2>1. /\ UNCHANGED used /\ verifying' = verifying \ {s} /\ session' = session \cup {s}
        /\ DOMAIN activity' = DOMAIN activity \cup {s} /\ s \in verifying
    BY <1>3 DEF Verified
  <2> QED
    BY <1>2, <2>1 DEF SocketsKnown
<1>4. ASSUME NEW s \in Sockets, Disconnect(s) PROVE SocketsKnown'
  <2>1. /\ UNCHANGED <<used, verifying>> /\ session' = session \ {s}
        /\ DOMAIN activity' = DOMAIN activity \ {s}
    BY <1>4 DEF Disconnect, Forget
  <2> QED
    BY <1>2, <2>1 DEF SocketsKnown
<1>5. ASSUME NEW s \in Sockets, HandleActive(s) PROVE SocketsKnown'
  <2>1. UNCHANGED <<used, verifying, session>> /\ DOMAIN activity' = DOMAIN activity
    BY <1>5 DEF HandleActive
  <2> QED
    BY <1>2, <2>1 DEF SocketsKnown
<1>6. ASSUME Restart PROVE SocketsKnown'
  <2>1. verifying' = {} /\ session' = {} /\ DOMAIN activity' = {} /\ UNCHANGED used
    BY <1>6 DEF Restart
  <2> QED
    BY <1>2, <2>1
<1>7. ASSUME NEW s \in Sockets, Refused(s) PROVE SocketsKnown'
  <2>1. UNCHANGED <<used, session, activity>> /\ verifying' \subseteq verifying
    BY <1>7 DEF Refused
  <2> QED
    BY <1>2, <2>1 DEF SocketsKnown
<1>8. ASSUME UNCHANGED <<used, verifying, session, activity>> PROVE SocketsKnown'
  BY <1>8 DEF SocketsKnown
<1> QED
  BY <1>1, <1>3, <1>4, <1>5, <1>6, <1>7, <1>8
  DEF Next, SignIn, Reconnect, Break, Lost, Logout, Receive, SetActive, Prune, vars

\* Nothing is sent on a socket before it is registered.
LEMMA NothingEarlyStep ==
  ASSUME TypeOK, WindowsSound, SocketsKnown, NothingEarly, [Next]_vars
  PROVE  NothingEarly'
<1> USE DEF clientVars, serverVars, wireVars
<1> SUFFICES ASSUME NEW x \in Sockets, x \in verifying' \/ x[2] > used'[x[1]]
             PROVE  down'[x] = <<>>
  BY DEF NothingEarly
<1>1. x[1] \in Windows /\ x[2] \in Nat /\ used[x[1]] \in Nat
  BY SocketFields DEF TypeOK
<1>2. ASSUME NEW w \in Windows, Connect(w) PROVE down'[x] = <<>>
  <2>1. /\ used' = [used EXCEPT ![w] = used[w] + 1] /\ UNCHANGED down
        /\ verifying' = verifying \cup {<<w, used[w] + 1>>} /\ used[w] \in Nat
    BY <1>2 DEF Connect, TypeOK
  <2>2. CASE x = <<w, used[w] + 1>>
    <3>1. x[1] = w /\ x[2] = used[w] + 1
      BY <2>2
    <3> QED
      BY <2>1, <3>1 DEF NothingEarly
  <2>3. CASE x # <<w, used[w] + 1>> /\ x \in verifying'
    BY <2>1, <2>3 DEF NothingEarly
  <2>4. CASE x[2] > used'[x[1]]
    <3>1. x[2] > used[x[1]]
      BY <1>1, <2>1, <2>4 DEF TypeOK
    <3> QED
      BY <2>1, <3>1 DEF NothingEarly
  <2> QED
    BY <1>1, <2>2, <2>3, <2>4
<1>3. ASSUME UNCHANGED used, verifying' \subseteq verifying, down'[x] \in {down[x], <<>>}
      PROVE  down'[x] = <<>>
  BY <1>3 DEF NothingEarly
<1>4. ASSUME x \in verifying \/ x[2] > used[x[1]] PROVE x \notin registry
  <2>1. ASSUME x \in session PROVE x[2] <= used[x[1]] /\ x \notin verifying
    BY <2>1 DEF SocketsKnown, TypeOK
  <2> QED
    BY <1>1, <1>4, <2>1 DEF TypeOK
<1>5. ASSUME NEW s \in Sockets, Verified(s) PROVE down'[x] = <<>>
  <2>1. UNCHANGED used /\ verifying' = verifying \ {s} /\ s \in verifying
    BY <1>5 DEF Verified
  <2>2. x # s
    <3>1. s[2] <= used[s[1]]
      BY <2>1 DEF SocketsKnown
    <3> QED
      BY <1>1, <2>1, <3>1
  <2>3. x \notin registry
    BY <1>4, <2>1
  <2>4. down'[x] = down[x]
    BY <1>5, <2>2, <2>3, VerifiedSends
  <2> QED
    BY <1>3, <2>1, <2>4
<1>6. ASSUME NEW s \in Sockets, Refused(s) PROVE down'[x] = <<>>
  <2>1. /\ UNCHANGED used /\ verifying' = verifying \ {s} /\ s \in verifying
        /\ down' = down \/ down' = [down EXCEPT ![s] = Append(@, AuthError)]
    BY <1>6 DEF Refused
  <2>2. x # s
    <3>1. s[2] <= used[s[1]]
      BY <2>1 DEF SocketsKnown
    <3> QED
      BY <1>1, <2>1, <3>1
  <2>3. down'[x] = down[x]
    BY <2>1, <2>2 DEF TypeOK
  <2> QED
    BY <1>3, <2>1, <2>3
<1>7. ASSUME NEW s \in Sockets, Disconnect(s) PROVE down'[x] = <<>>
  <2>1. UNCHANGED <<used, verifying>>
    BY <1>7 DEF Disconnect, Forget
  <2>2. down'[x] = down[x]
    BY <1>4, <1>7, <2>1, DisconnectSends
  <2> QED
    BY <1>3, <2>1, <2>2
<1>8. ASSUME NEW w \in Windows, Lost(w) \/ Logout(w) PROVE down'[x] = <<>>
  <2>1. UNCHANGED <<used, verifying>> /\ down' = [down EXCEPT ![Current(w)] = <<>>]
    BY <1>8 DEF Lost, Logout
  <2>2. down'[x] \in {down[x], <<>>}
    BY <2>1 DEF TypeOK
  <2> QED
    BY <1>3, <2>1, <2>2
<1>9. ASSUME NEW w \in Windows, Receive(w) PROVE down'[x] = <<>>
  <2>1. /\ UNCHANGED <<used, verifying>> /\ down[Current(w)] # <<>>
        /\ \/ down' = [down EXCEPT ![Current(w)] = <<>>]
           \/ down' = [down EXCEPT ![Current(w)] = Tail(@)]
    BY <1>9 DEF Receive
  <2>2. down[x] = <<>>
    BY <2>1 DEF NothingEarly
  <2>3. down'[x] \in {down[x], <<>>}
    BY <2>1, <2>2 DEF TypeOK
  <2> QED
    BY <1>3, <2>1, <2>3
<1>10. ASSUME UNCHANGED <<used, down>>, verifying' \subseteq verifying PROVE down'[x] = <<>>
  BY <1>3, <1>10
<1> QED
  BY <1>2, <1>5, <1>6, <1>7, <1>8, <1>9, <1>10
  DEF Next, SignIn, Reconnect, Break, HandleActive, SetActive, Prune, Restart, vars

\* Nothing is shown before the first socket is registered.
LEMMA NobodyEarlyStep ==
  ASSUME TypeOK, WindowsSound, SocketsKnown, NothingEarly, NobodyEarly, [Next]_vars
  PROVE  NobodyEarly'
<1> USE DEF clientVars, serverVars, wireVars
<1> DEFINE Early(w) == used[w] = 0 \/ (used[w] = 1 /\ Current(w) \in verifying)
<1>1. \A w \in Windows : Early(w) => shown[w] = {}
  BY DEF NobodyEarly
<1>2. ASSUME UNCHANGED <<used, shown>>, verifying' \subseteq verifying PROVE NobodyEarly'
  BY <1>2 DEF NobodyEarly, Current
<1>3. ASSUME NEW w \in Windows, Connect(w) PROVE NobodyEarly'
  <2>1. /\ used' = [used EXCEPT ![w] = used[w] + 1] /\ UNCHANGED shown /\ used[w] \in Nat
        /\ verifying' = verifying \cup {<<w, used[w] + 1>>}
    BY <1>3 DEF Connect, TypeOK
  <2>2. ASSUME NEW x \in Windows, Early(x)' PROVE shown'[x] = {}
    <3>1. CASE x = w
      <4>1. used[w] = 0
        BY <2>1, <2>2, <3>1 DEF TypeOK
      <4> QED
        BY <1>1, <2>1, <3>1, <4>1
    <3>2. CASE x # w
      <4>1. used'[x] = used[x]
        BY <2>1, <3>2 DEF TypeOK
      <4>2. Current(x)' = <<x, used[x]>> /\ <<x, used[x]>> # <<w, used[w] + 1>>
        BY <3>2, <4>1 DEF Current
      <4>3. Early(x)
        BY <2>1, <2>2, <4>1, <4>2 DEF Current
      <4> QED
        BY <1>1, <2>1, <4>3
    <3> QED
      BY <3>1, <3>2
  <2> QED
    BY <2>2 DEF NobodyEarly
<1>4. ASSUME NEW w \in Windows, Receive(w) PROVE NobodyEarly'
  <2>1. /\ UNCHANGED <<used, verifying>> /\ down[Current(w)] # <<>> /\ phase[w] = "open"
        /\ \A x \in Windows : x # w => shown'[x] = shown[x]
    BY <1>4 DEF Receive, TypeOK
  <2>2. ~Early(w)
    <3>1. used[w] > 0 /\ Current(w) \in Sockets /\ used[w] \in Nat
      BY <2>1, CurrentIsSocket DEF WindowsSound, TypeOK
    <3> QED
      BY <2>1, <3>1 DEF NothingEarly
  <2>3. \A x \in Windows : Early(x)' <=> Early(x)
    BY <2>1 DEF Current
  <2> QED
    BY <1>1, <2>1, <2>2, <2>3 DEF NobodyEarly
<1> QED
  BY <1>2, <1>3, <1>4
  DEF Next, SignIn, Reconnect, Verified, Refused, Break, Disconnect, Forget, HandleActive,
      Lost, Logout, SetActive, Prune, Restart, vars

\* A socket that closes while it is known is on record as closed early, or forgotten.
LEMMA ClosedStep ==
  ASSUME TypeOK, SocketsKnown, ClosedKnown, [Next]_vars
  PROVE  ClosedKnown'
<1> USE DEF clientVars, serverVars, wireVars
<1>1. ASSUME UNCHANGED closedEarly, verifying' \cup session' \subseteq verifying \cup session,
             \/ link' = link
             \/ \E s \in Sockets : link' = [link EXCEPT ![s] = "closing"]
      PROVE  ClosedKnown'
  BY <1>1 DEF ClosedKnown, TypeOK
<1>2. ASSUME NEW s \in Sockets, Verified(s) \/ Refused(s) \/ Break(s) \/ HandleActive(s)
      PROVE  ClosedKnown'
  BY <1>1, <1>2 DEF Verified, Refused, Break, HandleActive
<1>3. ASSUME NEW s \in Sockets, Disconnect(s) PROVE ClosedKnown'
  <2>1. /\ link' = [link EXCEPT ![s] = "closed"] /\ verifying' = verifying
        /\ closedEarly' = closedEarly \cup ({s} \cap verifying) /\ session' = session \ {s}
    BY <1>3 DEF Disconnect, Forget
  <2> QED
    BY <2>1 DEF ClosedKnown, TypeOK
<1>4. ASSUME NEW w \in Windows, Connect(w) PROVE ClosedKnown'
  <2> DEFINE n == <<w, used[w] + 1>>
  <2>1. /\ link' = [link EXCEPT ![n] = "open"] /\ verifying' = verifying \cup {n}
        /\ UNCHANGED <<session, closedEarly>>
    BY <1>4 DEF Connect
  <2>2. n \in Sockets
    BY <1>4, NextSocket
  <2> HIDE DEF n
  <2> QED
    BY <2>1, <2>2 DEF ClosedKnown, TypeOK
<1>5. ASSUME Restart PROVE ClosedKnown'
  BY <1>5 DEF Restart, ClosedKnown
<1>6. ASSUME UNCHANGED <<link, verifying, session, closedEarly>> PROVE ClosedKnown'
  BY <1>1, <1>6
<1>7. ASSUME \/ \E w \in Windows : Lost(w) \/ Logout(w) \/ Receive(w)
             \/ \E w \in Windows, c \in Conversations \cup {None} : SetActive(w, c)
             \/ \E u \in Users : Prune(u)
             \/ UNCHANGED vars
      PROVE  ClosedKnown'
  BY <1>6, <1>7 DEF Lost, Logout, Receive, SetActive, Prune, vars
<1> QED
  BY <1>2, <1>3, <1>4, <1>5, <1>7 DEF Next, SignIn, Reconnect

-----------------------------------------------------------------------------
(* Who is shown, and who is online *)

\* The two properties, for one window.
Told(w) ==
  /\ Online(registry) \ {UserOf[w]} \subseteq WillShow(w)
  /\ used[w] = 1 => WillShow(w) \subseteq Online(DOMAIN activity)

\* Both properties together, window by window.
LEMMA ToldIsBoth ==
  ASSUME SocketsKnown, ClosedKnown
  PROVE  (NobodyMissing /\ NobodyLingers) <=> \A w \in Windows : Attached(w) => Told(w)
<1>1. \A u : u \in Online(DOMAIN activity) <=> Present(u)
  BY DEF Online, Present, SocketsKnown, ClosedKnown
<1> QED
  BY <1>1 DEF NobodyMissing, NobodyLingers, Told

\* Whoever is attached is online, and known.
LEMMA AttachedIsKnown ==
  ASSUME TypeOK, WindowsSound, SocketsKnown, NEW w \in Windows, Attached(w)
  PROVE  /\ Current(w) \in Sockets /\ Current(w) \in DOMAIN activity /\ Current(w) \notin verifying
         /\ Current(w)[1] = w /\ User(Current(w)) = UserOf[w] /\ Heard(Current(w))
         /\ shown[w] \in SUBSET Users /\ down[Current(w)] \in Seq(Event)
<1>1. used[w] > 0
  BY DEF Attached, WindowsSound
<1>2. /\ Current(w) \in Sockets /\ Current(w)[1] = w /\ Current(w)[2] = used[w]
      /\ User(Current(w)) = UserOf[w]
  BY <1>1, CurrentIsSocket
<1> QED
  BY <1>2 DEF Attached, TypeOK, SocketsKnown, Heard

\* A step that touches nothing the window is shown, and registers nobody.
LEMMA ToldKept ==
  ASSUME NEW w \in Windows, Attached(w) => Told(w), Attached(w)',
         UNCHANGED <<used, shown>>, phase[w] = "open", Open(Current(w)),
         down'[Current(w)] = down[Current(w)], registry' \subseteq registry,
         DOMAIN activity \subseteq DOMAIN activity'
  PROVE  Told(w)'
<1>1. Current(w)' = Current(w)
  BY DEF Current
<1>2. Attached(w)
  BY <1>1 DEF Attached
<1>3. WillShow(w)' = WillShow(w)
  BY <1>1 DEF WillShow, ShownAfter
<1> QED
  BY <1>2, <1>3 DEF Told, Online

\* A token is verified.
LEMMA VerifiedTold ==
  ASSUME ConnInv, TypeOK', NEW s \in Sockets, Verified(s), NEW w \in Windows, Attached(w)'
  PROVE  Told(w)'
<1> USE DEF clientVars, serverVars, wireVars
<1> DEFINE u == User(s)
           others == Online(registry) \ {u}
           c == Current(w)
<1>1. /\ TypeOK /\ WindowsSound /\ SocketsKnown /\ NobodyEarly /\ NothingEarly
      /\ Attached(w) => Told(w)
  BY ToldIsBoth DEF ConnInv
<1>2. /\ s \in verifying /\ UNCHANGED <<phase, used, shown, link>>
      /\ DOMAIN activity' = DOMAIN activity \cup {s}
  BY DEF Verified
<1>3. c' = c /\ phase[w] = "open" /\ Open(c) /\ c \in registry'
  BY <1>2 DEF Attached, Current, Open
<1>4. /\ registry' \subseteq registry \cup {s} /\ others \in SUBSET Users
      /\ down'[s] = IF Open(s) /\ Heard(s) THEN Append(down[s], InitialUsers(others)) ELSE down[s]
      /\ \A x \in registry' : x # s =>
           down'[x] = IF User(x) # u /\ Heard(x) THEN Append(down[x], CameOnline(u)) ELSE down[x]
  BY <1>1, VerifiedSends
<1>5. u \in Users /\ used[w] > 0
  BY <1>1, <1>3, SocketFields DEF WindowsSound
<1>6. c \in Sockets /\ User(c) = UserOf[w] /\ Heard(c) /\ c[1] = w
  BY <1>1, <1>3, <1>5, CurrentIsSocket DEF Heard
<1>7. /\ shown[w] \in SUBSET Users /\ down[c] \in Seq(Event)
      /\ CameOnline(u) \in Event /\ InitialUsers(others) \in Event
  <2>1. CameOnline(u) \in Event /\ InitialUsers(others) \in Event
    BY <1>4, <1>5, EventsOf
  <2> QED
    BY <1>1, <1>6, <2>1 DEF TypeOK
<1> HIDE DEF u, others, c
<1>8. /\ WillShow(w)' = ShownAfter(shown[w], down'[c])
      /\ WillShow(w) = ShownAfter(shown[w], down[c])
  BY <1>2, <1>3 DEF WillShow, c, ShownAfter
<1>9. /\ Online(registry)' \subseteq Online(registry) \cup {u}
      /\ Online(DOMAIN activity)' = Online(DOMAIN activity) \cup {u}
  BY <1>2, <1>4 DEF Online, u
<1>10. Online(registry) \subseteq Online(DOMAIN activity)
  BY <1>1 DEF Online, TypeOK, SocketsKnown
<1>11. CASE c = s
  <2>1. down'[c] = Append(down[c], InitialUsers(others)) /\ UserOf[w] = u
    BY <1>3, <1>4, <1>6, <1>11 DEF u
  <2>2. WillShow(w)' = Shows(WillShow(w), InitialUsers(others))
    BY <1>7, <1>8, <2>1, ShownAppend
  <2>3. WillShow(w)' = WillShow(w) \cup others
    BY <1>4, <1>5, <2>2, EventsOf
  <2>4. used[w] = 1 => WillShow(w) = {}
    <3>1. used[w] = 1 => shown[w] = {}
      BY <1>1, <1>2, <1>11 DEF NobodyEarly, c
    <3>2. down[c] = <<>>
      BY <1>1, <1>2, <1>6, <1>11 DEF NothingEarly
    <3>3. ShownAfter({}, <<>>) = {}
      BY DEF ShownAfter
    <3> QED
      BY <1>8, <3>1, <3>2, <3>3
  <2> QED
    BY <1>2, <1>9, <1>10, <2>1, <2>3, <2>4 DEF Told, others
<1>12. CASE c # s
  <2>1. Attached(w)
    BY <1>3, <1>4, <1>12 DEF Attached, c
  <2>2. Told(w)
    BY <1>1, <2>1
  <2>3. CASE UserOf[w] = u
    <3>1. down'[c] = down[c]
      BY <1>3, <1>4, <1>6, <1>12, <2>3
    <3>2. WillShow(w)' = WillShow(w)
      BY <1>8, <3>1
    <3> QED
      BY <1>2, <1>9, <2>2, <2>3, <3>2 DEF Told
  <2>4. CASE UserOf[w] # u
    <3>1. down'[c] = Append(down[c], CameOnline(u))
      BY <1>3, <1>4, <1>6, <1>12, <2>4
    <3>2. WillShow(w)' = Shows(WillShow(w), CameOnline(u))
      BY <1>7, <1>8, <3>1, ShownAppend
    <3>3. WillShow(w)' = WillShow(w) \cup {u}
      BY <1>4, <1>5, <3>2, EventsOf
    <3> QED
      BY <1>2, <1>9, <2>2, <3>3 DEF Told
  <2> QED
    BY <2>3, <2>4
<1> QED
  BY <1>11, <1>12

\* A socket is forgotten.
LEMMA DisconnectTold ==
  ASSUME ConnInv, NEW s \in Sockets, Disconnect(s), NEW w \in Windows, Attached(w)'
  PROVE  Told(w)'
<1> USE DEF clientVars, serverVars, wireVars
<1> DEFINE u == User(s)
           c == Current(w)
<1>1. /\ TypeOK /\ WindowsSound /\ SocketsKnown
      /\ Attached(w) => Told(w)
  BY ToldIsBoth DEF ConnInv
<1>2. /\ UNCHANGED <<phase, used, shown>> /\ link' = [link EXCEPT ![s] = "closed"]
      /\ DOMAIN activity' = DOMAIN activity \ {s} /\ session = DOMAIN activity
  BY <1>1 DEF Disconnect, Forget, SocketsKnown
<1>3. /\ registry' \subseteq registry \ {s}
      /\ \/ UNCHANGED down /\ (s \in session => u \in Online(registry \ {s}))
         \/ /\ u \notin Online(registry \ {s})
            /\ \A x \in registry' :
                 down'[x] = IF User(x) # u /\ Heard(x)
                            THEN Append(down[x], WentOffline(u)) ELSE down[x]
  BY <1>1, DisconnectSends
<1>4. c' = c /\ phase[w] = "open" /\ c \in registry' /\ c # s /\ Open(c)
  <2>1. c' = c /\ phase[w] = "open" /\ c \in registry' /\ link'[c] = "open"
    BY <1>2 DEF Attached, Current, Open
  <2>2. c # s
    BY <1>3, <2>1
  <2> QED
    BY <1>1, <1>2, <2>1, <2>2 DEF Open, TypeOK
<1>5. Attached(w) /\ Told(w)
  BY <1>1, <1>3, <1>4 DEF Attached
<1>6. /\ c \in Sockets /\ User(c) = UserOf[w] /\ Heard(c) /\ c \in DOMAIN activity
      /\ shown[w] \in SUBSET Users /\ down[c] \in Seq(Event)
  BY <1>1, <1>5, AttachedIsKnown
<1>7. u \in Users /\ WentOffline(u) \in Event
  <2>1. u \in Users
    BY SocketFields
  <2> QED
    BY <2>1, EventsOf
<1> HIDE DEF c
<1>8. /\ WillShow(w)' = ShownAfter(shown[w], down'[c])
      /\ WillShow(w) = ShownAfter(shown[w], down[c])
  BY <1>2, <1>4 DEF WillShow, c, ShownAfter
<1>9. /\ Online(registry)' \subseteq Online(registry)
      /\ Online(registry)' \subseteq Online(registry \ {s})
  BY <1>3 DEF Online
<1>10. Online(DOMAIN activity) \subseteq Online(DOMAIN activity)' \cup {u}
  BY <1>2 DEF Online
<1>11. UserOf[w] \in Online(DOMAIN activity)'
  BY <1>2, <1>4, <1>6 DEF Online
<1>12. CASE UNCHANGED down /\ (s \in session => u \in Online(registry \ {s}))
  <2>1. WillShow(w)' = WillShow(w)
    BY <1>8, <1>12
  <2>2. Online(DOMAIN activity) \subseteq Online(DOMAIN activity)'
    <3>1. CASE s \in session
      <4>1. PICK x \in registry \ {s} : User(x) = u
        BY <1>12, <3>1 DEF Online
      <4>2. x \in DOMAIN activity'
        BY <1>1, <1>2, <4>1 DEF TypeOK
      <4> QED
        BY <1>10, <4>1, <4>2 DEF Online
    <3>2. CASE s \notin session
      BY <1>2, <3>2 DEF Online
    <3> QED
      BY <3>1, <3>2
  <2> QED
    BY <1>2, <1>5, <1>9, <2>1, <2>2 DEF Told
<1>13. CASE /\ u \notin Online(registry \ {s})
            /\ \A x \in registry' :
                 down'[x] = IF User(x) # u /\ Heard(x)
                            THEN Append(down[x], WentOffline(u)) ELSE down[x]
  <2>1. u # UserOf[w]
    BY <1>3, <1>4, <1>6, <1>13 DEF Online
  <2>2. down'[c] = Append(down[c], WentOffline(u))
    BY <1>4, <1>6, <1>13, <2>1
  <2>3. WillShow(w)' = Shows(WillShow(w), WentOffline(u))
    BY <1>6, <1>7, <1>8, <2>2, ShownAppend
  <2>4. WillShow(w)' = WillShow(w) \ {u}
    BY <1>7, <2>3, EventsOf
  <2> HIDE DEF u
  <2> QED
    BY <1>2, <1>5, <1>9, <1>10, <1>13, <2>4 DEF Told
<1> QED
  BY <1>3, <1>12, <1>13

\* An event arrives.
LEMMA ReceiveTold ==
  ASSUME ConnInv, NEW x \in Windows, Receive(x), NEW w \in Windows, Attached(w)'
  PROVE  Told(w)'
<1> USE DEF clientVars, serverVars, wireVars
<1> DEFINE c == Current(x)
<1>1. /\ TypeOK /\ WindowsSound /\ SocketsKnown
      /\ Attached(w) => Told(w)
  BY ToldIsBoth DEF ConnInv
<1>2. /\ phase[x] = "open" /\ down[c] # <<>>
      /\ UNCHANGED <<used, hungUp, link, serverVars, up, restarts>>
  BY DEF Receive
<1>3. c \in Sockets /\ c[1] = x /\ down[c] \in Seq(Event) /\ shown[x] \in SUBSET Users
  BY <1>1, <1>2, CurrentIsSocket DEF WindowsSound, TypeOK
<1>4. CASE w = x
  <2>1. /\ shown' = [shown EXCEPT ![x] = Shows(@, Head(down[c]))]
        /\ down' = [down EXCEPT ![c] = Tail(@)]
        /\ UNCHANGED phase
    <3>1. phase'[w] = "open"
      BY DEF Attached
    <3>2. ~(phase' = [phase EXCEPT ![x] = "idle"])
      BY <1>1, <1>4, <3>1 DEF TypeOK
    <3> QED
      BY <3>2 DEF Receive
  <2>2. shown'[w] = Shows(shown[w], Head(down[c])) /\ down'[c] = Tail(down[c])
    BY <1>1, <1>3, <1>4, <2>1 DEF TypeOK
  <2>3. Attached(w)
    BY <1>2, <2>1 DEF Attached, Open, Current
  <2>4. WillShow(w)' = ShownAfter(shown'[w], down'[c]) /\ WillShow(w) = ShownAfter(shown[w], down[c])
    BY <1>2, <1>4 DEF WillShow, Current, ShownAfter
  <2> HIDE DEF c
  <2>5. WillShow(w)' = WillShow(w)
    BY <1>2, <1>3, <1>4, <2>2, <2>4, ShownTail
  <2> QED
    BY <1>1, <1>2, <2>3, <2>5 DEF Told, Online
<1>5. CASE w # x
  <2>1. /\ \/ UNCHANGED phase
           \/ phase' = [phase EXCEPT ![x] = "idle"]
        /\ \E f : shown' = [shown EXCEPT ![x] = f]
        /\ \E f : down' = [down EXCEPT ![c] = f]
    BY DEF Receive
  <2>2. phase'[w] = phase[w] /\ shown'[w] = shown[w]
    BY <1>1, <1>5, <2>1 DEF TypeOK
  <2>3. Current(w) # c
    BY <1>5 DEF Current
  <2>4. Attached(w)
    BY <1>2, <2>2 DEF Attached, Open, Current
  <2>5. Current(w) \in Sockets
    BY <1>1, <2>4, AttachedIsKnown
  <2>6. down'[Current(w)] = down[Current(w)]
    BY <1>1, <2>1, <2>3, <2>5 DEF TypeOK
  <2>7. WillShow(w)' = WillShow(w)
    BY <1>2, <2>2, <2>6 DEF WillShow, Current, ShownAfter
  <2> QED
    BY <1>1, <1>2, <2>4, <2>7 DEF Told, Online
<1> QED
  BY <1>4, <1>5

\* Any other step.
LEMMA OtherTold ==
  ASSUME ConnInv, NEW w \in Windows, Attached(w)',
         \/ \E s \in Sockets : Refused(s) \/ Break(s) \/ HandleActive(s)
         \/ \E x \in Windows : Connect(x) \/ Lost(x) \/ Logout(x)
         \/ \E x \in Windows, c \in Conversations \cup {None} : SetActive(x, c)
         \/ \E u \in Users : Prune(u)
         \/ Restart \/ UNCHANGED vars
  PROVE  Told(w)'
<1> USE DEF clientVars, serverVars, wireVars
<1>1. /\ TypeOK /\ WindowsSound /\ SocketsKnown
      /\ Attached(w) => Told(w)
  BY ToldIsBoth DEF ConnInv
<1>2. phase'[w] = "open" /\ link'[Current(w)'] = "open" /\ Current(w)' \in registry'
  BY DEF Attached, Open
<1>3. ASSUME NEW s \in Sockets, Refused(s) PROVE Told(w)'
  <2>1. /\ s \in verifying /\ UNCHANGED <<phase, used, shown, registry, activity>>
        /\ down' = down \/ down' = [down EXCEPT ![s] = Append(@, AuthError)]
        /\ link' = link \/ link' = [link EXCEPT ![s] = "closing"]
    BY <1>3 DEF Refused
  <2>2. Current(w)' = Current(w) /\ Current(w) \in registry
    BY <1>2, <2>1 DEF Current
  <2>3. Current(w) # s /\ Current(w) \in Sockets
    BY <1>1, <2>1, <2>2 DEF TypeOK
  <2>4. link[Current(w)] = "open" /\ down'[Current(w)] = down[Current(w)]
    BY <1>1, <1>2, <2>1, <2>2, <2>3 DEF TypeOK
  <2> QED
    BY <1>1, <1>2, <2>1, <2>4, ToldKept DEF Open
<1>4. ASSUME NEW s \in Sockets, Break(s) \/ HandleActive(s) PROVE Told(w)'
  <2>1. /\ UNCHANGED <<phase, used, shown, down, registry>>
        /\ link' = link \/ link' = [link EXCEPT ![s] = "closing"]
        /\ DOMAIN activity' = DOMAIN activity
    BY <1>4 DEF Break, HandleActive
  <2>2. Current(w)' = Current(w) /\ Current(w) \in Sockets
    BY <1>1, <1>2, <2>1 DEF Current, TypeOK
  <2>3. link[Current(w)] = "open"
    BY <1>1, <1>2, <2>1, <2>2 DEF TypeOK
  <2> QED
    BY <1>1, <1>2, <2>1, <2>3, ToldKept DEF Open
<1>5. ASSUME NEW x \in Windows, Connect(x) PROVE Told(w)'
  <2>1. /\ phase' = [phase EXCEPT ![x] = "open"] /\ used' = [used EXCEPT ![x] = used[x] + 1]
        /\ link' = [link EXCEPT ![<<x, used[x] + 1>>] = "open"]
        /\ UNCHANGED <<shown, session, registry, activity, down>>
    BY <1>5 DEF Connect
  <2>2. w # x
    <3>1. <<x, used[x] + 1>> \notin registry
      BY <1>1, <1>5, NextSocket DEF TypeOK
    <3> QED
      BY <1>1, <1>2, <2>1, <3>1 DEF Current, TypeOK
  <2>3. used'[w] = used[w] /\ phase[w] = "open" /\ Current(w)' = Current(w)
    BY <1>1, <1>2, <2>1, <2>2 DEF Current, TypeOK
  <2>4. Current(w) # <<x, used[x] + 1>> /\ Current(w) \in Sockets
    BY <1>1, <1>2, <2>1, <2>2, <2>3 DEF Current, TypeOK
  <2>5. link[Current(w)] = "open"
    BY <1>1, <1>2, <2>1, <2>3, <2>4 DEF TypeOK
  <2>6. Attached(w)
    BY <1>2, <2>1, <2>3, <2>5 DEF Attached, Open
  <2>7. WillShow(w)' = WillShow(w)
    BY <2>1, <2>3 DEF WillShow, ShownAfter
  <2> QED
    BY <1>1, <2>1, <2>3, <2>6, <2>7 DEF Told, Online
<1>6. ASSUME NEW x \in Windows, Lost(x) \/ Logout(x) PROVE Told(w)'
  <2>1. /\ phase[x] \in {"open", "waiting"}
        /\ \/ phase' = [phase EXCEPT ![x] = "waiting"]
           \/ phase' = [phase EXCEPT ![x] = "idle"]
        /\ down' = [down EXCEPT ![Current(x)] = <<>>]
        /\ UNCHANGED <<used, shown, link, registry, activity>>
    BY <1>6 DEF Lost, Logout
  <2>2. w # x /\ phase[w] = "open"
    BY <1>1, <1>2, <2>1 DEF TypeOK
  <2>3. Current(w)' = Current(w) /\ Current(w) # Current(x) /\ Current(w) \in Sockets
    BY <1>1, <1>2, <2>1, <2>2 DEF Current, TypeOK
  <2>4. down'[Current(w)] = down[Current(w)]
    BY <1>1, <2>1, <2>3 DEF TypeOK
  <2> QED
    BY <1>1, <1>2, <2>1, <2>2, <2>3, <2>4, ToldKept DEF Open
<1>7. ASSUME \/ \E x \in Windows, c \in Conversations \cup {None} : SetActive(x, c)
             \/ \E u \in Users : Prune(u)
             \/ UNCHANGED vars
      PROVE  Told(w)'
  <2>1. UNCHANGED <<phase, used, shown, link, down, activity>> /\ registry' \subseteq registry
    BY <1>7 DEF SetActive, Prune, vars
  <2> QED
    BY <1>1, <1>2, <2>1, ToldKept DEF Open, Current
<1>8. ASSUME Restart PROVE Told(w)'
  BY <1>2, <1>8 DEF Restart
<1> QED
  BY <1>3, <1>4, <1>5, <1>6, <1>7, <1>8

-----------------------------------------------------------------------------
(* Theorems about connections *)

\* The initial states satisfy the invariant.
LEMMA InitConn == Init => ConnInv
<1> SUFFICES ASSUME Init PROVE ConnInv
  OBVIOUS
<1>1. TypeOK
  BY InitTypes
<1>2. WindowsSound /\ SocketsKnown /\ NothingEarly /\ NobodyEarly
  BY BoundsAssumption DEF Init, WindowsSound, SocketsKnown, NothingEarly, NobodyEarly
<1>3. \A w \in Windows : ~Attached(w)
  BY DEF Init, Attached
<1> QED
  BY <1>1, <1>2, <1>3 DEF ConnInv, ClosedKnown, Init, NobodyMissing, NobodyLingers

\* The invariant of the connections is inductive.
THEOREM ConnectionsInvariance == Spec => []ConnInv
<1>1. ASSUME ConnInv, [Next]_vars PROVE ConnInv'
  <2>1. TypeOK' /\ WindowsSound' /\ SocketsKnown' /\ NothingEarly' /\ NobodyEarly'
    BY <1>1, TypeStep, WindowsStep, KnownStep, NothingEarlyStep, NobodyEarlyStep DEF ConnInv
  <2>0. ClosedKnown'
    BY <1>1, ClosedStep DEF ConnInv
  <2>2. ASSUME NEW w \in Windows, Attached(w)' PROVE Told(w)'
    BY <1>1, <2>1, <2>2, VerifiedTold, DisconnectTold, ReceiveTold, OtherTold
    DEF Next, SignIn, Reconnect
  <2>3. \A u : u \in Online(DOMAIN activity)' <=> Present(u)'
    BY <2>0, <2>1 DEF Online, Present, SocketsKnown, ClosedKnown
  <2>4. NobodyMissing' /\ NobodyLingers'
    BY <2>2, <2>3 DEF NobodyMissing, NobodyLingers, Told, Online
  <2> QED
    BY <2>0, <2>1, <2>4 DEF ConnInv
<1> QED
  BY InitConn, <1>1, PTL DEF Spec

\* The variables of the connections keep their types.
THEOREM ConnectionTypes == Spec => []TypeOK
<1>1. ConnInv => TypeOK
  BY DEF ConnInv
<1> QED
  BY <1>1, ConnectionsInvariance, PTL

\* Whatever sockets come, break and go, in however many windows: whoever has a registered
\* connection is shown, or about to be shown, to every other user who is connected.
THEOREM EverybodyIsShown == Spec => []NobodyMissing
<1>1. ConnInv => NobodyMissing
  BY DEF ConnInv
<1> QED
  BY <1>1, ConnectionsInvariance, PTL

\* A window on its first connection shows, once events arrive, only users who have a
\* connection the server has not seen closed, or one that closed while its token was
\* verified and was registered afterwards.
THEOREM NobodyIsLeftBehind == Spec => []NobodyLingers
<1>1. ConnInv => NobodyLingers
  BY DEF ConnInv
<1> QED
  BY <1>1, ConnectionsInvariance, PTL

-----------------------------------------------------------------------------
(* The inductive invariant of ClientSession *)

\* Keys, there or on their way, are those of the user or of somebody overtaken.
KeysSound(w) ==
  /\ deriving[w] \subseteq {user[w]} \cup overtaken[w]
  /\ keys[w] # None =>
       \E u \in Users : keys[w] = DecryptedData(u) /\ u \in {user[w]} \cup overtaken[w]

\* The window that signed in last has the user of the token, as long as it has one.
SignerSound(w) ==
  signer = w /\ user[w] # None /\ token # NoToken => owner[token] = user[w]

\* A window that nothing was mixed up in, and that is not being sent away, has asked
\* for the list of its user, and has that or none.
ListSound(w) ==
  /\ page[w] = "chat" => user[w] # None
  /\ w \notin mixed \cup leaving =>
       /\ list[w] \in {user[w], None}
       /\ req[w] \notin {None, NoToken} => owner[req[w]] = user[w]
       /\ user[w] = None => req[w] = None

SessionInv == SessionTypeOK /\ \A w \in Windows : KeysSound(w) /\ SignerSound(w) /\ ListSound(w)

-----------------------------------------------------------------------------
(* Lemmas on sessions *)

\* Signing in with the right password gives the private key of the account.
LEMMA KeyOfPassword ==
  ASSUME NEW u PROVE DecryptedData(u).rsaPrivateKey = PrivateKey(u)
BY DEF DecryptedData, CryptoData, Wrap, Unwrap

\* The tokens issued so far keep their owner when one more is issued.
LEMMA OwnersKept ==
  ASSUME owner \in Seq(Users), NEW u \in Users, owner' = Append(owner, u)
  PROVE  /\ owner' \in Seq(Users)
         /\ Len(owner') = Len(owner) + 1 /\ Len(owner) \in Nat
         /\ owner'[Len(owner')] = u
         /\ \A t \in 1..Len(owner) : owner'[t] = owner[t]
         /\ DOMAIN owner = 1..Len(owner) /\ DOMAIN owner' = 1..Len(owner')
OBVIOUS

\* The initial states satisfy the invariant.
LEMMA InitSession == SessionInit => SessionInv
<1> SUFFICES ASSUME SessionInit PROVE SessionInv
  OBVIOUS
<1>1. SessionTypeOK
  BY DEF SessionInit, SessionTypeOK, UsersOrNone, Tokens, NoToken
<1>2. ASSUME NEW w \in Windows PROVE KeysSound(w) /\ SignerSound(w) /\ ListSound(w)
  BY DEF SessionInit, KeysSound, SignerSound, ListSound
<1> QED
  BY <1>1, <1>2 DEF SessionInv

\* Every step keeps the types.
LEMMA SessionTypeStep ==
  ASSUME SessionTypeOK, [SessionNext]_sessionVars PROVE SessionTypeOK'
<1> USE DEF SessionTypeOK, UsersOrNone, Set
<1>1. ASSUME NEW w \in Windows, NEW u \in Users, Ask(w, u) PROVE SessionTypeOK'
  BY <1>1 DEF Ask, tokenVars, queryVars, Tokens
<1>2. ASSUME NEW w \in Windows, Accepted(w) PROVE SessionTypeOK'
  <2> DEFINE u == asking[w]
  <2>1. u \in Users /\ owner' = Append(owner, u)
    BY <1>2 DEF Accepted, StoreToken
  <2>2. /\ owner' \in Seq(Users) /\ Len(owner') = Len(owner) + 1 /\ Len(owner) \in Nat
        /\ DOMAIN owner = 1..Len(owner) /\ DOMAIN owner' = 1..Len(owner')
    BY <2>1, OwnersKept
  <2>3. token' \in 0..Len(owner') /\ expired' \subseteq Tokens'
    BY <1>2, <2>2 DEF Accepted, StoreToken, Tokens
  <2>4. req' \in [Windows -> {None} \cup (0..Len(owner'))]
    BY <1>2, <2>2 DEF Accepted, StoreToken
  <2>5. /\ deriving' \in [Windows -> SUBSET Users] /\ overtaken' \in [Windows -> SUBSET Users]
        /\ user' \in [Windows -> Users \cup {None}] /\ mixed' \subseteq Windows
        /\ asking' \in [Windows -> Users \cup {None}]
    BY <1>2, <2>1 DEF Accepted, StoreToken
  <2>6. /\ dial' \in [Windows -> {None} \cup (0..Len(owner'))]
        /\ stray' \in [Windows -> SUBSET (0..Len(owner'))]
    BY <1>2, <2>2 DEF Accepted, StoreToken
  <2> QED
    BY <1>2, <2>2, <2>3, <2>4, <2>5, <2>6 DEF Accepted, StoreToken
<1>3. ASSUME NEW w \in Windows, Denied(w) PROVE SessionTypeOK'
  BY <1>3 DEF Denied, tokenVars, queryVars, Tokens
<1>4. ASSUME NEW w \in Windows, Fetches(w),
             owner' = owner, page' \in [Windows -> {"auth", "chat"}]
      PROVE  /\ req' \in [Windows -> {None} \cup (0..Len(owner))]
             /\ mixed' \subseteq Windows
  BY <1>4 DEF Fetches
<1>5. ASSUME NEW w \in Windows, NEW u \in Users, Derived(w, u) PROVE SessionTypeOK'
  <2>1. page' \in [Windows -> {"auth", "chat"}]
    BY <1>5 DEF Derived, Opens
  <2>2. keys' \in [Windows -> {DecryptedData(v) : v \in Users} \cup {None}]
    BY <1>5 DEF Derived
  <2> QED
    BY <1>4, <1>5, <2>1, <2>2 DEF Derived, tokenVars, Tokens
<1>6. ASSUME NEW w \in Windows, ClearAuthSession(w)
      PROVE  /\ token' \in 0..Len(owner') /\ owner' \in Seq(Users) /\ expired' \subseteq Tokens'
             /\ user' \in [Windows -> Users \cup {None}]
             /\ keys' \in [Windows -> {DecryptedData(v) : v \in Users} \cup {None}]
             /\ page' \in [Windows -> {"auth", "chat"}]
             /\ overtaken' \in [Windows -> SUBSET Users]
             /\ dial' \in [Windows -> {None} \cup (0..Len(owner'))]
             /\ UNCHANGED <<owner, signer, asking, deriving>>
  BY <1>6 DEF ClearAuthSession, Tokens, NoToken
<1>7. ASSUME NEW w \in Windows, SignOut(w) PROVE SessionTypeOK'
  BY <1>6, <1>7 DEF SignOut
<1>8. ASSUME NEW w \in Windows, Reload(w) PROVE SessionTypeOK'
  BY <1>8 DEF Reload, tokenVars, Tokens
<1>9. ASSUME NEW w \in Windows, Listed(w) PROVE SessionTypeOK'
  <2>1. owner[req[w]] \in Users
    BY <1>9 DEF Listed, Valid, Tokens
  <2> QED
    BY <1>9, <2>1 DEF Listed, tokenVars, authVars, Tokens
<1>10. ASSUME NEW w \in Windows, Unauthorized(w) PROVE SessionTypeOK'
  BY <1>6, <1>10 DEF Unauthorized
<1>11. ASSUME NEW w \in Windows, ListFails(w) PROVE SessionTypeOK'
  BY <1>11 DEF ListFails, tokenVars, authVars, Tokens
<1>12. ASSUME NEW w \in Windows, Stale(w) PROVE SessionTypeOK'
  BY <1>12 DEF Stale, tokenVars, authVars, Tokens
<1>13. ASSUME NEW w \in Windows, Focus(w) PROVE SessionTypeOK'
  BY <1>4, <1>13 DEF Focus, tokenVars, authVars, Tokens
<1>14. ASSUME NEW w \in Windows, Collect(w) PROVE SessionTypeOK'
  BY <1>14 DEF Collect, tokenVars, authVars, Tokens
<1>15. ASSUME NEW t \in Tokens, Expire(t) PROVE SessionTypeOK'
  BY <1>15 DEF Expire, authVars, queryVars, Tokens
<1>16. ASSUME NEW w \in Windows, Dial(w) PROVE SessionTypeOK'
  BY <1>16 DEF Dial, tokenVars, queryVars, Tokens
<1>17. ASSUME NEW w \in Windows, NEW t \in Tokens, Answered(w, t) PROVE SessionTypeOK'
  BY <1>17 DEF Answered, tokenVars, queryVars, Tokens
<1>18. ASSUME NEW w \in Windows, NEW t \in Tokens, TurnedAway(w, t) PROVE SessionTypeOK'
  BY <1>6, <1>18 DEF TurnedAway, queryVars
<1>19. ASSUME UNCHANGED sessionVars PROVE SessionTypeOK'
  BY <1>19
  DEF sessionVars, tokenVars, authVars, queryVars, Tokens
<1> QED
  BY <1>1, <1>2, <1>3, <1>5, <1>7, <1>8, <1>9, <1>10, <1>11, <1>12, <1>13, <1>14,
     <1>15, <1>16, <1>17, <1>18, <1>19 DEF SessionNext, Window

\* The keys in a window stay those of its user or of somebody overtaken.
LEMMA KeysStep ==
  ASSUME SessionInv, [SessionNext]_sessionVars, NEW w \in Windows
  PROVE  KeysSound(w)'
<1> USE DEF SessionInv, SessionTypeOK, UsersOrNone, KeysSound, Set
<1>1. ASSUME NEW v \in Windows, NEW u \in Users, Ask(v, u) PROVE KeysSound(w)'
  BY <1>1 DEF Ask
<1>2. ASSUME NEW v \in Windows, Accepted(v) PROVE KeysSound(w)'
  <2>1. CASE v = w
    <3> DEFINE u == asking[w]
    <3>1. /\ user'[w] = u /\ keys'[w] = keys[w] /\ u \in Users
          /\ deriving'[w] = deriving[w] \cup {u}
      BY <1>2, <2>1 DEF Accepted, StoreToken
    <3>2. overtaken'[w] = overtaken[w] \cup (deriving[w] \ {u})
                            \cup (IF keys[w] = None THEN {} ELSE {user[w]} \ {u, None})
      BY <1>2, <2>1 DEF Accepted, StoreToken
    <3>3. deriving'[w] \subseteq {user'[w]} \cup overtaken'[w]
      BY <3>1, <3>2
    <3>4. ASSUME keys[w] # None,
                 NEW x \in Users, keys[w] = DecryptedData(x), x \in {user[w]} \cup overtaken[w]
          PROVE  x \in {user'[w]} \cup overtaken'[w]
      BY <3>1, <3>2, <3>4, NobodyAssumption
    <3> QED
      BY <3>1, <3>3, <3>4
  <2>2. CASE v # w
    BY <1>2, <2>2 DEF Accepted, StoreToken
  <2> QED
    BY <2>1, <2>2
<1>3. ASSUME NEW v \in Windows, Denied(v) PROVE KeysSound(w)'
  BY <1>3 DEF Denied
<1>4. ASSUME NEW v \in Windows, NEW u \in Users, Derived(v, u) PROVE KeysSound(w)'
  BY <1>4 DEF Derived
<1>5. ASSUME NEW v \in Windows, ClearAuthSession(v) PROVE KeysSound(w)'
  BY <1>5 DEF ClearAuthSession
<1>6. ASSUME NEW v \in Windows, Reload(v) PROVE KeysSound(w)'
  BY <1>6 DEF Reload
<1>7. ASSUME UNCHANGED <<user, keys, deriving, overtaken>> PROVE KeysSound(w)'
  BY <1>7
<1> QED
  BY <1>1, <1>2, <1>3, <1>4, <1>5, <1>6, <1>7
  DEF SessionNext, Window, SignOut, Unauthorized, Listed,
      ListFails, Stale, Focus, Collect, Dial, Answered, TurnedAway, Expire,
      sessionVars, authVars

\* The token stays that of the user of the window that signed in last.
LEMMA SignerStep ==
  ASSUME SessionInv, [SessionNext]_sessionVars, NEW w \in Windows
  PROVE  SignerSound(w)'
<1> USE DEF SessionInv, SessionTypeOK, UsersOrNone, SignerSound, Set
<1>1. ASSUME NEW v \in Windows, Accepted(v) PROVE SignerSound(w)'
  <2>1. asking[v] \in Users /\ owner' = Append(owner, asking[v])
    BY <1>1 DEF Accepted, StoreToken
  <2>2. owner'[token'] = asking[v]
    BY <1>1, <2>1, OwnersKept DEF Accepted, StoreToken
  <2> QED
    BY <1>1, <2>2 DEF Accepted, StoreToken
<1>2. ASSUME NEW v \in Windows, ClearAuthSession(v) PROVE SignerSound(w)'
  BY <1>2 DEF ClearAuthSession
<1>3. ASSUME NEW v \in Windows, Reload(v) PROVE SignerSound(w)'
  BY <1>3 DEF Reload, tokenVars
<1>4. ASSUME UNCHANGED <<token, owner, signer, user>> PROVE SignerSound(w)'
  BY <1>4
<1> QED
  BY <1>1, <1>2, <1>3, <1>4
  DEF SessionNext, Window, Ask, Denied, Derived,
      SignOut, Unauthorized, Listed, ListFails, Stale,
      Focus, Collect, Dial, Answered, TurnedAway, Expire,
      sessionVars, tokenVars, authVars

\* A window in which one user did not follow another has the list of its user.
LEMMA ListStep ==
  ASSUME SessionInv, [SessionNext]_sessionVars, NEW w \in Windows
  PROVE  ListSound(w)'
<1> USE DEF SessionInv, SessionTypeOK, UsersOrNone, ListSound, Set, NoToken
<1>1. ASSUME NEW v \in Windows, NEW u \in Users, Ask(v, u) PROVE ListSound(w)'
  BY <1>1 DEF Ask, tokenVars, queryVars
<1>2. ASSUME NEW v \in Windows, Accepted(v) PROVE ListSound(w)'
  <2>1. asking[v] \in Users /\ owner' = Append(owner, asking[v])
    BY <1>2 DEF Accepted, StoreToken
  <2>2. \A t \in 1..Len(owner) : owner'[t] = owner[t]
    BY <2>1, OwnersKept
  <2>3. req[w] \notin {None, NoToken} => owner'[req[w]] = owner[req[w]]
    BY <2>2
  <2>4. CASE v = w
    BY <1>2, <2>1, <2>3, <2>4 DEF Accepted, StoreToken
  <2>5. CASE v # w
    BY <1>2, <2>3, <2>5 DEF Accepted, StoreToken
  <2> QED
    BY <2>4, <2>5
<1>3. ASSUME NEW v \in Windows, Denied(v) PROVE ListSound(w)'
  BY <1>3 DEF Denied, tokenVars, queryVars
<1>4. ASSUME NEW v \in Windows, Fetches(v), UNCHANGED <<owner, user, list, leaving>>,
             page'[w] = "chat" => user[w] # None
      PROVE  ListSound(w)'
  <2>1. CASE v = w /\ req'[w] # req[w]
    BY <1>4, <2>1 DEF Fetches
  <2>2. CASE ~(v = w /\ req'[w] # req[w])
    BY <1>4, <2>2 DEF Fetches
  <2> QED
    BY <2>1, <2>2
<1>5. ASSUME NEW v \in Windows, NEW u \in Users, Derived(v, u) PROVE ListSound(w)'
  <2>1. page'[w] = "chat" => user[w] # None
    BY <1>5 DEF Derived, Opens
  <2> QED
    BY <1>4, <1>5, <2>1 DEF Derived, tokenVars
<1>6. ASSUME NEW v \in Windows, SignOut(v) PROVE ListSound(w)'
  BY <1>6 DEF SignOut, ClearAuthSession
<1>7. ASSUME NEW v \in Windows, Reload(v) PROVE ListSound(w)'
  BY <1>7 DEF Reload, tokenVars
<1>8. ASSUME NEW v \in Windows, Listed(v) PROVE ListSound(w)'
  BY <1>8 DEF Listed, Valid, Tokens, tokenVars, authVars
<1>9. ASSUME NEW v \in Windows, Unauthorized(v) PROVE ListSound(w)'
  BY <1>9 DEF Unauthorized, ClearAuthSession
<1>10. ASSUME NEW v \in Windows, ListFails(v) PROVE ListSound(w)'
  BY <1>10 DEF ListFails, tokenVars, authVars
<1>11. ASSUME NEW v \in Windows, Stale(v) PROVE ListSound(w)'
  BY <1>11 DEF Stale, tokenVars, authVars
<1>12. ASSUME NEW v \in Windows, Focus(v) PROVE ListSound(w)'
  BY <1>4, <1>12 DEF Focus, tokenVars, authVars
<1>13. ASSUME NEW v \in Windows, Collect(v) PROVE ListSound(w)'
  BY <1>13 DEF Collect, tokenVars, authVars
<1>14. ASSUME NEW t \in Tokens, Expire(t) PROVE ListSound(w)'
  BY <1>14 DEF Expire, authVars, queryVars
<1>15. ASSUME NEW v \in Windows, Dial(v) PROVE ListSound(w)'
  BY <1>15 DEF Dial, tokenVars, queryVars
<1>16. ASSUME NEW v \in Windows, NEW t \in Tokens, Answered(v, t) PROVE ListSound(w)'
  BY <1>16 DEF Answered, tokenVars, queryVars
<1>17. ASSUME NEW v \in Windows, NEW t \in Tokens, TurnedAway(v, t) PROVE ListSound(w)'
  BY <1>17 DEF TurnedAway, ClearAuthSession, queryVars
<1>18. ASSUME UNCHANGED sessionVars PROVE ListSound(w)'
  BY <1>18 DEF sessionVars, tokenVars, authVars, queryVars
<1> QED
  BY <1>1, <1>2, <1>3, <1>5, <1>6, <1>7, <1>8, <1>9, <1>10, <1>11, <1>12, <1>13, <1>14, <1>15,
     <1>16, <1>17, <1>18
  DEF SessionNext, Window

-----------------------------------------------------------------------------
(* Theorems about sessions *)

\* The invariant is inductive.
THEOREM SessionInvariance == SessionSpec => []SessionInv
<1>1. SessionInv /\ [SessionNext]_sessionVars => SessionInv'
  BY SessionTypeStep, KeysStep, SignerStep, ListStep DEF SessionInv
<1> QED
  BY InitSession, <1>1, PTL DEF SessionSpec

\* The variables keep their types.
THEOREM SessionTypes == SessionSpec => []SessionTypeOK
<1>1. SessionInv => SessionTypeOK
  BY DEF SessionInv
<1> QED
  BY <1>1, SessionInvariance, PTL

\* Whatever derivations, sign-ins and sign-outs overtake each other, and in how many
\* windows: the keys in a window are those of its user, or of one that was overtaken.
THEOREM KeysOfUser == SessionSpec => []KeysAreOwn
<1>1. SessionInv => KeysAreOwn
  BY KeyOfPassword DEF SessionInv, KeysSound, KeysAreOwn
<1> QED
  BY <1>1, SessionInvariance, PTL

\* Only another window that signs in can make a window ask in the name of somebody else.
THEOREM RequestsOfUser == SessionSpec => []RequestsAreOwn
<1>1. SessionInv => RequestsAreOwn
  BY DEF SessionInv, SignerSound, RequestsAreOwn
<1> QED
  BY <1>1, SessionInvariance, PTL

\* The chat list is that of the user, unless another user was in the window or in another.
THEOREM ListOfUser == SessionSpec => []ListIsOwn
<1>1. SessionInv => ListIsOwn
  BY DEF SessionInv, ListSound, ListIsOwn
<1> QED
  BY <1>1, SessionInvariance, PTL

\* A valid token is given up by a sign-out, or by the refusal of another token, to a
\* request or to a socket.
THEOREM EndsForReason == SessionSpec => SessionEndsForReason
<1> DEFINE Goal == token # NoToken /\ token' = NoToken /\ token \notin expired =>
                     \E w \in Windows :
                       \/ SignOut(w)
                       \/ Unauthorized(w) /\ req[w] # token
                       \/ \E t \in Tokens \ {token} : TurnedAway(w, t)
<1>1. ASSUME SessionInv, [SessionNext]_sessionVars PROVE [Goal]_sessionVars
  <2> USE DEF NoToken
  <2>1. ASSUME NEW w \in Windows, Accepted(w) PROVE Goal
    <3>1. asking[w] \in Users /\ owner' = Append(owner, asking[w])
      BY <1>1, <2>1 DEF Accepted, StoreToken, SessionInv, SessionTypeOK, UsersOrNone
    <3>2. token' = Len(owner) + 1 /\ Len(owner) \in Nat
      BY <1>1, <2>1, <3>1, OwnersKept DEF Accepted, StoreToken, SessionInv, SessionTypeOK
    <3> QED
      BY <3>2
  <2>2. token # NoToken /\ token \notin expired => Valid(token)
    BY <1>1 DEF SessionInv, SessionTypeOK, Tokens, Valid
  <2>3. ASSUME NEW w \in Windows, Unauthorized(w) PROVE Goal
    BY <2>2, <2>3 DEF Unauthorized
  <2>4. ASSUME NEW w \in Windows, NEW t \in Tokens, TurnedAway(w, t) PROVE Goal
    BY <2>2, <2>4 DEF TurnedAway
  <2>5. ASSUME UNCHANGED token PROVE Goal
    BY <2>5
  <2>6. ASSUME NEW w \in Windows, SignOut(w) PROVE Goal
    BY <2>6
  <2> QED
    BY <1>1, <2>1, <2>3, <2>4, <2>5, <2>6
    DEF SessionNext, Window, Ask, Denied, Derived,
        Reload, Listed, ListFails, Stale, Focus,
        Collect, Dial, Answered, Expire, sessionVars, tokenVars
<1> QED
  BY <1>1, SessionInvariance, PTL DEF SessionSpec, SessionEndsForReason
=============================================================================
