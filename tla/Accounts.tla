------------------------------ MODULE Accounts ------------------------------
(***************************************************************************)
(* POST /auth/signup and POST /auth/login: AuthService over the user and   *)
(* profile tables of Postgres, and over the Bloom filter and the cache     *)
(* kept in Redis.                                                          *)
(*                                                                         *)
(* Requests interleave at every await.  A sign-up inserts the user, then   *)
(* the profile, without a transaction; it sends BF.ADD without waiting for *)
(* it, and then waits for the write of the cache.  A login asks the filter *)
(* first and believes a "no".  Nothing rebuilds the filter: rebuild,       *)
(* addMultiple, initialize and the invalidations of the cache have no      *)
(* caller.  Accounts are never changed or deleted.                         *)
(***************************************************************************)
EXTENDS Integers, FiniteSets

CONSTANTS
  Requests,   \* sign-ups and logins, each handled once
  SignUps,    \* the sign-ups among them
  Instances,  \* instances of the backend
  At,         \* the instance that handles each request
  Names,      \* normalized user names
  Typed,      \* what each request has in the name field: [name, form]
  Password,   \* the password each request gives
  None,       \* no row, no cache entry, no name
  MaxFaults,  \* bound: failed calls, and losses of the data in Redis
  MaxCrashes  \* bound: crashes of instances

\* A row of the user table: whose sign-up inserted it, and the hashed password.
Credentials == [by : SignUps, password : {Password[r] : r \in SignUps}]

\* The ways a name may be typed.
Forms == {"plain", "capitals", "padded", "spaced", "short"}

ASSUME RequestsAssumption ==
  /\ SignUps \subseteq Requests
  /\ At \in [Requests -> Instances]
  /\ Typed \in [Requests -> [name : Names, form : Forms]]
ASSUME NoneAssumption == None \notin Names \cup Credentials
ASSUME BoundsAssumption == MaxFaults \in Nat /\ MaxCrashes \in Nat

VARIABLES
  accounts,  \* the row of each name: [by, password], or None
  profiles,  \* names whose account has a profile
  filter,    \* names the Bloom filter holds
  cache,     \* user:username:<name> in Redis: the row when it was cached
  pc,        \* what each request waits for
  row,       \* the row each request has read or written
  adding,    \* sign-ups whose BF.ADD is on its way to Redis
  reply,     \* "none", "ok", "invalid", "taken", "refused", "error", "cut"
  faults, crashes,
  \* History:
  known,     \* logins of somebody whose sign-up had been answered, with its password
  lost,      \* names whose entry in the filter was lost
  blind      \* logins that passed the filter though it did not hold their name

vars == <<accounts, profiles, filter, cache, pc, row, adding, reply, faults,
          crashes, known, lost, blind>>
dbVars == <<accounts, profiles>>
history == <<known, lost, blind>>

PC == {"new", "insert", "profile", "cache", "filter", "lookup", "find", "fill",
       "confirm", "done"}
Replies == {"none", "ok", "invalid", "taken", "refused", "error", "cut"}

Init ==
  /\ accounts = [n \in Names |-> None] /\ profiles = {}
  /\ filter = {} /\ cache = [n \in Names |-> None]
  /\ pc = [r \in Requests |-> "new"] /\ row = [r \in Requests |-> None]
  /\ adding = {}
  /\ reply = [r \in Requests |-> "none"]
  /\ faults = 0 /\ crashes = 0
  /\ known = {} /\ lost = {} /\ blind = {}

\* normalize trims the ends, lowers the letters and collapses inner blanks; a name
\* that still has a blank or is too short is an error.
Normalize(t) == IF t.form \in {"plain", "capitals", "padded"} THEN t.name ELSE None

Name(r) == Normalize(Typed[r])

Goto(r, l) == pc' = [pc EXCEPT ![r] = l]
Answer(r, what) == Goto(r, "done") /\ reply' = [reply EXCEPT ![r] = what]
Fault == faults < MaxFaults /\ faults' = faults + 1
NoFault == UNCHANGED <<faults, crashes>>

\* A row that is of another password, or that is not there, is not the user's.
Matches(r, found) == found # None /\ found.password = Password[r]

-----------------------------------------------------------------------------
(* A request arrives *)

\* The user was told that the sign-up succeeded, and has not forgotten the password.
SignedUpBefore(r) ==
  \E q \in SignUps :
    /\ reply[q] = "ok"
    /\ Name(q) = Name(r)
    /\ Password[q] = Password[r]

\* The body is validated and the name normalized.  (A sign-up hashes the password.)
Ask(r) ==
  /\ pc[r] = "new"
  /\ IF Name(r) = None THEN Answer(r, "invalid")
     ELSE Goto(r, IF r \in SignUps THEN "insert" ELSE "filter") /\ UNCHANGED reply
  /\ known' = IF r \notin SignUps /\ SignedUpBefore(r) THEN known \cup {r} ELSE known
  /\ UNCHANGED <<dbVars, filter, cache, row, adding, faults, crashes, lost, blind>>

-----------------------------------------------------------------------------
(* signup *)

Row(r) == [by |-> r, password |-> Password[r]]

\* The unique index on the name admits one row.
Inserted(r) ==
  /\ accounts[Name(r)] = None
  /\ accounts' = [accounts EXCEPT ![Name(r)] = Row(r)]

\* Mutant: the index is not unique, and a second row hides the first.
InsertAgain(r) ==
  /\ pc[r] = "insert"
  /\ accounts' = [accounts EXCEPT ![Name(r)] = Row(r)]
  /\ row' = [row EXCEPT ![r] = Row(r)]
  /\ Goto(r, "profile")
  /\ UNCHANGED <<profiles, filter, cache, adding, reply, faults, crashes, history>>

Insert(r) ==
  /\ pc[r] = "insert"
  /\ Inserted(r)
  /\ row' = [row EXCEPT ![r] = Row(r)]
  /\ Goto(r, "profile")
  /\ UNCHANGED <<profiles, filter, cache, adding, reply, faults, crashes, history>>

\* SQLSTATE 23505 is the answer "name already exists".
InsertTaken(r) ==
  /\ pc[r] = "insert"
  /\ accounts[Name(r)] # None
  /\ Answer(r, "taken")
  /\ UNCHANGED <<dbVars, filter, cache, row, adding, faults, crashes, history>>

\* Mutant: the filter is filled before the profile is inserted.
InsertProfileLate(r) ==
  /\ pc[r] = "profile"
  /\ profiles' = profiles
  /\ adding' = adding \cup {r}
  /\ Goto(r, "cache")
  /\ UNCHANGED <<accounts, filter, cache, row, reply, faults, crashes, history>>

\* The profile is inserted, BF.ADD is sent and not awaited, and SETEX follows it on
\* the same connection.
InsertProfile(r) ==
  /\ pc[r] = "profile"
  /\ profiles' = profiles \cup {Name(r)}
  /\ adding' = adding \cup {r}
  /\ Goto(r, "cache")
  /\ UNCHANGED <<accounts, filter, cache, row, reply, faults, crashes, history>>

BloomAdd(r) ==
  /\ r \in adding
  /\ adding' = adding \ {r}
  /\ filter' = filter \cup {Name(r)}
  /\ UNCHANGED <<dbVars, cache, pc, row, reply, faults, crashes, history>>

\* Mutant: the cache is written on a connection of its own.
CacheUserAhead(r) ==
  /\ pc[r] = "cache"
  /\ cache' = [cache EXCEPT ![Name(r)] = row[r]]
  /\ Answer(r, "ok")
  /\ UNCHANGED <<dbVars, filter, row, adding, faults, crashes, history>>

\* Redis handles the commands of a connection in their order; the reply of SETEX
\* lets the sign-up be answered with a token.
CacheUser(r) ==
  /\ pc[r] = "cache"
  /\ r \notin adding
  /\ cache' = [cache EXCEPT ![Name(r)] = row[r]]
  /\ Answer(r, "ok")
  /\ UNCHANGED <<dbVars, filter, row, adding, faults, crashes, history>>

-----------------------------------------------------------------------------
(* login *)

\* BF.EXISTS: a "no" is final.
CheckBloom(r) ==
  /\ pc[r] = "filter"
  /\ IF Name(r) \in filter THEN Goto(r, "lookup") /\ UNCHANGED reply
     ELSE Answer(r, "refused")
  /\ UNCHANGED <<dbVars, filter, cache, row, adding, faults, crashes, history>>

\* A false positive, and a call that fails, let the login go on.
Unfiltered(r) ==
  /\ pc[r] = "filter"
  /\ Name(r) \notin filter
  /\ blind' = blind \cup {r}
  /\ Goto(r, "lookup")
  /\ UNCHANGED <<dbVars, filter, cache, row, adding, reply, known, lost>>

FalsePositive(r) == Unfiltered(r) /\ NoFault
CheckBloomFails(r) == Unfiltered(r) /\ Fault /\ UNCHANGED crashes

\* Mutant: a hit is believed without looking at the password.
ReadCacheTrusting(r) ==
  LET hit == cache[Name(r)] IN
  /\ pc[r] = "lookup"
  /\ row' = [row EXCEPT ![r] = hit]
  /\ IF hit = None THEN Goto(r, "find") /\ UNCHANGED reply
     ELSE Goto(r, "confirm") /\ UNCHANGED reply
  /\ UNCHANGED <<dbVars, filter, cache, adding, faults, crashes, history>>

\* GETEX: on a hit the password is verified with the cached hash, and the rest of
\* the row is read; a miss goes to the table.
ReadCache(r) ==
  LET hit == cache[Name(r)] IN
  /\ pc[r] = "lookup"
  /\ row' = [row EXCEPT ![r] = hit]
  /\ \/ hit = None /\ Goto(r, "find") /\ UNCHANGED reply
     \/ Matches(r, hit) /\ Goto(r, "confirm") /\ UNCHANGED reply
     \/ hit # None /\ ~Matches(r, hit) /\ Answer(r, "refused")
  /\ UNCHANGED <<dbVars, filter, cache, adding, faults, crashes, history>>

\* An error of the cache is a miss.
ReadCacheFails(r) ==
  /\ pc[r] = "lookup"
  /\ Fault
  /\ Goto(r, "find")
  /\ UNCHANGED <<dbVars, filter, cache, row, adding, reply, crashes, history>>

\* findByUsername after a miss; the password is verified with the row.
Find(r) ==
  LET found == accounts[Name(r)] IN
  /\ pc[r] = "find"
  /\ row' = [row EXCEPT ![r] = found]
  /\ IF Matches(r, found) THEN Goto(r, "fill") /\ UNCHANGED reply
     ELSE Answer(r, "refused")
  /\ UNCHANGED <<dbVars, filter, cache, adding, faults, crashes, history>>

\* The row goes into the cache, and the login is answered with a token.
FillCache(r) ==
  /\ pc[r] = "fill"
  /\ cache' = [cache EXCEPT ![Name(r)] = row[r]]
  /\ Answer(r, "ok")
  /\ UNCHANGED <<dbVars, filter, row, adding, faults, crashes, history>>

\* findByUsername after a hit, for the keys that are not cached.
Confirm(r) ==
  LET found == accounts[Name(r)] IN
  /\ pc[r] = "confirm"
  /\ row' = [row EXCEPT ![r] = found]
  /\ Answer(r, IF found = None THEN "refused" ELSE "ok")
  /\ UNCHANGED <<dbVars, filter, cache, adding, faults, crashes, history>>

-----------------------------------------------------------------------------
(* Failures *)

\* A query fails: the error is passed on.
QueryFails(r) ==
  /\ pc[r] \in {"insert", "profile", "find", "confirm"}
  /\ Fault
  /\ Answer(r, "error")
  /\ UNCHANGED <<dbVars, filter, cache, row, adding, crashes, history>>

\* An insert took effect, and its confirmation is lost.
InsertUnconfirmed(r) ==
  /\ pc[r] = "insert"
  /\ Inserted(r)
  /\ Fault
  /\ Answer(r, "error")
  /\ UNCHANGED <<profiles, filter, cache, row, adding, crashes, history>>

InsertProfileUnconfirmed(r) ==
  /\ pc[r] = "profile"
  /\ profiles' = profiles \cup {Name(r)}
  /\ Fault
  /\ Answer(r, "error")
  /\ UNCHANGED <<accounts, filter, cache, row, adding, crashes, history>>

\* An error of BF.ADD is logged; the sign-up does not hear of it.
BloomAddFails(r) ==
  /\ r \in adding
  /\ Fault
  /\ adding' = adding \ {r}
  /\ lost' = lost \cup {Name(r)}
  /\ UNCHANGED <<dbVars, filter, cache, pc, row, reply, crashes, known, blind>>

\* An error of SETEX is logged, and the request goes on.
CacheFails(r) ==
  /\ pc[r] \in {"cache", "fill"}
  /\ r \notin adding
  /\ Fault
  /\ Answer(r, "ok")
  /\ UNCHANGED <<dbVars, filter, cache, row, adding, crashes, history>>

\* Redis loses its data: it is restarted without a snapshot, or cleared.
Flush ==
  /\ filter # {}
  /\ Fault
  /\ filter' = {}
  /\ cache' = [n \in Names |-> None]
  /\ lost' = lost \cup filter
  /\ UNCHANGED <<dbVars, pc, row, adding, reply, crashes, known, blind>>

\* An hour has passed since the entry was written or read.
Expire(n) ==
  /\ cache[n] # None
  /\ cache' = [cache EXCEPT ![n] = None]
  /\ UNCHANGED <<dbVars, filter, pc, row, adding, reply, faults, crashes, history>>

\* An instance dies with the requests it handles, and what it has not sent.
Crash(i) ==
  LET cut == {r \in Requests : At[r] = i /\ pc[r] \notin {"new", "done"}} IN
  /\ crashes < MaxCrashes
  /\ cut # {}
  /\ crashes' = crashes + 1
  /\ pc' = [r \in Requests |-> IF r \in cut THEN "done" ELSE pc[r]]
  /\ reply' = [r \in Requests |-> IF r \in cut THEN "cut" ELSE reply[r]]
  /\ adding' = adding \ cut
  /\ UNCHANGED <<dbVars, filter, cache, row, faults, history>>

-----------------------------------------------------------------------------

SignUp(r) == r \in SignUps /\ (Insert(r) \/ InsertTaken(r) \/ InsertProfile(r) \/ CacheUser(r))
Login(r) ==
  \/ CheckBloom(r) \/ FalsePositive(r) \/ ReadCache(r)
  \/ Find(r) \/ FillCache(r) \/ Confirm(r)
Fail(r) ==
  \/ QueryFails(r) \/ InsertUnconfirmed(r) \/ InsertProfileUnconfirmed(r)
  \/ BloomAddFails(r) \/ CheckBloomFails(r) \/ ReadCacheFails(r) \/ CacheFails(r)

Next ==
  \/ \E r \in Requests : Ask(r) \/ SignUp(r) \/ BloomAdd(r) \/ Login(r) \/ Fail(r)
  \/ \E n \in Names : Expire(n)
  \/ \E i \in Instances : Crash(i)
  \/ Flush

Spec == Init /\ [][Next]_vars

-----------------------------------------------------------------------------
(* Properties *)

TypeOK ==
  /\ accounts \in [Names -> Credentials \cup {None}]
  /\ profiles \subseteq Names
  /\ filter \subseteq Names
  /\ cache \in [Names -> Credentials \cup {None}]
  /\ pc \in [Requests -> PC]
  /\ row \in [Requests -> Credentials \cup {None}]
  /\ adding \subseteq SignUps
  /\ reply \in [Requests -> Replies]
  /\ faults \in Nat /\ crashes \in Nat
  /\ known \subseteq Requests /\ lost \subseteq Names /\ blind \subseteq Requests

\* A user whose sign-up was answered with success is not turned away with the right
\* password afterwards, although BF.ADD is not awaited: only when Redis refused the
\* entry or lost its data.
KnownNotRefused ==
  \A r \in known : reply[r] = "refused" => Name(r) \in lost

\* Nobody is let in to an account that has no profile, although user and profile
\* are inserted one after the other: the filter, filled last, holds the login back,
\* unless its answer was wrong or missing.
AdmittedHasProfile ==
  \A r \in Requests : reply[r] = "ok" => Name(r) \in profiles \/ r \in blind

\* The filter never costs a user the login (violated: nothing fills it again).
NeverMissed == \A r \in known : reply[r] # "refused"

\* The requests implement the promise about accounts.
AccountOf(n) ==
  [name |-> n, password |-> accounts[n].password, owner |-> accounts[n].by]

AdmittedAs(r) ==
  [request |-> r, name |-> Name(r), password |-> Password[r], owner |-> row[r].by]

Promise == INSTANCE AccountStore
  WITH accounts <- {AccountOf(n) : n \in {m \in Names : accounts[m] # None}},
       admitted <- {AdmittedAs(r) : r \in {q \in Requests : reply[q] = "ok"}}

ImplementsAccountStore == Promise!Spec
=============================================================================
