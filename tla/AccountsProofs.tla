---------------------------- MODULE AccountsProofs ----------------------------
(***************************************************************************)
(* Proofs about Accounts, for any requests, names, passwords, instances,   *)
(* and numbers of failures and crashes.                                    *)
(***************************************************************************)
EXTENDS Accounts, TLAPS

-----------------------------------------------------------------------------
(* The inductive invariant *)

\* The name has an account with the password of the request.
Owns(r) ==
  /\ Name(r) \in Names
  /\ accounts[Name(r)] # None
  /\ accounts[Name(r)].password = Password[r]

\* A name the filter need not hold any more, and otherwise does.
Filtered(n) == n \in filter \/ n \in lost

\* What the cache holds is the row of the table: rows never change.
CacheTrue == \A n \in Names : cache[n] # None => cache[n] = accounts[n]

\* The filter holds names with a profile.
FilterSound == filter \subseteq profiles

\* Where a request stands, and that it has a valid name there.
PlaceSound(r) ==
  /\ pc[r] \notin {"new", "done"} => Name(r) \in Names
  /\ pc[r] \in {"insert", "profile", "cache"} => r \in SignUps
  /\ pc[r] \in {"filter", "lookup", "find", "fill", "confirm"} => r \notin SignUps
  /\ reply[r] # "none" => pc[r] = "done"

\* What a request has in hand.
RowSound(r) ==
  /\ row[r] # None => Name(r) \in Names /\ row[r] = accounts[Name(r)]
  /\ pc[r] \in {"profile", "cache", "fill", "confirm"} \/ reply[r] = "ok" =>
       row[r] # None /\ Owns(r)

\* Whoever has got past the filter has a profile, or got past it blindly.
ProfileSound(r) ==
  pc[r] \in {"cache", "lookup", "find", "fill", "confirm"} \/ reply[r] = "ok" =>
    Name(r) \in profiles \/ r \in blind

\* A sign-up that waits for the cache, or was answered, is in the filter or on its way.
AddSound(r) ==
  /\ r \in adding => pc[r] = "cache" /\ Name(r) \in profiles
  /\ pc[r] = "cache" => Name(r) \in profiles /\ (r \in adding \/ Filtered(Name(r)))
  /\ r \in SignUps /\ reply[r] = "ok" => Filtered(Name(r))

\* A login of somebody who was told of success has an account in the filter.
KnownSound(r) ==
  r \in known => Owns(r) /\ Filtered(Name(r)) /\ (reply[r] = "refused" => Name(r) \in lost)

Sound(r) == PlaceSound(r) /\ RowSound(r) /\ ProfileSound(r) /\ AddSound(r) /\ KnownSound(r)

IInv ==
  /\ TypeOK
  /\ CacheTrue
  /\ FilterSound
  /\ \A r \in Requests : Sound(r)

-----------------------------------------------------------------------------
(* Lemmas *)

\* A valid name is one of Names.
LEMMA NameValid ==
  ASSUME NEW r \in Requests
  PROVE  /\ Name(r) \in Names \cup {None}
         /\ Name(r) # None => Name(r) \in Names
<1>1. Typed[r].name \in Names
  BY RequestsAssumption
<1> QED
  BY <1>1 DEF Name, Normalize

\* The row of a sign-up.
LEMMA RowTyped ==
  ASSUME NEW r \in SignUps
  PROVE  /\ Row(r) \in Credentials
         /\ Row(r) # None
         /\ Row(r).by = r /\ Row(r).password = Password[r]
<1>1. r \in Requests
  BY RequestsAssumption
<1>2. Row(r) \in Credentials
  BY DEF Row, Credentials
<1> QED
  BY <1>2, NoneAssumption DEF Row

-----------------------------------------------------------------------------
(* Types *)

\* Every step keeps the types.
LEMMA TypeStep ==
  ASSUME IInv, [Next]_vars
  PROVE  TypeOK'
<1> USE DEF TypeOK, PC, Replies, Goto, Answer, dbVars, history
<1>1. ASSUME NEW r \in Requests, Ask(r) PROVE TypeOK'
  BY <1>1 DEF IInv, Ask
<1>2. ASSUME NEW r \in Requests, Insert(r) PROVE TypeOK'
  <2>1. r \in SignUps
    BY <1>2 DEF IInv, Sound, PlaceSound, Insert
  <2> QED
    BY <1>2, <2>1, RowTyped DEF IInv, Insert, Inserted
<1>3. ASSUME NEW r \in Requests, InsertTaken(r) PROVE TypeOK'
  BY <1>3 DEF IInv, InsertTaken
<1>4. ASSUME NEW r \in Requests, InsertProfile(r) PROVE TypeOK'
  BY <1>4 DEF IInv, InsertProfile, Sound, PlaceSound
<1>5. ASSUME NEW r \in Requests, CacheUser(r) PROVE TypeOK'
  BY <1>5 DEF IInv, CacheUser
<1>6. ASSUME NEW r \in Requests, BloomAdd(r) PROVE TypeOK'
  BY <1>6 DEF IInv, BloomAdd, Sound, AddSound
<1>7. ASSUME NEW r \in Requests, CheckBloom(r) PROVE TypeOK'
  BY <1>7 DEF IInv, CheckBloom
<1>8. ASSUME NEW r \in Requests, Unfiltered(r), UNCHANGED crashes, faults' \in Nat PROVE TypeOK'
  BY <1>8 DEF IInv, Unfiltered
<1>9. ASSUME NEW r \in Requests, ReadCache(r) PROVE TypeOK'
  <2>1. Name(r) \in Names
    BY <1>9 DEF IInv, Sound, PlaceSound, ReadCache
  <2> QED
    BY <1>9, <2>1 DEF IInv, ReadCache
<1>10. ASSUME NEW r \in Requests, Find(r) PROVE TypeOK'
  <2>1. Name(r) \in Names
    BY <1>10 DEF IInv, Sound, PlaceSound, Find
  <2> QED
    BY <1>10, <2>1 DEF IInv, Find
<1>11. ASSUME NEW r \in Requests, FillCache(r) PROVE TypeOK'
  BY <1>11 DEF IInv, FillCache
<1>12. ASSUME NEW r \in Requests, Confirm(r) PROVE TypeOK'
  <2>1. Name(r) \in Names
    BY <1>12 DEF IInv, Sound, PlaceSound, Confirm
  <2> QED
    BY <1>12, <2>1 DEF IInv, Confirm
<1>13. ASSUME NEW r \in Requests, Fail(r), ~CheckBloomFails(r) PROVE TypeOK'
  <2> USE DEF Fault
  <2>1. CASE QueryFails(r)
    BY <2>1 DEF IInv, QueryFails
  <2>2. CASE InsertUnconfirmed(r)
    <3>1. r \in SignUps
      BY <2>2 DEF IInv, Sound, PlaceSound, InsertUnconfirmed
    <3>2. Row(r) \in Credentials
      BY <3>1, RowTyped
    <3>3. accounts' \in [Names -> Credentials \cup {None}]
      BY <2>2, <3>2 DEF IInv, InsertUnconfirmed, Inserted
    <3> QED
      BY <2>2, <3>3 DEF IInv, InsertUnconfirmed
  <2>3. CASE InsertProfileUnconfirmed(r)
    BY <2>3 DEF IInv, InsertProfileUnconfirmed, Sound, PlaceSound
  <2>4. CASE BloomAddFails(r)
    BY <2>4 DEF IInv, BloomAddFails, Sound, AddSound
  <2>5. CASE ReadCacheFails(r)
    BY <2>5 DEF IInv, ReadCacheFails
  <2>6. CASE CacheFails(r)
    BY <2>6 DEF IInv, CacheFails
  <2> QED
    BY <1>13, <2>1, <2>2, <2>3, <2>4, <2>5, <2>6 DEF Fail
<1>14. ASSUME NEW n \in Names, Expire(n) PROVE TypeOK'
  BY <1>14 DEF IInv, Expire
<1>15. ASSUME NEW i \in Instances, Crash(i) PROVE TypeOK'
  BY <1>15 DEF IInv, Crash
<1>16. CASE Flush
  BY <1>16 DEF IInv, Flush, Fault
<1>17. CASE UNCHANGED vars
  BY <1>17 DEF IInv, vars
<1>18. ASSUME NEW r \in Requests, FalsePositive(r) \/ CheckBloomFails(r) PROVE TypeOK'
  BY <1>8, <1>18 DEF IInv, FalsePositive, CheckBloomFails, NoFault, Fault
<1> QED
  BY <1>1, <1>2, <1>3, <1>4, <1>5, <1>6, <1>7, <1>9, <1>10, <1>11, <1>12, <1>13, <1>14,
     <1>15, <1>16, <1>17, <1>18
  DEF Next, SignUp, Login

-----------------------------------------------------------------------------
(* The steps *)

\* The tables and the filter only grow; the filter may lose names, which are recorded.
Grows ==
  /\ \A n \in Names : accounts[n] # None => accounts'[n] = accounts[n]
  /\ profiles \subseteq profiles'
  /\ \A n \in Names : Filtered(n) => Filtered(n)'
  /\ lost \subseteq lost' /\ blind \subseteq blind'

\* A step that only adds to the tables and to the filter, and leaves another request
\* where it is, leaves what is said of it true.
LEMMA StaysSound ==
  ASSUME IInv, NEW q \in Requests,
         pc'[q] = pc[q], row'[q] = row[q], reply'[q] = reply[q],
         Grows,
         q \in known' => q \in known,
         q \in adding' <=> q \in adding
  PROVE  Sound(q)'
<1> USE DEF Grows
<1>1. Sound(q)
  BY DEF IInv
<1>2. Name(q)' = Name(q)
  OBVIOUS
<1>3. Owns(q) => Owns(q)'
  BY DEF Owns
<1>4. row[q] # None => accounts[Name(q)] # None
  BY <1>1 DEF Sound, RowSound
<1>5. PlaceSound(q)'
  BY <1>1 DEF Sound, PlaceSound
<1>6. RowSound(q)'
  BY <1>1, <1>3 DEF Sound, RowSound
<1>7. ProfileSound(q)'
  BY <1>1 DEF Sound, ProfileSound
<1>8. AddSound(q)'
  <2>1. pc[q] = "cache" \/ (q \in SignUps /\ reply[q] = "ok") => Name(q) \in Names
    BY <1>1 DEF Sound, RowSound
  <2> QED
    BY <1>1, <2>1 DEF Sound, AddSound
<1>9. KnownSound(q)'
  <2>1. q \in known => Name(q) \in Names
    BY <1>1 DEF Sound, KnownSound, Owns
  <2> QED
    BY <1>1, <1>3, <2>1 DEF Sound, KnownSound
<1> QED
  BY <1>5, <1>6, <1>7, <1>8, <1>9 DEF Sound

-----------------------------------------------------------------------------

\* Every step only adds, and keeps the cache and the filter true.
Keeps == Grows /\ CacheTrue' /\ FilterSound'

LEMMA GlobalStep ==
  ASSUME IInv, [Next]_vars
  PROVE  Keeps
<1> USE DEF Keeps, Grows, CacheTrue, FilterSound, Filtered, dbVars, history
<1>1. ASSUME NEW r \in Requests, Ask(r) PROVE Keeps
  BY <1>1 DEF IInv, Ask
<1>2. ASSUME NEW r \in Requests, Insert(r) PROVE Keeps
  BY <1>2 DEF IInv, Insert, Inserted
<1>3. ASSUME NEW r \in Requests, InsertTaken(r) PROVE Keeps
  BY <1>3 DEF IInv, InsertTaken
<1>4. ASSUME NEW r \in Requests, InsertProfile(r) PROVE Keeps
  BY <1>4 DEF IInv, InsertProfile
<1>5. ASSUME NEW r \in Requests, CacheUser(r) PROVE Keeps
  BY <1>5 DEF IInv, CacheUser, Sound, RowSound
<1>6. ASSUME NEW r \in Requests, BloomAdd(r) PROVE Keeps
  BY <1>6 DEF IInv, BloomAdd, Sound, AddSound
<1>7. ASSUME NEW r \in Requests, CheckBloom(r) PROVE Keeps
  BY <1>7 DEF IInv, CheckBloom
<1>8. ASSUME NEW r \in Requests, Unfiltered(r) PROVE Keeps
  BY <1>8 DEF IInv, Unfiltered
<1>9. ASSUME NEW r \in Requests, ReadCache(r) PROVE Keeps
  BY <1>9 DEF IInv, ReadCache
<1>10. ASSUME NEW r \in Requests, Find(r) PROVE Keeps
  BY <1>10 DEF IInv, Find
<1>11. ASSUME NEW r \in Requests, FillCache(r) PROVE Keeps
  BY <1>11 DEF IInv, FillCache, Sound, RowSound
<1>12. ASSUME NEW r \in Requests, Confirm(r) PROVE Keeps
  BY <1>12 DEF IInv, Confirm
<1>13. ASSUME NEW r \in Requests, QueryFails(r) PROVE Keeps
  BY <1>13 DEF IInv, QueryFails
<1>14. ASSUME NEW r \in Requests, InsertUnconfirmed(r) PROVE Keeps
  BY <1>14 DEF IInv, InsertUnconfirmed, Inserted
<1>15. ASSUME NEW r \in Requests, InsertProfileUnconfirmed(r) PROVE Keeps
  BY <1>15 DEF IInv, InsertProfileUnconfirmed
<1>16. ASSUME NEW r \in Requests, BloomAddFails(r) PROVE Keeps
  BY <1>16 DEF IInv, BloomAddFails
<1>17. ASSUME NEW r \in Requests, ReadCacheFails(r) PROVE Keeps
  BY <1>17 DEF IInv, ReadCacheFails
<1>18. ASSUME NEW r \in Requests, CacheFails(r) PROVE Keeps
  BY <1>18 DEF IInv, CacheFails
<1>19. ASSUME NEW k \in Names, Expire(k) PROVE Keeps
  BY <1>19 DEF IInv, Expire
<1>20. ASSUME NEW i \in Instances, Crash(i) PROVE Keeps
  BY <1>20 DEF IInv, Crash
<1>21. ASSUME Flush PROVE Keeps
  BY <1>21 DEF Flush
<1>22. ASSUME UNCHANGED vars PROVE Keeps
  BY <1>22 DEF IInv, vars
<1> QED
  BY <1>1, <1>2, <1>3, <1>4, <1>5, <1>6, <1>7, <1>8, <1>9, <1>10, <1>11, <1>12, <1>13,
     <1>14, <1>15, <1>16, <1>17, <1>18, <1>19, <1>20, <1>21, <1>22
  DEF Next, SignUp, Login, Fail, FalsePositive, CheckBloomFails
-----------------------------------------------------------------------------

\* Every step keeps what is said of each request.
LEMMA SoundStep ==
  ASSUME IInv, [Next]_vars
  PROVE  \A r \in Requests : Sound(r)'
<1> DEFINE Goal == \A q \in Requests : Sound(q)'
<1> USE DEF Goto, Answer, dbVars, history
<1>0. Grows
  BY GlobalStep DEF Keeps
<1>1. ASSUME NEW r \in Requests, Ask(r) PROVE Goal
  <2>1. ASSUME NEW q \in Requests, q # r PROVE Sound(q)'
    BY <1>0, <1>1, <2>1, StaysSound DEF IInv, TypeOK, Ask
  <2>2. Name(r)' = Name(r)
    OBVIOUS
  <2>3. Sound(r)
    BY DEF IInv
  <2>4. PlaceSound(r)'
    BY <1>1, NameValid DEF IInv, TypeOK, Ask, Sound, PlaceSound
  <2>5. RowSound(r)'
    BY <1>1 DEF IInv, TypeOK, Ask, Sound, RowSound, Owns
  <2>6. ProfileSound(r)'
    BY <1>1 DEF IInv, TypeOK, Ask, Sound, ProfileSound
  <2>7. AddSound(r)'
    BY <1>1 DEF IInv, TypeOK, Ask, Sound, AddSound, Filtered
  <2>8. KnownSound(r)'
    <3>1. reply'[r] # "refused"
      BY <1>1 DEF IInv, TypeOK, Ask, Sound, PlaceSound
    <3>2. ASSUME SignedUpBefore(r) PROVE Owns(r) /\ Filtered(Name(r))
      <4>1. PICK q \in SignUps : reply[q] = "ok" /\ Name(q) = Name(r) /\ Password[q] = Password[r]
        BY <3>2 DEF SignedUpBefore
      <4>2. q \in Requests /\ Sound(q)
        BY RequestsAssumption DEF IInv
      <4> QED
        BY <4>1, <4>2 DEF Sound, RowSound, AddSound, Owns
    <3>3. r \in known' => Owns(r) /\ Filtered(Name(r))
      BY <1>1, <2>3, <3>2 DEF Ask, Sound, KnownSound
    <3>4. UNCHANGED accounts
      BY <1>1 DEF Ask
    <3> QED
      BY <1>0, <3>1, <3>3 DEF KnownSound, Owns, Grows
  <2> QED
    BY <2>1, <2>4, <2>5, <2>6, <2>7, <2>8 DEF Sound
<1>2. ASSUME NEW r \in Requests, Insert(r) PROVE Goal
  <2>1. ASSUME NEW q \in Requests, q # r PROVE Sound(q)'
    BY <1>0, <1>2, <2>1, StaysSound DEF Insert
  <2>2. Name(r)' = Name(r)
    OBVIOUS
  <2>3. Sound(r)
    BY DEF IInv
  <2>4. PlaceSound(r)'
    BY <1>2 DEF IInv, Insert, Sound, PlaceSound
  <2>5. RowSound(r)'
    <3>1. r \in SignUps /\ Name(r) \in Names
      BY <1>2, <2>3 DEF Insert, Sound, PlaceSound
    <3> QED
      BY RowTyped, <1>2
      DEF IInv, TypeOK, Insert, Sound, RowSound, PlaceSound, Owns, Inserted
  <2>6. ProfileSound(r)'
    BY <1>2 DEF IInv, Insert, Sound, ProfileSound
  <2>7. AddSound(r)'
    BY <1>2 DEF IInv, Insert, Sound, AddSound, Filtered
  <2>8. KnownSound(r)'
    BY <1>2 DEF IInv, Insert, Sound, KnownSound, Owns, Inserted
  <2> QED
    BY <2>1, <2>4, <2>5, <2>6, <2>7, <2>8 DEF Sound
<1>3. ASSUME NEW r \in Requests, InsertTaken(r) PROVE Goal
  <2>1. ASSUME NEW q \in Requests, q # r PROVE Sound(q)'
    BY <1>0, <1>3, <2>1, StaysSound DEF InsertTaken
  <2>2. Name(r)' = Name(r)
    OBVIOUS
  <2>3. Sound(r)
    BY DEF IInv
  <2>4. PlaceSound(r)'
    BY <1>3 DEF IInv, TypeOK, InsertTaken, PlaceSound
  <2>5. RowSound(r)'
    BY <1>3 DEF IInv, InsertTaken, Sound, RowSound, Owns
  <2>6. ProfileSound(r)'
    BY <1>3 DEF IInv, InsertTaken, Sound, ProfileSound
  <2>7. AddSound(r)'
    BY <1>3 DEF IInv, InsertTaken, Sound, AddSound, Filtered
  <2>8. KnownSound(r)'
    BY <1>3 DEF IInv, InsertTaken, Sound, KnownSound, Owns, Filtered
  <2> QED
    BY <2>1, <2>4, <2>5, <2>6, <2>7, <2>8 DEF Sound
<1>4. ASSUME NEW r \in Requests, InsertProfile(r) PROVE Goal
  <2>1. ASSUME NEW q \in Requests, q # r PROVE Sound(q)'
    BY <1>0, <1>4, <2>1, StaysSound DEF InsertProfile
  <2>2. Name(r)' = Name(r)
    OBVIOUS
  <2>3. Sound(r)
    BY DEF IInv
  <2>4. PlaceSound(r)'
    BY <1>4 DEF IInv, InsertProfile, Sound, PlaceSound
  <2>5. RowSound(r)'
    BY <1>4 DEF IInv, InsertProfile, Sound, RowSound, Owns
  <2>6. ProfileSound(r)'
    BY <1>4 DEF InsertProfile, ProfileSound
  <2>7. AddSound(r)'
    BY <1>4 DEF IInv, TypeOK, InsertProfile, Sound, AddSound, Filtered
  <2>8. KnownSound(r)'
    BY <1>4 DEF IInv, InsertProfile, Sound, KnownSound, Owns, Filtered
  <2> QED
    BY <2>1, <2>4, <2>5, <2>6, <2>7, <2>8 DEF Sound
<1>5. ASSUME NEW r \in Requests, CacheUser(r) PROVE Goal
  <2>1. ASSUME NEW q \in Requests, q # r PROVE Sound(q)'
    BY <1>0, <1>5, <2>1, StaysSound DEF CacheUser
  <2>2. Name(r)' = Name(r)
    OBVIOUS
  <2>3. Sound(r)
    BY DEF IInv
  <2>4. PlaceSound(r)'
    BY <1>5 DEF IInv, TypeOK, CacheUser, PlaceSound
  <2>5. RowSound(r)'
    BY <1>5 DEF IInv, CacheUser, Sound, RowSound, Owns
  <2>6. ProfileSound(r)'
    BY <1>5 DEF IInv, CacheUser, Sound, ProfileSound
  <2>7. AddSound(r)'
    BY <1>5 DEF IInv, CacheUser, Sound, AddSound, Filtered
  <2>8. KnownSound(r)'
    BY <1>5 DEF IInv, CacheUser, Sound, KnownSound, Owns, Filtered
  <2> QED
    BY <2>1, <2>4, <2>5, <2>6, <2>7, <2>8 DEF Sound
<1>6. ASSUME NEW r \in Requests, BloomAdd(r) PROVE Goal
  <2>1. ASSUME NEW q \in Requests, q # r PROVE Sound(q)'
    BY <1>0, <1>6, <2>1, StaysSound DEF BloomAdd
  <2>2. Name(r)' = Name(r)
    OBVIOUS
  <2>3. Sound(r)
    BY DEF IInv
  <2>4. PlaceSound(r)'
    BY <1>6 DEF IInv, BloomAdd, Sound, PlaceSound
  <2>5. RowSound(r)'
    BY <1>6 DEF IInv, BloomAdd, Sound, RowSound, Owns
  <2>6. ProfileSound(r)'
    BY <1>6 DEF IInv, BloomAdd, Sound, ProfileSound
  <2>7. AddSound(r)'
    BY <1>6 DEF IInv, BloomAdd, Sound, AddSound, Filtered
  <2>8. KnownSound(r)'
    BY <1>6 DEF IInv, BloomAdd, Sound, KnownSound, Owns, Filtered
  <2> QED
    BY <2>1, <2>4, <2>5, <2>6, <2>7, <2>8 DEF Sound
<1>7. ASSUME NEW r \in Requests, CheckBloom(r) PROVE Goal
  <2>1. ASSUME NEW q \in Requests, q # r PROVE Sound(q)'
    BY <1>0, <1>7, <2>1, StaysSound DEF IInv, TypeOK, CheckBloom
  <2>2. Name(r)' = Name(r)
    OBVIOUS
  <2>3. Sound(r)
    BY DEF IInv
  <2>4. PlaceSound(r)'
    BY <1>7 DEF IInv, TypeOK, CheckBloom, Sound, PlaceSound
  <2>5. RowSound(r)'
    BY <1>7 DEF IInv, TypeOK, CheckBloom, Sound, RowSound, Owns
  <2>6. ProfileSound(r)'
    BY <1>7 DEF IInv, TypeOK, CheckBloom, ProfileSound, FilterSound
  <2>7. AddSound(r)'
    BY <1>7 DEF IInv, TypeOK, CheckBloom, Sound, AddSound, Filtered
  <2>8. KnownSound(r)'
    BY <1>7 DEF IInv, CheckBloom, Sound, KnownSound, Owns, Filtered
  <2> QED
    BY <2>1, <2>4, <2>5, <2>6, <2>7, <2>8 DEF Sound
<1>8. ASSUME NEW r \in Requests, Unfiltered(r) PROVE Goal
  <2>1. ASSUME NEW q \in Requests, q # r PROVE Sound(q)'
    BY <1>0, <1>8, <2>1, StaysSound DEF Unfiltered
  <2>2. Name(r)' = Name(r)
    OBVIOUS
  <2>3. Sound(r)
    BY DEF IInv
  <2>4. PlaceSound(r)'
    BY <1>8 DEF IInv, Unfiltered, Sound, PlaceSound
  <2>5. RowSound(r)'
    BY <1>8 DEF IInv, Unfiltered, Sound, RowSound, Owns
  <2>6. ProfileSound(r)'
    BY <1>8 DEF Unfiltered, ProfileSound
  <2>7. AddSound(r)'
    BY <1>8 DEF IInv, Unfiltered, Sound, AddSound, Filtered
  <2>8. KnownSound(r)'
    BY <1>8 DEF IInv, Unfiltered, Sound, KnownSound, Owns, Filtered
  <2> QED
    BY <2>1, <2>4, <2>5, <2>6, <2>7, <2>8 DEF Sound
<1>9. ASSUME NEW r \in Requests, ReadCache(r) PROVE Goal
  <2>1. ASSUME NEW q \in Requests, q # r PROVE Sound(q)'
    BY <1>0, <1>9, <2>1, StaysSound DEF IInv, TypeOK, ReadCache
  <2>2. Name(r)' = Name(r)
    OBVIOUS
  <2>3. Sound(r)
    BY DEF IInv
  <2>4. PlaceSound(r)'
    BY <1>9 DEF IInv, TypeOK, ReadCache, Sound, PlaceSound
  <2>5. RowSound(r)'
    BY <1>9
    DEF IInv, TypeOK, ReadCache, Sound, RowSound, PlaceSound, Owns, Matches, CacheTrue
  <2>6. ProfileSound(r)'
    BY <1>9 DEF IInv, ReadCache, Sound, ProfileSound
  <2>7. AddSound(r)'
    BY <1>9 DEF IInv, TypeOK, ReadCache, Sound, AddSound, Filtered
  <2>8. KnownSound(r)'
    BY <1>9 DEF IInv, ReadCache, Sound, KnownSound, Owns, Filtered, Matches, CacheTrue
  <2> QED
    BY <2>1, <2>4, <2>5, <2>6, <2>7, <2>8 DEF Sound
<1>10. ASSUME NEW r \in Requests, Find(r) PROVE Goal
  <2>1. ASSUME NEW q \in Requests, q # r PROVE Sound(q)'
    BY <1>0, <1>10, <2>1, StaysSound DEF IInv, TypeOK, Find
  <2>2. Name(r)' = Name(r)
    OBVIOUS
  <2>3. Sound(r)
    BY DEF IInv
  <2>4. PlaceSound(r)'
    BY <1>10 DEF IInv, TypeOK, Find, Sound, PlaceSound
  <2>5. RowSound(r)'
    BY <1>10 DEF IInv, TypeOK, Find, Sound, RowSound, PlaceSound, Owns, Matches
  <2>6. ProfileSound(r)'
    BY <1>10 DEF IInv, Find, Sound, ProfileSound
  <2>7. AddSound(r)'
    BY <1>10 DEF IInv, TypeOK, Find, Sound, AddSound, Filtered
  <2>8. KnownSound(r)'
    BY <1>10 DEF IInv, Find, Sound, KnownSound, Owns, Filtered, Matches
  <2> QED
    BY <2>1, <2>4, <2>5, <2>6, <2>7, <2>8 DEF Sound
<1>11. ASSUME NEW r \in Requests, FillCache(r) PROVE Goal
  <2>1. ASSUME NEW q \in Requests, q # r PROVE Sound(q)'
    BY <1>0, <1>11, <2>1, StaysSound DEF FillCache
  <2>2. Name(r)' = Name(r)
    OBVIOUS
  <2>3. Sound(r)
    BY DEF IInv
  <2>4. PlaceSound(r)'
    BY <1>11 DEF IInv, TypeOK, FillCache, PlaceSound
  <2>5. RowSound(r)'
    BY <1>11 DEF IInv, FillCache, Sound, RowSound, Owns
  <2>6. ProfileSound(r)'
    BY <1>11 DEF IInv, FillCache, Sound, ProfileSound
  <2>7. AddSound(r)'
    BY <1>11 DEF IInv, FillCache, Sound, AddSound, PlaceSound
  <2>8. KnownSound(r)'
    BY <1>11 DEF IInv, FillCache, Sound, KnownSound, Owns, Filtered
  <2> QED
    BY <2>1, <2>4, <2>5, <2>6, <2>7, <2>8 DEF Sound
<1>12. ASSUME NEW r \in Requests, Confirm(r) PROVE Goal
  <2>1. ASSUME NEW q \in Requests, q # r PROVE Sound(q)'
    BY <1>0, <1>12, <2>1, StaysSound DEF Confirm
  <2>2. Name(r)' = Name(r)
    OBVIOUS
  <2>3. Sound(r)
    BY DEF IInv
  <2>4. PlaceSound(r)'
    BY <1>12 DEF IInv, TypeOK, Confirm, PlaceSound
  <2>5. RowSound(r)'
    BY <1>12 DEF IInv, Confirm, Sound, RowSound, Owns
  <2>6. ProfileSound(r)'
    BY <1>12 DEF IInv, Confirm, Sound, ProfileSound
  <2>7. AddSound(r)'
    BY <1>12 DEF IInv, Confirm, Sound, AddSound, PlaceSound
  <2>8. KnownSound(r)'
    BY <1>12 DEF IInv, Confirm, Sound, KnownSound, Owns, Filtered
  <2> QED
    BY <2>1, <2>4, <2>5, <2>6, <2>7, <2>8 DEF Sound
<1>13. ASSUME NEW r \in Requests, QueryFails(r) PROVE Goal
  <2>1. ASSUME NEW q \in Requests, q # r PROVE Sound(q)'
    BY <1>0, <1>13, <2>1, StaysSound DEF QueryFails
  <2>2. Name(r)' = Name(r)
    OBVIOUS
  <2>3. Sound(r)
    BY DEF IInv
  <2>4. PlaceSound(r)'
    BY <1>13 DEF IInv, TypeOK, QueryFails, PlaceSound
  <2>5. RowSound(r)'
    BY <1>13 DEF IInv, QueryFails, Sound, RowSound, Owns
  <2>6. ProfileSound(r)'
    BY <1>13 DEF IInv, QueryFails, Sound, ProfileSound
  <2>7. AddSound(r)'
    BY <1>13 DEF IInv, QueryFails, Sound, AddSound, Filtered
  <2>8. KnownSound(r)'
    BY <1>13 DEF IInv, QueryFails, Sound, KnownSound, Owns, Filtered
  <2> QED
    BY <2>1, <2>4, <2>5, <2>6, <2>7, <2>8 DEF Sound
<1>14. ASSUME NEW r \in Requests, InsertUnconfirmed(r) PROVE Goal
  <2>1. ASSUME NEW q \in Requests, q # r PROVE Sound(q)'
    BY <1>0, <1>14, <2>1, StaysSound DEF InsertUnconfirmed
  <2>2. Name(r)' = Name(r)
    OBVIOUS
  <2>3. Sound(r)
    BY DEF IInv
  <2>4. PlaceSound(r)'
    BY <1>14 DEF IInv, TypeOK, InsertUnconfirmed, PlaceSound
  <2>5. RowSound(r)'
    BY <1>14 DEF IInv, InsertUnconfirmed, Sound, RowSound, Inserted
  <2>6. ProfileSound(r)'
    BY <1>14 DEF IInv, InsertUnconfirmed, Sound, ProfileSound
  <2>7. AddSound(r)'
    BY <1>14 DEF IInv, InsertUnconfirmed, Sound, AddSound, Filtered
  <2>8. KnownSound(r)'
    BY <1>14 DEF IInv, InsertUnconfirmed, Sound, KnownSound, Owns, Inserted
  <2> QED
    BY <2>1, <2>4, <2>5, <2>6, <2>7, <2>8 DEF Sound
<1>15. ASSUME NEW r \in Requests, InsertProfileUnconfirmed(r) PROVE Goal
  <2>1. ASSUME NEW q \in Requests, q # r PROVE Sound(q)'
    BY <1>0, <1>15, <2>1, StaysSound DEF InsertProfileUnconfirmed
  <2>2. Name(r)' = Name(r)
    OBVIOUS
  <2>3. Sound(r)
    BY DEF IInv
  <2>4. PlaceSound(r)'
    BY <1>15 DEF IInv, TypeOK, InsertProfileUnconfirmed, PlaceSound
  <2>5. RowSound(r)'
    BY <1>15 DEF IInv, InsertProfileUnconfirmed, Sound, RowSound, Owns
  <2>6. ProfileSound(r)'
    BY <1>15 DEF InsertProfileUnconfirmed, ProfileSound
  <2>7. AddSound(r)'
    BY <1>15 DEF IInv, InsertProfileUnconfirmed, Sound, AddSound, Filtered
  <2>8. KnownSound(r)'
    BY <1>15 DEF IInv, InsertProfileUnconfirmed, Sound, KnownSound, Owns, Filtered
  <2> QED
    BY <2>1, <2>4, <2>5, <2>6, <2>7, <2>8 DEF Sound
<1>16. ASSUME NEW r \in Requests, BloomAddFails(r) PROVE Goal
  <2>1. ASSUME NEW q \in Requests, q # r PROVE Sound(q)'
    BY <1>0, <1>16, <2>1, StaysSound DEF BloomAddFails
  <2>2. Name(r)' = Name(r)
    OBVIOUS
  <2>3. Sound(r)
    BY DEF IInv
  <2>4. PlaceSound(r)'
    BY <1>16 DEF IInv, BloomAddFails, Sound, PlaceSound
  <2>5. RowSound(r)'
    BY <1>16 DEF IInv, BloomAddFails, Sound, RowSound, Owns
  <2>6. ProfileSound(r)'
    BY <1>16 DEF IInv, BloomAddFails, Sound, ProfileSound
  <2>7. AddSound(r)'
    BY <1>16 DEF IInv, BloomAddFails, Sound, AddSound, Filtered
  <2>8. KnownSound(r)'
    BY <1>16 DEF IInv, BloomAddFails, Sound, KnownSound, Owns, Filtered
  <2> QED
    BY <2>1, <2>4, <2>5, <2>6, <2>7, <2>8 DEF Sound
<1>17. ASSUME NEW r \in Requests, ReadCacheFails(r) PROVE Goal
  <2>1. ASSUME NEW q \in Requests, q # r PROVE Sound(q)'
    BY <1>0, <1>17, <2>1, StaysSound DEF ReadCacheFails
  <2>2. Name(r)' = Name(r)
    OBVIOUS
  <2>3. Sound(r)
    BY DEF IInv
  <2>4. PlaceSound(r)'
    BY <1>17 DEF IInv, ReadCacheFails, Sound, PlaceSound
  <2>5. RowSound(r)'
    BY <1>17 DEF IInv, ReadCacheFails, Sound, RowSound, Owns
  <2>6. ProfileSound(r)'
    BY <1>17 DEF IInv, ReadCacheFails, Sound, ProfileSound
  <2>7. AddSound(r)'
    BY <1>17 DEF IInv, ReadCacheFails, Sound, AddSound, Filtered
  <2>8. KnownSound(r)'
    BY <1>17 DEF IInv, ReadCacheFails, Sound, KnownSound, Owns, Filtered
  <2> QED
    BY <2>1, <2>4, <2>5, <2>6, <2>7, <2>8 DEF Sound
<1>18. ASSUME NEW r \in Requests, CacheFails(r) PROVE Goal
  <2>1. ASSUME NEW q \in Requests, q # r PROVE Sound(q)'
    BY <1>0, <1>18, <2>1, StaysSound DEF CacheFails
  <2>2. Name(r)' = Name(r)
    OBVIOUS
  <2>3. Sound(r)
    BY DEF IInv
  <2>4. PlaceSound(r)'
    BY <1>18 DEF IInv, TypeOK, CacheFails, PlaceSound
  <2>5. RowSound(r)'
    BY <1>18 DEF IInv, CacheFails, Sound, RowSound, Owns
  <2>6. ProfileSound(r)'
    BY <1>18 DEF IInv, CacheFails, Sound, ProfileSound
  <2>7. AddSound(r)'
    BY <1>18 DEF IInv, CacheFails, Sound, AddSound, PlaceSound, Filtered
  <2>8. KnownSound(r)'
    BY <1>18 DEF IInv, CacheFails, Sound, KnownSound, Owns, Filtered
  <2> QED
    BY <2>1, <2>4, <2>5, <2>6, <2>7, <2>8 DEF Sound
<1>19. ASSUME NEW k \in Names, Expire(k) PROVE Goal
  BY <1>0, <1>19, StaysSound DEF Expire
<1>20. ASSUME Flush PROVE Goal
  BY <1>0, <1>20, StaysSound DEF Flush
<1>21. ASSUME UNCHANGED vars PROVE Goal
  BY <1>0, <1>21, StaysSound DEF vars
<1>22. ASSUME NEW i \in Instances, Crash(i) PROVE Goal
  <2> SUFFICES ASSUME NEW q \in Requests PROVE Sound(q)'
    OBVIOUS
  <2>1. CASE At[q] = i /\ pc[q] \notin {"new", "done"}
    <3>1. pc'[q] = "done" /\ reply'[q] = "cut" /\ q \notin adding' /\ row' = row /\ known' = known
      BY <1>22, <2>1 DEF Crash
    <3>2. Sound(q) /\ Name(q)' = Name(q)
      BY DEF IInv
    <3> QED
      BY <1>22, <3>2
      DEF Crash, Sound, PlaceSound, RowSound, ProfileSound, AddSound, KnownSound, Owns,
          Filtered
  <2>2. CASE ~(At[q] = i /\ pc[q] \notin {"new", "done"})
    <3>1. pc'[q] = pc[q] /\ reply'[q] = reply[q] /\ (q \in adding' <=> q \in adding)
      BY <1>22, <2>2 DEF Crash
    <3> QED
      BY <1>0, <1>22, <3>1, StaysSound DEF Crash
  <2> QED
    BY <2>1, <2>2
<1> QED
  BY <1>1, <1>2, <1>3, <1>4, <1>5, <1>6, <1>7, <1>8, <1>9, <1>10, <1>11, <1>12, <1>13,
     <1>14, <1>15, <1>16, <1>17, <1>18, <1>19, <1>20, <1>21, <1>22
  DEF Next, SignUp, Login, Fail, FalsePositive, CheckBloomFails
-----------------------------------------------------------------------------
(* The theorems *)

\* The invariant holds at the start.
LEMMA InitStep == Init => IInv
<1> SUFFICES ASSUME Init PROVE IInv
  OBVIOUS
<1>1. TypeOK
  BY DEF Init, TypeOK, PC, Replies
<1>2. CacheTrue /\ FilterSound
  BY DEF Init, CacheTrue, FilterSound
<1>3. ASSUME NEW r \in Requests PROVE Sound(r)
  BY DEF Init, Sound, PlaceSound, RowSound, ProfileSound, AddSound, KnownSound
<1> QED
  BY <1>1, <1>2, <1>3 DEF IInv

\* The invariant holds in every reachable state.
THEOREM Invariance == Spec => []IInv
<1>1. IInv /\ [Next]_vars => IInv'
  BY TypeStep, GlobalStep, SoundStep DEF IInv, Keeps
<1> QED
  BY InitStep, <1>1, PTL DEF Spec

\* The variables keep their types: type correctness of sign-up and login.
THEOREM TypeCorrect == Spec => []TypeOK
<1>1. IInv => TypeOK
  BY DEF IInv
<1> QED
  BY <1>1, Invariance, PTL

\* A login that follows the answer of its sign-up is refused only when the entry of
\* the filter was lost (signup sends BF.ADD before the awaited SETEX).
THEOREM KnownIsAdmitted == Spec => []KnownNotRefused
<1>1. IInv => KnownNotRefused
  BY DEF IInv, TypeOK, Sound, KnownSound, KnownNotRefused
<1> QED
  BY <1>1, Invariance, PTL

\* Whoever is let in has a profile, or was not held back by the filter (signup fills
\* the filter after the profile).
THEOREM ProfileFirst == Spec => []AdmittedHasProfile
<1>1. IInv => AdmittedHasProfile
  BY DEF IInv, Sound, ProfileSound, AdmittedHasProfile
<1> QED
  BY <1>1, Invariance, PTL

-----------------------------------------------------------------------------
(* The refinement *)

\* The mapping of the accounts and of the admitted requests.
Made == {AccountOf(n) : n \in {m \in Names : accounts[m] # None}}
Admitted == {AdmittedAs(r) : r \in {q \in Requests : reply[q] = "ok"}}

\* An insert creates the account of a free name.
LEMMA InsertCreates ==
  ASSUME IInv, NEW r \in Requests, pc[r] = "insert", Inserted(r),
         \A q \in Requests : reply'[q] = reply[q] \/ (q = r /\ reply'[q] # "ok"),
         \A q \in Requests \ {r} : row'[q] = row[q]
  PROVE  Promise!Next
<1> DEFINE new == [name |-> Name(r), password |-> Password[r], owner |-> r]
<1>1. Name(r) \in Names /\ reply[r] # "ok" /\ r \in SignUps
  BY DEF IInv, Sound, PlaceSound
<1>2. /\ accounts'[Name(r)] = Row(r) /\ Row(r) # None
      /\ \A n \in Names \ {Name(r)} : accounts'[n] = accounts[n]
  BY <1>1, RowTyped DEF Inserted, IInv, TypeOK
<1>3. Name(r)' = Name(r) /\ \A q \in Requests : Name(q)' = Name(q)
  BY DEF Name
<1>4. [name |-> Name(r), password |-> accounts'[Name(r)].password,
       owner |-> accounts'[Name(r)].by] = new
  BY <1>1, <1>2, RowTyped
<1>5. Made' = Made \cup {new}
  <2>1. {m \in Names : accounts'[m] # None} = {m \in Names : accounts[m] # None} \cup {Name(r)}
    BY <1>1, <1>2
  <2>2. \A n \in {m \in Names : accounts[m] # None} : AccountOf(n)' = AccountOf(n)
    BY <1>2 DEF Inserted, AccountOf
  <2>3. Made' = {[name |-> n, password |-> accounts'[n].password, owner |-> accounts'[n].by] :
                   n \in {m \in Names : accounts'[m] # None}}
    BY DEF Made, AccountOf
  <2>4. Made = {[name |-> n, password |-> accounts'[n].password, owner |-> accounts'[n].by] :
                   n \in {m \in Names : accounts[m] # None}}
    BY <2>2 DEF Made, AccountOf
  <2> QED
    BY <1>4, <2>1, <2>3, <2>4
<1>6. \A old \in Made : old.name # new.name
  BY DEF Made, AccountOf, Inserted
<1>7. new \in Made' \ Made
  BY <1>5, <1>6
<1>8. Admitted' = Admitted
  <2>1. {q \in Requests : reply'[q] = "ok"} = {q \in Requests : reply[q] = "ok"}
    BY <1>1
  <2>2. \A q \in {p \in Requests : reply[p] = "ok"} : AdmittedAs(q)' = AdmittedAs(q)
    BY <1>1, <1>3 DEF AdmittedAs
  <2> QED
    BY <2>1, <2>2 DEF Admitted
<1> HIDE DEF new
<1>9. \E a \in Made' \ Made :
        (\A old \in Made : old.name # a.name) /\ Made' = Made \cup {a} /\ Admitted' = Admitted
  BY <1>5, <1>6, <1>7, <1>8
<1> QED
  BY <1>9 DEF Promise!Next, Promise!Create, Made, Admitted

\* An answer "ok" lets the request in as the owner of the account it names.
LEMMA OkAdmits ==
  ASSUME IInv, NEW r \in Requests, UNCHANGED accounts,
         pc[r] # "done", reply' = [reply EXCEPT ![r] = "ok"],
         \A q \in Requests \ {r} : row'[q] = row[q],
         row'[r] = accounts[Name(r)], Owns(r)
  PROVE  Promise!Next
<1> DEFINE new == AdmittedAs(r)'
<1>1. \A q \in Requests : Name(q)' = Name(q)
  BY DEF Name
<1>2. reply[r] # "ok" /\ Name(r) \in Names /\ accounts[Name(r)] # None
      /\ accounts[Name(r)].password = Password[r]
  BY DEF IInv, Sound, PlaceSound, Owns
<1>3. new = [request |-> r, name |-> Name(r), password |-> Password[r],
             owner |-> accounts[Name(r)].by]
  BY <1>1 DEF AdmittedAs
<1>4. Admitted' = Admitted \cup {new}
  <2>1. {q \in Requests : reply'[q] = "ok"} = {q \in Requests : reply[q] = "ok"} \cup {r}
    BY DEF IInv, TypeOK
  <2>2. \A q \in {p \in Requests : reply[p] = "ok"} : AdmittedAs(q)' = AdmittedAs(q)
    BY <1>1, <1>2 DEF AdmittedAs
  <2> QED
    BY <2>1, <2>2 DEF Admitted
<1>5. \A old \in Admitted : old.request # new.request
  BY <1>2, <1>3 DEF Admitted, AdmittedAs
<1>6. [name |-> new.name, password |-> new.password, owner |-> new.owner] \in Made
  BY <1>2, <1>3 DEF Made, AccountOf
<1>7. Made' = Made
  BY DEF Made, AccountOf
<1>8. new \in Admitted' \ Admitted
  BY <1>4, <1>5
<1> HIDE DEF new
<1>9. \E a \in Admitted' \ Admitted :
        /\ [name |-> a.name, password |-> a.password, owner |-> a.owner] \in Made
        /\ \A old \in Admitted : old.request # a.request
        /\ Admitted' = Admitted \cup {a}
        /\ Made' = Made
  BY <1>4, <1>5, <1>6, <1>7, <1>8
<1> QED
  BY <1>9 DEF Promise!Next, Promise!Admit, Made, Admitted

\* Every other step changes neither.
LEMMA OtherStutters ==
  ASSUME IInv, UNCHANGED accounts,
         \A q \in Requests : reply[q] = "ok" <=> reply'[q] = "ok",
         \A q \in Requests : reply[q] = "ok" => row'[q] = row[q]
  PROVE  UNCHANGED <<Made, Admitted>>
<1>1. \A q \in Requests : Name(q)' = Name(q)
  BY DEF Name
<1>2. {q \in Requests : reply'[q] = "ok"} = {q \in Requests : reply[q] = "ok"}
  OBVIOUS
<1>3. \A q \in {p \in Requests : reply[p] = "ok"} : AdmittedAs(q)' = AdmittedAs(q)
  BY <1>1 DEF AdmittedAs
<1>4. Admitted' = Admitted
  BY <1>2, <1>3 DEF Admitted
<1>5. Made' = Made
  BY DEF Made, AccountOf
<1> QED
  BY <1>4, <1>5

\* Sign-up and login implement AccountStore: an insert creates the account of its
\* name, an answer "ok" admits the request, every other step changes neither.
THEOREM Implementation == Spec => ImplementsAccountStore
<1>1. Init => Promise!Init
  <2> SUFFICES ASSUME Init PROVE Made = {} /\ Admitted = {}
    BY DEF Promise!Init, Made, Admitted
  <2> QED
    BY DEF Init, Made, Admitted
<1>2. IInv /\ [Next]_vars => [Promise!Next]_(Promise!vars)
  <2> SUFFICES ASSUME IInv, [Next]_vars
               PROVE  Promise!Next \/ UNCHANGED <<Made, Admitted>>
    BY DEF Promise!vars, Made, Admitted
  <2> DEFINE Goal == Promise!Next \/ UNCHANGED <<Made, Admitted>>
  <2> USE DEF Goto, Answer, dbVars
  <2> HIDE DEF Goal
  <2>1. ASSUME NEW r \in Requests, Insert(r) \/ InsertUnconfirmed(r) PROVE Goal
    <3>1. /\ pc[r] = "insert" /\ Inserted(r)
          /\ \A q \in Requests : reply'[q] = reply[q] \/ (q = r /\ reply'[q] # "ok")
          /\ \A q \in Requests \ {r} : row'[q] = row[q]
      BY <2>1 DEF Insert, InsertUnconfirmed, IInv, TypeOK
    <3> QED
      BY <3>1, InsertCreates DEF Goal
  <2>2. ASSUME NEW r \in Requests, CacheUser(r) \/ FillCache(r) \/ CacheFails(r) PROVE Goal
    <3>1. Owns(r) /\ row[r] = accounts[Name(r)]
      BY <2>2 DEF CacheUser, FillCache, CacheFails, IInv, Sound, RowSound
    <3>2. /\ UNCHANGED <<accounts, row>> /\ pc[r] # "done"
          /\ reply' = [reply EXCEPT ![r] = "ok"]
      BY <2>2 DEF CacheUser, FillCache, CacheFails
    <3> QED
      BY <3>1, <3>2, OkAdmits DEF Goal
  <2>3. ASSUME NEW r \in Requests, Confirm(r) PROVE Goal
    <3>1. Owns(r)
      BY <2>3 DEF Confirm, IInv, Sound, RowSound
    <3>2. reply' = [reply EXCEPT ![r] = "ok"]
      BY <2>3, <3>1 DEF Confirm, Owns
    <3>3. /\ UNCHANGED accounts /\ pc[r] # "done"
          /\ row'[r] = accounts[Name(r)]
          /\ \A q \in Requests \ {r} : row'[q] = row[q]
      BY <2>3 DEF Confirm, IInv, TypeOK
    <3> QED
      BY <3>1, <3>2, <3>3, OkAdmits DEF Goal
  <2>4. ASSUME UNCHANGED accounts,
               \A q \in Requests : reply[q] = "ok" <=> reply'[q] = "ok",
               \A q \in Requests : reply[q] = "ok" => row'[q] = row[q]
        PROVE Goal
    BY <2>4, OtherStutters DEF Goal
  <2>5. \A q \in Requests : reply[q] = "ok" => pc[q] = "done"
    BY DEF IInv, Sound, PlaceSound
  <2>6. ASSUME NEW r \in Requests,
               \/ Ask(r) \/ InsertTaken(r) \/ InsertProfile(r) \/ BloomAdd(r) \/ CheckBloom(r)
               \/ Unfiltered(r) \/ QueryFails(r) \/ InsertProfileUnconfirmed(r)
               \/ BloomAddFails(r) \/ ReadCacheFails(r)
        PROVE Goal
    BY <2>4, <2>5, <2>6
    DEF IInv, TypeOK, Ask, InsertTaken, InsertProfile, BloomAdd, CheckBloom, Unfiltered,
        QueryFails, InsertProfileUnconfirmed, BloomAddFails, ReadCacheFails
  <2>7. ASSUME NEW r \in Requests, ReadCache(r) \/ Find(r) PROVE Goal
    BY <2>4, <2>5, <2>7 DEF IInv, TypeOK, ReadCache, Find
  <2>8. ASSUME NEW n \in Names, Expire(n) PROVE Goal
    BY <2>4, <2>8 DEF Expire
  <2>9. ASSUME NEW i \in Instances, Crash(i) PROVE Goal
    BY <2>4, <2>5, <2>9 DEF Crash
  <2>10. ASSUME Flush PROVE Goal
    BY <2>4, <2>10 DEF Flush
  <2>11. ASSUME UNCHANGED vars PROVE Goal
    BY <2>4, <2>11 DEF vars
  <2>12. Goal
    BY <2>1, <2>2, <2>3, <2>6, <2>7, <2>8, <2>9, <2>10, <2>11
    DEF Next, SignUp, Login, Fail, FalsePositive, CheckBloomFails
  <2> QED
    BY <2>12 DEF Goal
<1> QED
  BY <1>1, <1>2, Invariance, PTL DEF Spec, ImplementsAccountStore, Promise!Spec
=============================================================================
