-------------------------- MODULE PagedListsProofs --------------------------
(***************************************************************************)
(* Proofs about PagedLists, for any lists and page size, and any numbers   *)
(* of pages, added rows, failed requests and moves of the user.            *)
(***************************************************************************)
EXTENDS PagedLists, FiniteSetTheorems, WellFoundedInduction, TLAPS

-----------------------------------------------------------------------------
(* The order of a list *)

\* Every non-empty set of natural numbers has a least element.
LEMMA Least ==
  ASSUME NEW T \in SUBSET Nat, T # {}
  PROVE  \E x \in T : \A y \in T : x <= y
<1> DEFINE R == {ss \in Nat \X Nat : ss[1] < ss[2]}
<1>0. IsWellFoundedOn(R, Nat)
  BY NatLessThanWellFounded DEF OpToRel
<1> HIDE DEF R
<1>1. PICK x \in T : \A y \in T : <<y, x>> \notin R
  BY <1>0, WFMin
<1>2. \A y \in T : ~(y < x)
  BY <1>1 DEF R
<1> QED
  BY <1>2


\* Before is a strict total order.
LEMMA TotalOrder ==
  ASSUME NEW p \in Row, NEW q \in Row, NEW r \in Row
  PROVE  /\ ~Before(p, p)
         /\ Before(p, q) /\ Before(q, r) => Before(p, r)
         /\ p = q \/ Before(p, q) \/ Before(q, p)
         /\ ~(Before(p, q) /\ Before(q, p))
BY SizesAssumption DEF Row, Before

\* A non-empty set of rows has a first and a last one.
LEMMA Extremes ==
  ASSUME NEW T \in SUBSET Row, T # {}
  PROVE  /\ \E r \in T : \A q \in T : ~Before(q, r)
         /\ \E r \in T : \A q \in T : ~Before(r, q)
<1> DEFINE U == {Size - r : r \in T}
<1>1. T \subseteq Nat /\ U \subseteq Nat /\ U # {}
  <2>1. \A r \in T : r \in Nat /\ Size - r \in Nat
    BY SizesAssumption DEF Row
  <2> QED
    BY <2>1
<1> HIDE DEF U
<1>2. PICK low \in T : \A q \in T : low <= q
  BY <1>1, Least
<1>3. PICK u \in U : \A v \in U : u <= v
  BY <1>1, Least
<1>4. PICK high \in T : u = Size - high
  BY <1>3 DEF U
<1>5. \A q \in T : q <= high
  <2> SUFFICES ASSUME NEW q \in T PROVE q <= high
    OBVIOUS
  <2>1. Size - q \in U
    BY DEF U
  <2>2. Size - high <= Size - q
    BY <1>3, <1>4, <2>1
  <2> QED
    BY <1>1, <2>2, SizesAssumption
<1>6. \A q \in T : ~(q < low) /\ ~(q > high)
  BY <1>1, <1>2, <1>5
<1>7. CASE kind = "history"
  BY <1>6, <1>7 DEF Before
<1>8. CASE kind # "history"
  BY <1>6, <1>8 DEF Before
<1> QED
  BY <1>7, <1>8

LEMMA RowsFinite ==
  ASSUME NEW T \in SUBSET Row
  PROVE  IsFiniteSet(T) /\ Cardinality(T) \in Nat
<1>1. IsFiniteSet(Row)
  BY FS_Interval, SizesAssumption DEF Row
<1>2. IsFiniteSet(T)
  BY <1>1, FS_Subset
<1> QED
  BY <1>2, FS_CardinalityType

\* The first n rows of a set are in it, no other row of it is before one of them, and
\* they are n unless they are all.
LEMMA FirstRows ==
  ASSUME NEW S \in SUBSET Row, NEW n \in Nat \ {0}
  PROVE  /\ FirstOf(S, n) \subseteq S
         /\ \A q \in FirstOf(S, n), r \in S : Before(r, q) => r \in FirstOf(S, n)
         /\ Cardinality(FirstOf(S, n)) <= n
         /\ FirstOf(S, n) # S => Cardinality(FirstOf(S, n)) = n /\ Cardinality(S) > n
<1> DEFINE F == FirstOf(S, n)
           Ahead(r) == {q \in S : Before(q, r)}
<1>1. F = {r \in S : Cardinality(Ahead(r)) < n}
  BY DEF FirstOf
<1>2. \A r : Ahead(r) \in SUBSET Row /\ Ahead(r) \subseteq S
  OBVIOUS
<1>3. \A r : IsFiniteSet(Ahead(r)) /\ Cardinality(Ahead(r)) \in Nat
  BY <1>2, RowsFinite
<1>4. ASSUME NEW q \in F, NEW r \in S, Before(r, q) PROVE r \in F
  <2>1. Ahead(r) \subseteq Ahead(q)
    BY <1>1, <1>4, TotalOrder
  <2> HIDE DEF Ahead
  <2>2. Cardinality(Ahead(r)) <= Cardinality(Ahead(q))
    BY <1>3, <2>1, FS_Subset
  <2> QED
    BY <1>1, <1>3, <2>2
<1>5. F \in SUBSET Row /\ F \subseteq S
  BY <1>1
<1>6. IsFiniteSet(F) /\ Cardinality(F) \in Nat /\ IsFiniteSet(S) /\ Cardinality(S) \in Nat
  BY <1>5, RowsFinite
<1> HIDE DEF F
<1>7. Cardinality(F) <= n
  <2>1. CASE F = {}
    BY <2>1, FS_EmptySet
  <2>2. CASE F # {}
    <3>1. PICK r \in F : \A q \in F : ~Before(r, q)
      BY <1>5, <2>2, Extremes
    <3>2. F \ {r} \subseteq Ahead(r)
      BY <1>5, <3>1, TotalOrder
    <3> HIDE DEF Ahead
    <3>3. Cardinality(F \ {r}) <= Cardinality(Ahead(r))
      BY <1>3, <3>2, FS_Subset
    <3>4. Cardinality(F \ {r}) = Cardinality(F) - 1
      BY <1>6, FS_RemoveElement
    <3>5. Cardinality(Ahead(r)) < n
      BY <1>1, <3>1
    <3> QED
      BY <1>3, <1>6, <3>3, <3>4, <3>5
  <2> QED
    BY <2>1, <2>2
<1>8. ASSUME F # S PROVE Cardinality(F) >= n /\ Cardinality(S) > n
  <2>1. S \ F # {} /\ S \ F \in SUBSET Row
    BY <1>5, <1>8
  <2>2. PICK r \in S \ F : \A q \in S \ F : ~Before(q, r)
    BY <2>1, Extremes
  <2>3. Ahead(r) \subseteq F
    BY <2>2
  <2>4. F \cup {r} \subseteq S
    BY <1>5, <2>2
  <2> HIDE DEF Ahead
  <2>5. Cardinality(Ahead(r)) >= n
    BY <1>1, <1>3, <2>2
  <2>6. Cardinality(Ahead(r)) <= Cardinality(F)
    BY <1>6, <2>3, FS_Subset
  <2>7. Cardinality(F \cup {r}) = Cardinality(F) + 1
    BY <1>6, <2>2, FS_AddElement
  <2>8. Cardinality(F \cup {r}) <= Cardinality(S)
    BY <1>6, <2>4, FS_Subset
  <2> QED
    BY <1>3, <1>6, <2>5, <2>6, <2>7, <2>8
<1> QED
  BY <1>4, <1>5, <1>6, <1>7, <1>8 DEF F

\* The last row of a set.
LEMMA LastRow ==
  ASSUME NEW S \in SUBSET Row, S # {}
  PROVE  LastOf(S) \in S /\ \A q \in S : ~Before(LastOf(S), q)
<1>1. \E r \in S : \A q \in S : ~Before(r, q)
  BY Extremes
<1> QED
  BY <1>1 DEF LastOf


-----------------------------------------------------------------------------
(* What the endpoints answer *)

\* Behind the cursor.
Behind(c, r) == c = 0 \/ Before(c, r)

\* A page has no gap behind its cursor; its own cursor is its last row; and when it
\* has none, nothing is left.
LEMMA ReadSound ==
  ASSUME TypeOK, NEW k \in Keys, NEW c \in Row \cup {0}, NEW p, p = Read(k, c)
  PROVE  /\ p \in Page /\ p.ok /\ p.items \subseteq rows[k]
         /\ \A r \in rows[k], q \in p.items : Behind(c, r) /\ Before(r, q) => r \in p.items
         /\ p.next # 0 => p.next \in p.items
         /\ p.next = 0 => \A r \in rows[k] : Behind(c, r) => r \in p.items
<1>1. rows[k] \in SUBSET Row /\ Limit \in Nat \ {0} /\ 0 \notin Row
  BY SizesAssumption DEF TypeOK, Row
<1>2. ASSUME NEW found \in SUBSET rows[k], \A r \in rows[k] : Behind(c, r) => r \in found,
             NEW next, p = [items |-> FirstOf(found, Limit), ok |-> TRUE, next |-> next],
             \/ next = 0 /\ FirstOf(found, Limit) = found
             \/ next = LastOf(FirstOf(found, Limit)) /\ FirstOf(found, Limit) # {}
      PROVE  /\ p \in Page /\ p.ok /\ p.items \subseteq rows[k]
             /\ \A r \in rows[k], q \in p.items : Behind(c, r) /\ Before(r, q) => r \in p.items
             /\ p.next # 0 => p.next \in p.items
             /\ p.next = 0 => \A r \in rows[k] : Behind(c, r) => r \in p.items
  <2> DEFINE items == FirstOf(found, Limit)
  <2>1. /\ items \subseteq found /\ items \in SUBSET Row
        /\ \A q \in items, r \in found : Before(r, q) => r \in items
    BY <1>1, FirstRows
  <2>2. p.items = items /\ p.ok /\ p.next = next
    BY <1>2
  <2>3. (next = 0 /\ items = found) \/ (next \in items /\ next # 0)
    BY <1>1, <1>2, <2>1, LastRow
  <2>4. p \in Page
    BY <1>1, <1>2, <2>1, <2>3 DEF Page
  <2> HIDE DEF items
  <2> QED
    BY <1>2, <2>1, <2>2, <2>3, <2>4
<1>3. CASE kind = "history"
  <2> DEFINE found == {r \in rows[k] : c = 0 \/ r < c}
             items == FirstOf(found, Limit)
             next == IF Cardinality(items) = Limit THEN LastOf(items) ELSE 0
  <2>1. p = [items |-> items, ok |-> TRUE, next |-> next]
    BY <1>3 DEF Read, HistoryPage
  <2>2. found \in SUBSET rows[k] /\ \A r \in rows[k] : Behind(c, r) => r \in found
    <3>1. \A r \in rows[k] : Before(c, r) => r < c
      BY <1>1, <1>3, SizesAssumption DEF Before, Row
    <3> QED
      BY <3>1 DEF Behind
  <2> HIDE DEF found
  <2>3. items # found => Cardinality(items) = Limit
    BY <1>1, <2>2, FirstRows
  <2>4. items = {} => Cardinality(items) # Limit
    BY <1>1, FS_EmptySet
  <2> QED
    BY <1>2, <2>1, <2>2, <2>3, <2>4
<1>4. CASE kind # "history"
  <2> DEFINE found == {r \in rows[k] : r \in byName[k] \/ c = 0 \/ r > c}
             items == FirstOf(found, Limit)
             next == IF Cardinality(found) > Limit THEN LastOf(items) ELSE 0
  <2>1. p = [items |-> items, ok |-> TRUE, next |-> next]
    BY <1>4 DEF Read, SearchPage
  <2>2. found \in SUBSET rows[k] /\ \A r \in rows[k] : Behind(c, r) => r \in found
    <3>1. \A r \in rows[k] : Before(c, r) => r > c
      BY <1>1, <1>4, SizesAssumption DEF Before, Row
    <3> QED
      BY <3>1 DEF Behind
  <2> HIDE DEF found
  <2>3. items # found => Cardinality(items) = Limit /\ Cardinality(found) > Limit
    BY <1>1, <2>2, FirstRows
  <2>4. Cardinality({}) = 0
    BY FS_EmptySet
  <2>5. Cardinality(found) > Limit => items # {}
    <3>1. CASE items = found
      BY <1>1, <2>4, <3>1
    <3>2. CASE items # found
      BY <1>1, <2>3, <2>4, <3>2
    <3> QED
      BY <3>1, <3>2
  <2> QED
    BY <1>2, <2>1, <2>2, <2>3, <2>5
<1> QED
  BY <1>3, <1>4

-----------------------------------------------------------------------------
(* The inductive invariant *)

\* The rows of some pages.
ListOf(ps) == UNION {ps[n].items : n \in DOMAIN ps}

\* Pages as they are read, when the first of them was read from the rows s: what is
\* listed has no gap; the cursor of the next page is a row that is listed; without
\* one, and without an error, everything is.
Sound(ps, s) ==
  /\ \A r \in s \ ListOf(ps), q \in ListOf(ps) : ~Before(r, q)
  /\ ps # <<>> /\ NextParam(ps) # 0 => NextParam(ps) \in ListOf(ps)
  /\ ps # <<>> /\ NextParam(ps) = 0 /\ (\A n \in DOMAIN ps : ps[n].ok) => s \subseteq ListOf(ps)

\* The pages in the cache, and those of a refetch under way.
CacheSound(k) == since[k] \subseteq rows[k] /\ Sound(pages[k], since[k])
RefetchSound(k) ==
  fetch[k].mode = "all" /\ fetch[k].done # <<>> =>
    /\ fetch[k].since \subseteq rows[k] /\ Sound(fetch[k].done, fetch[k].since)
    /\ NextParam(fetch[k].done) # 0

\* The next page is only asked for when there is one, and the pages before it are not
\* replaced meanwhile.
NextSound(k) == fetch[k].mode = "next" => pages[k] # <<>> /\ HasNext(k)

\* A list that is shown has been asked for.
KeySound == key # NoKey => pages[key] # <<>> \/ fetch[key].mode # "none"

IInv ==
  /\ TypeOK /\ KeySound
  /\ \A k \in Keys : CacheSound(k) /\ RefetchSound(k) /\ NextSound(k)

-----------------------------------------------------------------------------
(* One more page *)

LEMMA Appended ==
  ASSUME NEW ps \in Seq(Page), NEW p \in Page
  PROVE  /\ Append(ps, p) \in Seq(Page) /\ Append(ps, p) # <<>>
         /\ ListOf(Append(ps, p)) = ListOf(ps) \cup p.items
         /\ NextParam(Append(ps, p)) = p.next
         /\ (\A n \in DOMAIN Append(ps, p) : Append(ps, p)[n].ok) => p.ok
<1> DEFINE qs == Append(ps, p)
<1>1. /\ qs \in Seq(Page) /\ Len(qs) = Len(ps) + 1 /\ qs[Len(ps) + 1] = p
      /\ \A n \in DOMAIN ps : qs[n] = ps[n]
      /\ DOMAIN qs = 1..(Len(ps) + 1) /\ DOMAIN ps = 1..Len(ps) /\ Len(ps) \in Nat
  OBVIOUS
<1> HIDE DEF qs
<1>2. DOMAIN qs = DOMAIN ps \cup {Len(ps) + 1}
  BY <1>1
<1>3. ListOf(qs) = ListOf(ps) \cup p.items
  BY <1>1, <1>2 DEF ListOf
<1>4. qs # <<>>
  BY <1>1
<1>5. NextParam(qs) = p.next
  BY <1>1, <1>4 DEF NextParam
<1> QED
  BY <1>1, <1>2, <1>3, <1>4, <1>5 DEF qs

\* A page read from the cursor of the last one, or an error, keeps the pages sound.
LEMMA OneMore ==
  ASSUME TypeOK, NEW k \in Keys, NEW ps \in Seq(Page), NEW s \in SUBSET Row, s \subseteq rows[k],
         Sound(ps, s), ps # <<>> => NextParam(ps) # 0,
         NEW p, p = FailedPage \/ p = Read(k, NextParam(ps))
  PROVE  p \in Page /\ Append(ps, p) \in Seq(Page) /\ Sound(Append(ps, p), s)
<1> DEFINE c == NextParam(ps)
<1>1. c \in Row \cup {0} /\ (c = 0 <=> ps = <<>>) /\ 0 \notin Row
  <2>1. CASE ps = <<>>
    BY <2>1, SizesAssumption DEF NextParam, Row
  <2>2. CASE ps # <<>>
    <3>1. Len(ps) \in DOMAIN ps /\ ps[Len(ps)] \in Page
      BY <2>2
    <3> QED
      BY <2>2, <3>1, SizesAssumption DEF NextParam, Page, Row
  <2> QED
    BY <2>1, <2>2
<1>2. ListOf(ps) \in SUBSET Row /\ rows[k] \in SUBSET Row
  <2>1. \A n \in DOMAIN ps : ps[n] \in Page
    OBVIOUS
  <2>2. \A q \in Page : q.items \subseteq Row
    BY DEF Page
  <2> QED
    BY <2>1, <2>2 DEF ListOf, TypeOK
<1>3. ASSUME NEW r \in s \ ListOf(ps) PROVE Behind(c, r)
  <2>1. CASE c = 0
    BY <2>1 DEF Behind
  <2>2. CASE c # 0
    <3>1. c \in ListOf(ps) /\ ~Before(r, c) /\ r # c
      BY <1>1, <1>3, <2>2 DEF Sound
    <3> QED
      BY <1>2, <1>3, <3>1, TotalOrder DEF Behind
  <2> QED
    BY <2>1, <2>2
<1> HIDE DEF c
<1>4. CASE p = FailedPage
  <2>1. p \in Page /\ p.items = {} /\ p.next = 0 /\ ~p.ok
    BY <1>4 DEF FailedPage, Page
  <2> QED
    BY <2>1, Appended DEF Sound
<1>5. CASE p = Read(k, c)
  <2>1. /\ p \in Page /\ p.ok /\ p.items \subseteq rows[k]
        /\ \A r \in rows[k], q \in p.items : Behind(c, r) /\ Before(r, q) => r \in p.items
        /\ p.next # 0 => p.next \in p.items
        /\ p.next = 0 => \A r \in rows[k] : Behind(c, r) => r \in p.items
    BY <1>1, <1>5, ReadSound
  <2> DEFINE qs == Append(ps, p)
  <2>2. /\ qs \in Seq(Page) /\ qs # <<>>
        /\ ListOf(qs) = ListOf(ps) \cup p.items
        /\ NextParam(qs) = p.next
    BY <2>1, Appended
  <2> HIDE DEF qs
  <2>3. ASSUME NEW r \in s \ ListOf(qs), NEW q \in ListOf(qs) PROVE ~Before(r, q)
    <3>1. r \in s \ ListOf(ps) /\ r \notin p.items /\ Behind(c, r)
      BY <1>3, <2>2, <2>3
    <3>2. CASE q \in ListOf(ps)
      BY <3>1, <3>2 DEF Sound
    <3>3. CASE q \in p.items
      BY <2>1, <3>1, <3>3
    <3> QED
      BY <2>2, <2>3, <3>2, <3>3
  <2>4. NextParam(qs) # 0 => NextParam(qs) \in ListOf(qs)
    BY <2>1, <2>2
  <2>5. NextParam(qs) = 0 => s \subseteq ListOf(qs)
    BY <1>3, <2>1, <2>2
  <2> QED
    BY <2>1, <2>2, <2>3, <2>4, <2>5 DEF Sound, qs
<1> QED
  BY <1>4, <1>5 DEF c


-----------------------------------------------------------------------------
(* The steps of the query *)

QueryTypes ==
  /\ pages \in [Keys -> Seq(Page)] /\ since \in [Keys -> SUBSET Row]
  /\ fetch \in [Keys -> Fetch] /\ paused \subseteq Keys

QuerySound == QueryTypes /\ \A k \in Keys : CacheSound(k) /\ RefetchSound(k) /\ NextSound(k)

\* Pages that were sound remain so.
LEMMA SoundStays ==
  ASSUME kind' = kind, NEW ps, NEW s, Sound(ps, s)
  PROVE  Sound(ps, s)'
BY DEF Sound, Before

\* More rows change nothing.
LEMMA RowsAdded ==
  ASSUME QuerySound, kind' = kind, UNCHANGED <<pages, since, fetch>>, paused' \subseteq Keys,
         \A k \in Keys : rows[k] \subseteq rows'[k]
  PROVE  QuerySound'
<1>1. QueryTypes'
  BY DEF QuerySound, QueryTypes
<1>2. ASSUME NEW k \in Keys PROVE CacheSound(k)' /\ RefetchSound(k)' /\ NextSound(k)'
  <2>1. CacheSound(k)'
    BY SoundStays DEF QuerySound, CacheSound
  <2>2. RefetchSound(k)'
    BY SoundStays DEF QuerySound, RefetchSound
  <2>3. NextSound(k)'
    BY DEF QuerySound, NextSound, HasNext
  <2> QED
    BY <2>1, <2>2, <2>3
<1> QED
  BY <1>1, <1>2 DEF QuerySound

\* A request starts.
LEMMA Started ==
  ASSUME QuerySound, UNCHANGED <<kind, rows, pages, since>>, NEW k \in Keys,
         \/ Start(k, AllPages)
         \/ Start(k, NextPage) /\ pages[k] # <<>> /\ HasNext(k)
  PROVE  QuerySound' /\ fetch'[k].mode # "none" /\ \A j \in Keys \ {k} : fetch'[j] = fetch[j]
<1>1. PICK f : /\ f = AllPages \/ (f = NextPage /\ pages[k] # <<>> /\ HasNext(k))
               /\ fetch' = [fetch EXCEPT ![k] = f] /\ paused' \subseteq paused \cup {k}
  BY DEF Start
<1>2. /\ f \in Fetch /\ f.done = <<>> /\ f.mode \in {"all", "next"}
      /\ f.mode = "next" => pages[k] # <<>> /\ HasNext(k)
  <2>1. NoFetch \in Fetch /\ NoFetch.done = <<>>
    BY DEF NoFetch, Fetch
  <2>2. AllPages \in Fetch /\ AllPages.done = <<>> /\ AllPages.mode = "all"
    BY <2>1 DEF AllPages, Fetch
  <2>3. NextPage \in Fetch /\ NextPage.done = <<>> /\ NextPage.mode = "next"
    BY <2>1 DEF NextPage, Fetch
  <2> QED
    BY <1>1, <2>2, <2>3
<1>3. /\ fetch'[k] = f /\ \A j \in Keys \ {k} : fetch'[j] = fetch[j]
      /\ QueryTypes'
  BY <1>1, <1>2 DEF QuerySound, QueryTypes
<1>4. ASSUME NEW j \in Keys PROVE CacheSound(j)' /\ RefetchSound(j)' /\ NextSound(j)'
  <2>1. CacheSound(j)'
    BY SoundStays DEF QuerySound, CacheSound
  <2>2. RefetchSound(j)'
    BY <1>2, <1>3, SoundStays DEF QuerySound, RefetchSound
  <2>3. NextSound(j)'
    BY <1>2, <1>3 DEF QuerySound, NextSound, HasNext
  <2> QED
    BY <2>1, <2>2, <2>3
<1> QED
  BY <1>2, <1>3, <1>4 DEF QuerySound

\* The pages of k are replaced.
LEMMA Replaced ==
  ASSUME QuerySound, UNCHANGED <<kind, rows, paused>>, NEW k \in Keys,
         NEW ps \in Seq(Page), NEW s \in SUBSET Row, s \subseteq rows[k], Sound(ps, s), Loaded(k, ps, s)
  PROVE  QuerySound' /\ pages'[k] = ps /\ \A j \in Keys \ {k} : pages'[j] = pages[j] /\ fetch'[j] = fetch[j]
<1>1. NoFetch \in Fetch /\ NoFetch.mode = "none"
  BY DEF NoFetch, Fetch
<1>2. /\ pages' = [pages EXCEPT ![k] = ps] /\ since' = [since EXCEPT ![k] = s]
      /\ fetch' = [fetch EXCEPT ![k] = NoFetch]
  BY DEF Loaded
<1>3. /\ pages'[k] = ps /\ since'[k] = s /\ fetch'[k] = NoFetch
      /\ \A j \in Keys \ {k} : pages'[j] = pages[j] /\ since'[j] = since[j] /\ fetch'[j] = fetch[j]
      /\ QueryTypes'
  BY <1>1, <1>2 DEF QuerySound, QueryTypes
<1>4. ASSUME NEW j \in Keys PROVE CacheSound(j)' /\ RefetchSound(j)' /\ NextSound(j)'
  <2>1. CacheSound(j)'
    BY <1>3, SoundStays DEF QuerySound, CacheSound
  <2>2. RefetchSound(j)'
    BY <1>1, <1>3, SoundStays DEF QuerySound, RefetchSound
  <2>3. NextSound(j)'
    BY <1>1, <1>3 DEF QuerySound, NextSound, HasNext
  <2> QED
    BY <2>1, <2>2, <2>3
<1> QED
  BY <1>3, <1>4 DEF QuerySound

\* An answer while all pages are read.
LEMMA AllStep ==
  ASSUME TypeOK, QuerySound, UNCHANGED <<kind, rows, paused>>, NEW k \in Keys, NEW fails \in BOOLEAN,
         AnswerAll(k, fails)
  PROVE  /\ QuerySound'
         /\ \A j \in Keys : (pages[j] # <<>> => pages'[j] # <<>>)
                            /\ (fetch[j].mode # "none" => pages'[j] # <<>> \/ fetch'[j].mode # "none")
<1> DEFINE f == fetch[k]
           p == IF fails THEN FailedPage ELSE Read(k, NextParam(f.done))
           done == Append(f.done, p)
           s == IF f.done = <<>> THEN rows[k] ELSE f.since
<1>1. /\ f.mode = "all"
      /\ \/ Loaded(k, done, s)
         \/ /\ p.next # 0
            /\ fetch' = [fetch EXCEPT ![k] = [@ EXCEPT !.done = done, !.since = s]]
            /\ UNCHANGED <<pages, since>>
  BY DEF AnswerAll
<1>2. f \in Fetch /\ rows[k] \in SUBSET Row
  BY DEF QuerySound, QueryTypes, TypeOK
<1>3. f.done \in Seq(Page) /\ s \in SUBSET Row /\ s \subseteq rows[k] /\ Sound(f.done, s)
  <2>1. CASE f.done = <<>>
    <3>1. ListOf(<<>>) = {}
      BY DEF ListOf
    <3> QED
      BY <1>2, <2>1, <3>1 DEF Fetch, Sound
  <2>2. CASE f.done # <<>>
    BY <1>1, <1>2, <2>2 DEF Fetch, QuerySound, RefetchSound
  <2> QED
    BY <2>1, <2>2
<1>4. f.done # <<>> => NextParam(f.done) # 0
  BY <1>1 DEF QuerySound, RefetchSound
<1>5. p = FailedPage \/ p = Read(k, NextParam(f.done))
  OBVIOUS
<1> HIDE DEF p
<1>6. p \in Page /\ done \in Seq(Page) /\ Sound(done, s)
  BY <1>3, <1>4, <1>5, OneMore
<1>7. done # <<>> /\ NextParam(done) = p.next
  BY <1>3, <1>6, Appended
<1> HIDE DEF done, s
<1>8. CASE Loaded(k, done, s)
  <2>1. QuerySound' /\ pages'[k] = done /\ \A j \in Keys \ {k} : pages'[j] = pages[j] /\ fetch'[j] = fetch[j]
    BY <1>3, <1>6, <1>8, Replaced
  <2> QED
    BY <1>7, <2>1
<1>9. CASE /\ p.next # 0
           /\ fetch' = [fetch EXCEPT ![k] = [@ EXCEPT !.done = done, !.since = s]]
           /\ UNCHANGED <<pages, since>>
  <2> DEFINE g == [f EXCEPT !.done = done, !.since = s]
  <2>1. g \in Fetch /\ g.mode = "all" /\ g.done = done /\ g.since = s
    BY <1>1, <1>2, <1>3, <1>6 DEF Fetch
  <2>2. fetch' = [fetch EXCEPT ![k] = g]
    BY <1>9
  <2> HIDE DEF g
  <2>3. /\ fetch'[k] = g /\ (\A j \in Keys \ {k} : fetch'[j] = fetch[j])
        /\ QueryTypes'
    BY <1>9, <2>1, <2>2 DEF QuerySound, QueryTypes
  <2>4. ASSUME NEW j \in Keys PROVE CacheSound(j)' /\ RefetchSound(j)' /\ NextSound(j)'
    <3>1. CacheSound(j)'
      BY <1>9, SoundStays DEF QuerySound, CacheSound
    <3>2. CASE j = k
      <4>1. RefetchSound(j)'
        BY <1>3, <1>6, <1>7, <1>9, <2>1, <2>3, <3>2, SoundStays DEF RefetchSound
      <4>2. NextSound(j)'
        BY <2>1, <2>3, <3>2 DEF NextSound
      <4> QED
        BY <3>1, <4>1, <4>2
    <3>3. CASE j # k
      <4>1. RefetchSound(j)'
        BY <2>3, <3>3, SoundStays DEF QuerySound, RefetchSound
      <4>2. NextSound(j)'
        BY <1>9, <2>3, <3>3 DEF QuerySound, NextSound, HasNext
      <4> QED
        BY <3>1, <4>1, <4>2
    <3> QED
      BY <3>2, <3>3
  <2> QED
    BY <1>9, <2>1, <2>3, <2>4 DEF QuerySound
<1> QED
  BY <1>1, <1>8, <1>9

\* The answer to fetchNextPage.
LEMMA NextStep ==
  ASSUME TypeOK, QuerySound, UNCHANGED <<kind, rows, paused>>, NEW k \in Keys, NEW fails \in BOOLEAN,
         AnswerNext(k, fails)
  PROVE  /\ QuerySound'
         /\ \A j \in Keys : (pages[j] # <<>> => pages'[j] # <<>>)
                            /\ (fetch[j].mode # "none" => pages'[j] # <<>> \/ fetch'[j].mode # "none")
<1> DEFINE p == IF fails THEN FailedPage ELSE Read(k, NextParam(pages[k]))
           ps == Append(pages[k], p)
<1>1. fetch[k].mode = "next" /\ Loaded(k, ps, since[k])
  BY DEF AnswerNext
<1>2. /\ pages[k] \in Seq(Page) /\ since[k] \in SUBSET Row
      /\ since[k] \subseteq rows[k] /\ Sound(pages[k], since[k])
      /\ pages[k] # <<>> /\ NextParam(pages[k]) # 0
  BY <1>1 DEF QuerySound, QueryTypes, CacheSound, NextSound, HasNext
<1>3. p = FailedPage \/ p = Read(k, NextParam(pages[k]))
  OBVIOUS
<1> HIDE DEF p
<1>4. p \in Page /\ ps \in Seq(Page) /\ Sound(ps, since[k])
  BY <1>2, <1>3, OneMore
<1>5. ps # <<>>
  BY <1>2, <1>4, Appended
<1> HIDE DEF ps
<1>6. QuerySound' /\ pages'[k] = ps /\ \A j \in Keys \ {k} : pages'[j] = pages[j] /\ fetch'[j] = fetch[j]
  BY <1>1, <1>2, <1>4, Replaced
<1> QED
  BY <1>5, <1>6


-----------------------------------------------------------------------------
(* The invariant *)

LEMMA InitSound == Init => IInv
<1> SUFFICES ASSUME Init PROVE IInv
  OBVIOUS
<1>1. PICK x \in Starts : kind = x.kind /\ rows = x.rows /\ byName = x.byName
  BY DEF Init
<1>2. kind \in Kinds /\ rows \in [Keys -> SUBSET Row] /\ byName \in [Keys -> SUBSET Row]
  BY <1>1, StartsAssumption
<1>3. NoFetch \in Fetch /\ NoFetch.mode = "none"
  BY DEF NoFetch, Fetch
<1>4. /\ pages \in [Keys -> Seq(Page)] /\ since \in [Keys -> SUBSET Row] /\ fetch \in [Keys -> Fetch]
      /\ \A k \in Keys : pages[k] = <<>> /\ since[k] = {} /\ fetch[k].mode = "none"
  BY <1>3 DEF Init
<1>5. TypeOK
  BY <1>2, <1>4 DEF Init, TypeOK, Zones
<1>6. KeySound
  BY DEF Init, KeySound
<1>7. ASSUME NEW k \in Keys PROVE CacheSound(k) /\ RefetchSound(k) /\ NextSound(k)
  BY <1>4 DEF CacheSound, RefetchSound, NextSound, Sound
<1> QED
  BY <1>5, <1>6, <1>7 DEF IInv

\* Another list is shown, and its query run if need be.
LEMMA ShownKeeps ==
  ASSUME QuerySound, UNCHANGED <<kind, rows>>, NEW k \in Keys \cup {NoKey}, Shown(k)
  PROVE  QuerySound' /\ KeySound' /\ key' = k
<1>1. key' = k /\ UNCHANGED <<pages, since>>
  BY DEF Shown
<1>2. ASSUME UNCHANGED <<fetch, paused>> PROVE QuerySound'
  BY <1>1, <1>2, RowsAdded DEF QuerySound, QueryTypes
<1>3. CASE k = NoKey
  BY <1>1, <1>2, <1>3 DEF Shown, KeySound
<1>4. CASE k # NoKey /\ fetch[k].mode = "none" /\ Start(k, AllPages)
  <2>1. QuerySound' /\ fetch'[k].mode # "none"
    BY <1>1, <1>4, Started
  <2> QED
    BY <1>1, <2>1 DEF KeySound
<1>5. CASE k # NoKey /\ (pages[k] # <<>> \/ fetch[k].mode # "none") /\ UNCHANGED <<fetch, paused>>
  BY <1>1, <1>2, <1>5 DEF KeySound
<1> QED
  BY <1>3, <1>4, <1>5 DEF Shown

\* A request for the list that is shown.
LEMMA StartKeeps ==
  ASSUME QuerySound, KeySound, key \in Keys, UNCHANGED <<kind, rows, key, pages, since>>,
         \/ Start(key, AllPages)
         \/ Start(key, NextPage) /\ HasNext(key)
  PROVE  QuerySound' /\ KeySound'
<1>1. HasNext(key) => pages[key] # <<>>
  BY DEF HasNext, NextParam
<1>2. QuerySound' /\ fetch'[key].mode # "none"
  BY <1>1, Started
<1> QED
  BY <1>2 DEF KeySound

\* The query is left alone.
LEMMA StillKeeps ==
  ASSUME QuerySound, KeySound, UNCHANGED <<kind, rows, key, queryVars>>
  PROVE  QuerySound' /\ KeySound'
<1>1. UNCHANGED <<pages, since, fetch, paused>>
  BY DEF queryVars
<1>2. QuerySound'
  BY <1>1, RowsAdded DEF QuerySound, QueryTypes
<1> QED
  BY <1>1, <1>2 DEF KeySound

LEMMA QueryStep ==
  ASSUME TypeOK, QuerySound, KeySound, [Next]_vars
  PROVE  QuerySound' /\ KeySound'
<1>1. ASSUME NEW k \in Keys, SelectConversation(k) PROVE QuerySound' /\ KeySound'
  BY <1>1, ShownKeeps DEF SelectConversation, dataVars
<1>2. ASSUME NEW k \in Keys, NEW fails \in BOOLEAN, Answer(k, fails) PROVE QuerySound' /\ KeySound'
  <2>1. UNCHANGED <<kind, rows, paused, key>> /\ (AnswerAll(k, fails) \/ AnswerNext(k, fails))
    BY <1>2 DEF Answer, dataVars
  <2>2. /\ QuerySound'
        /\ \A j \in Keys : (pages[j] # <<>> => pages'[j] # <<>>)
                           /\ (fetch[j].mode # "none" => pages'[j] # <<>> \/ fetch'[j].mode # "none")
    BY <2>1, AllStep, NextStep
  <2>3. KeySound'
    BY <2>1, <2>2 DEF KeySound, TypeOK
  <2> QED
    BY <2>2, <2>3
<1>3. ASSUME NEW k \in Keys, NEW r \in Row, AddRow(k, r) PROVE QuerySound' /\ KeySound'
  <2>1. /\ UNCHANGED <<kind, key, pages, since, fetch, paused>>
        /\ rows' = [rows EXCEPT ![k] = @ \cup {r}]
    BY <1>3 DEF AddRow, queryVars
  <2>2. \A j \in Keys : rows[j] \subseteq rows'[j]
    BY <2>1 DEF TypeOK
  <2>3. QuerySound'
    BY <2>1, <2>2, RowsAdded DEF QuerySound, QueryTypes
  <2> QED
    BY <2>1, <2>3 DEF KeySound
<1>4. ASSUME NEW z \in Zones, Scroll(z) PROVE QuerySound' /\ KeySound'
  <2>1. key \in Keys
    BY <1>4 DEF Scroll, ScrollHistory, ScrollResults, Results, TypeOK
  <2>2. /\ UNCHANGED <<kind, rows, key>>
        /\ \/ UNCHANGED queryVars
           \/ UNCHANGED <<pages, since>> /\ Start(key, NextPage) /\ HasNext(key)
    BY <1>4 DEF Scroll, ScrollHistory, ScrollResults, FetchNextPage, dataVars
  <2> QED
    BY <2>1, <2>2, StartKeeps, StillKeeps
<1>5. CASE Refetch
  BY <1>5, StartKeeps DEF Refetch, dataVars, TypeOK
<1>6. CASE GoOnline
  <2>1. UNCHANGED <<kind, rows, key, pages, since, fetch>> /\ paused' = {}
    BY <1>6 DEF GoOnline, dataVars
  <2>2. QuerySound'
    BY <2>1, RowsAdded
  <2> QED
    BY <2>1, <2>2 DEF KeySound
<1>7. CASE Debounce
  BY <1>7, ShownKeeps DEF Debounce, dataVars, TypeOK
<1>8. CASE \/ GoOffline \/ Hydrated \/ OpenModal \/ ResetInput \/ CloseModal \/ UNCHANGED vars
           \/ \E k \in Keys \cup {NoKey} : Type(k)
  BY <1>8, StillKeeps DEF GoOffline, Hydrated, OpenModal, ResetInput, CloseModal, Type, dataVars, vars
<1> QED
  BY <1>1, <1>2, <1>3, <1>4, <1>5, <1>6, <1>7, <1>8 DEF Next

\* The types of everything else.
OtherTypes ==
  /\ kind \in Kinds
  /\ rows \in [Keys -> SUBSET Row] /\ byName \in [Keys -> SUBSET Row]
  /\ modal \in {"closed", "opening", "open"}
  /\ typed \in Keys \cup {NoKey} /\ key \in Keys \cup {NoKey}
  /\ online \in BOOLEAN /\ hydrating \in BOOLEAN /\ decrypting \in BOOLEAN
  /\ history \in BOOLEAN /\ armed \in BOOLEAN
  /\ zone \in Zones
  /\ added \in Nat /\ faults \in Nat /\ moves \in Nat

LEMMA OtherTypesStep ==
  ASSUME TypeOK, [Next]_vars
  PROVE  OtherTypes'
<1>1. OtherTypes
  BY DEF TypeOK, OtherTypes
<1> USE <1>1 DEF OtherTypes
<1>2. ASSUME NEW k \in Keys, SelectConversation(k) PROVE OtherTypes'
  <2>1. /\ UNCHANGED <<kind, rows, byName, modal, typed, online, history, added, faults>>
        /\ key' = k /\ zone' \in Zones /\ moves' = moves + 1
    BY <1>2 DEF SelectConversation, Moves, Shown, Rehydrate, dataVars, modalVars
  <2>2. hydrating' \in BOOLEAN /\ decrypting' \in BOOLEAN /\ armed' \in BOOLEAN
    BY <1>2 DEF SelectConversation, Rehydrate
  <2> QED
    BY <2>1, <2>2
<1>3. ASSUME NEW k \in Keys, NEW fails \in BOOLEAN, Answer(k, fails) PROVE OtherTypes'
  <2>1. /\ UNCHANGED <<kind, rows, byName, modal, typed, key, online, zone, armed, added, moves>>
        /\ faults' \in Nat
    BY <1>3 DEF Answer, dataVars, modalVars, scrollVars
  <2>2. hydrating' \in BOOLEAN /\ decrypting' \in BOOLEAN /\ history' \in BOOLEAN
    <3>1. UNCHANGED hydrateVars \/ \E items : Rehydrate(items)
      BY <1>3 DEF Answer, AnswerAll, AnswerNext, Loaded
    <3> QED
      BY <3>1 DEF Rehydrate, hydrateVars
  <2> QED
    BY <2>1, <2>2
<1>4. ASSUME NEW k \in Keys, NEW r \in Row, AddRow(k, r) PROVE OtherTypes'
  BY <1>4 DEF AddRow, modalVars, hydrateVars, scrollVars
<1>5. ASSUME NEW z \in Zones, Scroll(z) PROVE OtherTypes'
  <2>1. /\ UNCHANGED <<kind, rows, byName, modal, typed, key, online, hydrating, decrypting, history,
                       added, faults, moves>>
        /\ zone' \in Zones /\ armed' \in BOOLEAN
    BY <1>5 DEF Scroll, ScrollHistory, ScrollResults, dataVars, modalVars, hydrateVars, countVars
  <2> QED
    BY <2>1
<1>6. CASE Refetch
  <2>1. /\ UNCHANGED <<kind, rows, byName, modal, typed, key, online, hydrating, decrypting, history, zone,
                       armed, added, faults>>
        /\ moves' = moves + 1
    BY <1>6 DEF Refetch, Moves, dataVars, modalVars, hydrateVars, scrollVars
  <2> QED
    BY <2>1
<1>7. CASE GoOffline \/ GoOnline
  <2>1. /\ UNCHANGED <<kind, rows, byName, modal, typed, key, hydrating, decrypting, history, zone, armed,
                       added, moves>>
    BY <1>7 DEF GoOffline, GoOnline, dataVars, modalVars, hydrateVars, scrollVars, countVars
  <2>2. online' \in BOOLEAN
    BY <1>7 DEF GoOffline, GoOnline
  <2>3. faults' \in Nat
    BY <1>7 DEF GoOffline, GoOnline, countVars
  <2> QED
    BY <2>1, <2>2, <2>3
<1>8. CASE Hydrated
  <2>1. /\ UNCHANGED <<kind, rows, byName, modal, typed, key, online, zone, armed, added, faults, moves>>
        /\ hydrating' \in BOOLEAN /\ decrypting' \in BOOLEAN /\ history' \in BOOLEAN
    BY <1>8 DEF Hydrated, dataVars, modalVars, scrollVars, countVars
  <2> QED
    BY <2>1
<1>9. CASE OpenModal \/ ResetInput \/ CloseModal
  <2>1. /\ UNCHANGED <<kind, rows, byName, key, online, hydrating, decrypting, history, zone, armed, added,
                       faults>>
        /\ modal' \in {"closed", "opening", "open"} /\ typed' \in Keys \cup {NoKey} /\ moves' \in Nat
    BY <1>9 DEF OpenModal, ResetInput, CloseModal, Moves, dataVars, modalVars, hydrateVars, scrollVars,
                 countVars
  <2> QED
    BY <2>1
<1>10. CASE Debounce
  <2>1. /\ UNCHANGED <<kind, rows, byName, modal, typed, online, hydrating, decrypting, history, armed,
                       added, faults, moves>>
        /\ key' = typed
    BY <1>10 DEF Debounce, Shown, dataVars, modalVars, hydrateVars, countVars
  <2>2. zone' \in Zones
    BY <1>10 DEF Debounce, Zones
  <2> QED
    BY <2>1, <2>2
<1>11. ASSUME NEW k \in Keys \cup {NoKey}, Type(k) PROVE OtherTypes'
  <2>1. /\ UNCHANGED <<kind, rows, byName, modal, key, online, hydrating, decrypting, history, zone, armed,
                       added, faults>>
        /\ typed' = k /\ moves' = moves + 1
    BY <1>11 DEF Type, Moves, dataVars, hydrateVars, scrollVars
  <2> QED
    BY <2>1
<1>12. CASE UNCHANGED vars
  BY <1>12 DEF vars, dataVars, modalVars, hydrateVars, scrollVars, countVars
<1> QED
  BY <1>2, <1>3, <1>4, <1>5, <1>6, <1>7, <1>10, <1>11, <1>12, <1>8, <1>9 DEF Next

LEMMA StepSound ==
  ASSUME IInv, [Next]_vars
  PROVE  IInv'
<1>1. TypeOK /\ QuerySound /\ KeySound
  BY DEF IInv, QuerySound, QueryTypes, TypeOK
<1>2. QuerySound' /\ KeySound' /\ OtherTypes'
  BY <1>1, QueryStep, OtherTypesStep
<1>3. TypeOK'
  BY <1>2 DEF QuerySound, QueryTypes, OtherTypes, TypeOK
<1> QED
  BY <1>2, <1>3 DEF IInv, QuerySound

-----------------------------------------------------------------------------
(* Theorems *)

\* The inductive invariant holds of every reachable state.
THEOREM Invariance == Spec => []IInv
<1>1. Init => IInv
  BY InitSound
<1>2. IInv /\ [Next]_vars => IInv'
  BY StepSound
<1> QED
  BY <1>1, <1>2, PTL DEF Spec

\* Every variable has its type: of the pages, the cursors and the requests.
THEOREM TypeCorrect == Spec => []TypeOK
<1>1. IInv => TypeOK
  BY DEF IInv
<1> QED
  BY <1>1, Invariance, PTL

\* Whatever is added, refetched, given up or refused while pages are read one after
\* the other, what they list has no gap, in either reading of the cursor.
THEOREM ListedWithoutGap == Spec => []NoGap
<1>1. \A k \in Keys : Listed(k) = ListOf(pages[k])
  BY DEF Listed, ListOf
<1>2. IInv => NoGap
  BY <1>1 DEF IInv, CacheSound, Sound, NoGap
<1> QED
  BY <1>2, Invariance, PTL

\* A list that ends, without an error, is complete.
THEOREM CompleteAtEnd == Spec => []EndIsComplete
<1>1. \A k \in Keys : Listed(k) = ListOf(pages[k])
  BY DEF Listed, ListOf
<1>2. IInv => EndIsComplete
  BY <1>1 DEF IInv, CacheSound, Sound, EndIsComplete, HasNext, Failed
<1> QED
  BY <1>2, Invariance, PTL

\* "No matches found" is shown only when the search was answered and nobody matched,
\* or the window is offline and has not asked yet.
THEOREM NoMatchesTrue == Spec => []NoMatchesIsTrue
<1>1. ASSUME IInv, modal # "closed", NoMatches, key \notin paused
      PROVE  pages[key] # <<>> /\ since[key] = {}
  <2>1. key \in Keys /\ Listed(key) = {} /\ ~Failed(key) /\ ListOf(pages[key]) = {}
    BY <1>1 DEF NoMatches, IInv, TypeOK, Listed, ListOf
  <2>2. pages[key] # <<>>
    BY <1>1, <2>1 DEF NoMatches, Loading, IInv, KeySound, TypeOK
  <2>3. NextParam(pages[key]) = 0
    BY <1>1, <2>1, <2>2 DEF IInv, CacheSound, Sound
  <2>4. since[key] \subseteq {}
    BY <1>1, <2>1, <2>2, <2>3 DEF IInv, CacheSound, Sound, Failed
  <2> QED
    BY <2>2, <2>4
<1>2. IInv => NoMatchesIsTrue
  BY <1>1 DEF NoMatchesIsTrue
<1> QED
  BY <1>2, Invariance, PTL

=============================================================================
