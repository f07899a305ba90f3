------------------------ MODULE LiveDiagnosis_proofs ------------------------
(***************************************************************************)
(* What the receiver and the watcher guarantee for every set of spans and  *)
(* requests, and any number of faults.  The evidence of one receiver only  *)
(* progresses, in an order without cycles; the watcher may hold older      *)
(* documents, but it holds them in that order.                             *)
(***************************************************************************)
EXTENDS LiveDiagnosis, WellFoundedInduction, TLAPS

\* At most one instance of a key.
Functional(S) == \A i, j \in S : i.key = j.key => i = j

\* Every instance of P is still there in Q, or a newer one took its place.
Progressed(P, Q) == \A i \in P : \E j \in Q : j.key = i.key /\ (j = i \/ Newer(j, i))

\* S is what is left of the instances A: the newest of each key.
Newest(S, A) ==
  /\ S \subseteq A
  /\ Functional(S)
  /\ \A i \in A : \E s \in S : s.key = i.key /\ ~ Newer(i, s)

\* Evidence that a receiver may hold.
Evidence == {S \in SUBSET Spans : Functional(S)}

Documents == [instances : Evidence, life : Nat]

Snapshots == [instances : Evidence, life : Nat, active : SUBSET Spans, as_of : Nat,
              next : SUBSET Nat, revision : Nat]

-----------------------------------------------------------------------------
(* The invariant *)

ReceiverInv ==
  /\ now \in Nat
  /\ life \in Nat
  /\ accepted \in SUBSET Spans
  /\ Newest(store, accepted)
  /\ EvidenceFileIsCurrent

\* Evidence of the present receiver is not ahead of what it holds.
Behind(document) ==
  /\ document.life <= life
  /\ document.life = life => Progressed(document.instances, store)

TickInv ==
  /\ step \in {"poll", "diagnose", "publish"}
  /\ revision \in Nat
  /\ fingerprint \in Evidence \cup {None}
  /\ step = "diagnose" => fetched \in Documents /\ Behind(fetched)
  /\ step = "publish" => pending \in Snapshots /\ Behind(pending)

\* The documents in flight come after the published one.
Follows(document, later) ==
  /\ document.life <= later.life
  /\ document.life = later.life => Progressed(document.instances, later.instances)

PublishedInv ==
  published # None =>
    /\ published \in Snapshots
    /\ Behind(published)
    /\ step = "diagnose" => Follows(published, fetched)
    /\ step = "publish" => Follows(published, pending)

\* The last change was counted after the kept snapshot, and it really was one if
\* the snapshot is of another revision.
CountedSince(instances) ==
  /\ fingerprint \in Evidence
  /\ Progressed(cached.instances, fingerprint)
  /\ Progressed(fingerprint, instances)
  /\ cached.revision # revision => fingerprint # cached.instances

Reason(snapshot, next) ==
  \/ \E t \in snapshot.next : t <= next.as_of
  \/ next.as_of < snapshot.as_of

CachedInv ==
  /\ step = "publish" => pending.instances = fingerprint /\ pending.revision = revision
  /\ cached # None =>
       /\ cached \in Snapshots
       /\ cached.life <= life
       /\ cached.life = life /\ step # "publish" => CountedSince(store)
       /\ step = "diagnose" =>
            /\ cached.life <= fetched.life
            /\ cached.life = fetched.life => CountedSince(fetched.instances)
       /\ step = "publish" =>
            /\ cached.life <= pending.life
            /\ cached.life = pending.life /\ cached.instances = pending.instances
                 => Reason(cached, pending)

AllInv == ReceiverInv /\ TickInv /\ PublishedInv /\ CachedInv

-----------------------------------------------------------------------------
(* Induction *)

\* Every set of numbers has a least one.
LEMMA LeastNumber ==
  ASSUME NEW A \in SUBSET Nat, A # {}
  PROVE  \E n \in A : \A m \in A : n <= m
<1> DEFINE R == {p \in Nat \X Nat : p[1] < p[2]}
<1>1. IsWellFoundedOn(R, Nat)
  <2>1. R = OpToRel(<, Nat)
    BY DEF OpToRel
  <2> QED
    BY <2>1, NatLessThanWellFounded
<1>2. PICK n \in A : \A m \in A : ~ (<<m, n>> \in R)
  <2> HIDE DEF R
  <2> QED
    BY <1>1, WFMin
<1>3. ASSUME NEW m \in A PROVE n <= m
  <2>1. <<m, n>> \in Nat \X Nat /\ ~ (<<m, n>> \in R)
    BY <1>2
  <2>2. ~ (m < n)
    BY <2>1
  <2> QED
    BY <2>1, <2>2
<1> QED
  BY <1>3

\* Induction up to a number, over the set where something holds.
LEMMA InductionUpTo ==
  ASSUME NEW m \in Nat, NEW A, 0 \in A,
         \A n \in 1 .. m : n - 1 \in A => n \in A
  PROVE  0 .. m \subseteq A
<1> SUFFICES ASSUME ~ (0 .. m \subseteq A) PROVE FALSE
  OBVIOUS
<1> DEFINE B == (0 .. m) \ A
<1>1. PICK n \in B : \A k \in B : n <= k
  <2>1. B \in SUBSET Nat /\ B # {}
    OBVIOUS
  <2> QED
    BY <2>1, LeastNumber
<1>2. n \in 1 .. m /\ n - 1 \in 0 .. m /\ ~ (n <= n - 1)
  BY <1>1
<1>3. n - 1 \in A
  BY <1>1, <1>2
<1> QED
  BY <1>1, <1>2, <1>3

-----------------------------------------------------------------------------
(* Evidence and its order *)

\* Of two different instances one is newer, or neither; and newer has no cycle.
LEMMA NewerIsOrder ==
  ASSUME NEW i \in Spans, NEW j \in Spans, NEW k \in Spans
  PROVE  /\ ~ Newer(i, i)
         /\ Newer(i, j) => ~ Newer(j, i)
         /\ Newer(i, j) /\ Newer(j, k) => Newer(i, k)
         /\ ~ Newer(i, j) /\ Newer(k, j) => ~ Newer(i, k)
<1>1. /\ i.id \in Nat /\ i.observed \in Nat /\ j.id \in Nat /\ j.observed \in Nat
      /\ k.id \in Nat /\ k.observed \in Nat
  BY LiveAssumption
<1> QED
  BY <1>1 DEF Newer

\* Nothing happened.
LEMMA ProgressedSame ==
  ASSUME NEW P
  PROVE  Progressed(P, P)
  BY DEF Progressed

\* Evidence that progressed twice progressed.
LEMMA ProgressedTwice ==
  ASSUME NEW P \in Evidence, NEW Q \in Evidence, NEW R \in Evidence,
         Progressed(P, Q), Progressed(Q, R)
  PROVE  Progressed(P, R)
<1> SUFFICES ASSUME NEW i \in P
             PROVE  \E k \in R : k.key = i.key /\ (k = i \/ Newer(k, i))
  BY DEF Progressed
<1>1. PICK j \in Q : j.key = i.key /\ (j = i \/ Newer(j, i))
  BY DEF Progressed
<1>2. PICK k \in R : k.key = j.key /\ (k = j \/ Newer(k, j))
  BY DEF Progressed
<1>3. i \in Spans /\ j \in Spans /\ k \in Spans
  BY DEF Evidence
<1> QED
  BY <1>1, <1>2, <1>3, NewerIsOrder

\* Evidence never comes back to what it was.
LEMMA ProgressHasNoCycle ==
  ASSUME NEW P \in Evidence, NEW Q \in Evidence, Progressed(P, Q), Progressed(Q, P)
  PROVE  P = Q
<1>1. ASSUME NEW S \in Evidence, NEW T \in Evidence, Progressed(S, T), Progressed(T, S),
             NEW i \in S
      PROVE  i \in T
  <2>1. PICK j \in T : j.key = i.key /\ (j = i \/ Newer(j, i))
    BY <1>1 DEF Progressed
  <2>2. PICK k \in S : k.key = j.key /\ (k = j \/ Newer(k, j))
    BY <1>1 DEF Progressed
  <2>3. k = i
    BY <2>1, <2>2 DEF Evidence, Functional
  <2>4. i \in Spans /\ j \in Spans
    BY DEF Evidence
  <2> QED
    BY <2>1, <2>2, <2>3, <2>4, NewerIsOrder
<1> QED
  BY <1>1

\* What progressed shows nothing older of any key.
LEMMA ProgressShowsNothingOlder ==
  ASSUME NEW P \in Evidence, NEW Q \in Evidence, Progressed(P, Q),
         NEW i \in P, NEW j \in Q, i.key = j.key
  PROVE  ~ Newer(i, j)
<1>1. PICK k \in Q : k.key = i.key /\ (k = i \/ Newer(k, i))
  BY DEF Progressed
<1>2. k = j /\ i \in Spans /\ j \in Spans
  BY <1>1 DEF Evidence, Functional
<1> QED
  BY <1>1, <1>2, NewerIsOrder

-----------------------------------------------------------------------------
(* One request *)

\* Placing one instance keeps the newest of each key, and is progress.
LEMMA PlaceOne ==
  ASSUME NEW S, NEW A \in SUBSET Spans, Newest(S, A), NEW i \in Spans
  PROVE  /\ Newest(Place(S, i), A \cup {i})
         /\ Progressed(S, Place(S, i))
<1> DEFINE rivals == {s \in S : s.key = i.key}
<1>0. S \subseteq A /\ Functional(S) /\ S \subseteq Spans
  BY DEF Newest
<1>1. CASE \A s \in rivals : Newer(i, s)
  <2>1. Place(S, i) = (S \ rivals) \cup {i}
    BY <1>1 DEF Place
  <2>2. (S \ rivals) \cup {i} \subseteq A \cup {i}
    BY <1>0
  <2>3. Functional((S \ rivals) \cup {i})
    BY <1>0 DEF Functional
  <2>4. ASSUME NEW j \in A \cup {i}
        PROVE  \E s \in (S \ rivals) \cup {i} : s.key = j.key /\ ~ Newer(j, s)
    <3>1. CASE j = i
      BY <3>1, NewerIsOrder
    <3>2. CASE j \in A
      <4>1. PICK s \in S : s.key = j.key /\ ~ Newer(j, s)
        BY <3>2 DEF Newest
      <4>2. CASE s \in rivals
        BY <1>0, <1>1, <3>2, <4>1, <4>2, NewerIsOrder
      <4> QED
        BY <4>1, <4>2
    <3> QED
      BY <3>1, <3>2
  <2>5. ASSUME NEW j \in S
        PROVE  \E s \in (S \ rivals) \cup {i} : s.key = j.key /\ (s = j \/ Newer(s, j))
    BY <1>1
  <2> QED
    BY <2>1, <2>2, <2>3, <2>4, <2>5 DEF Newest, Progressed
<1>2. CASE ~ \A s \in rivals : Newer(i, s)
  <2>1. Place(S, i) = S
    BY <1>2 DEF Place
  <2>2. \E s \in S : s.key = i.key /\ ~ Newer(i, s)
    BY <1>2
  <2> QED
    BY <1>0, <2>1, <2>2, ProgressedSame DEF Newest
<1> QED
  BY <1>1, <1>2

\* The evidence after each instance of a request is the one before with that
\* instance placed.
LEMMA PlacedIsDefined ==
  ASSUME NEW request, Len(request) \in Nat
  PROVE  Placed(request) =
           [n \in 0 .. Len(request) |->
              IF n = 0 THEN store ELSE Place(Placed(request)[n - 1], request[n])]
<1> DEFINE Defines(f, m) ==
      f = [n \in 0 .. m |-> IF n = 0 THEN store ELSE Place(f[n - 1], request[n])]
<1> DEFINE A == {m \in Nat : \E f : Defines(f, m)}
<1>1. 0 \in A
  <2> DEFINE f == [n \in 0 .. 0 |-> store]
  <2>1. f = [n \in 0 .. 0 |-> IF n = 0 THEN store ELSE Place(f[n - 1], request[n])]
    OBVIOUS
  <2> QED
    BY <2>1
<1>2. ASSUME NEW m \in 1 .. Len(request), m - 1 \in A PROVE m \in A
  <2>1. PICK f : Defines(f, m - 1)
    BY <1>2
  <2> DEFINE g == [n \in 0 .. m |-> IF n = m THEN Place(f[m - 1], request[m]) ELSE f[n]]
  <2>2. ASSUME NEW n \in 0 .. m
        PROVE  g[n] = IF n = 0 THEN store ELSE Place(g[n - 1], request[n])
    <3>1. CASE n = 0
      BY <2>1, <3>1
    <3>2. CASE n = m
      BY <3>2
    <3>3. CASE n # 0 /\ n # m
      <4>1. n \in 0 .. m - 1 /\ n - 1 \in 0 .. m - 1 /\ n - 1 # m /\ n - 1 \in 0 .. m
        BY <3>3
      <4>2. f[n] = Place(f[n - 1], request[n])
        BY <2>1, <3>3, <4>1
      <4> QED
        BY <3>3, <4>1, <4>2
    <3> QED
      BY <3>1, <3>2, <3>3
  <2>3. g = [n \in 0 .. m |-> g[n]]
    OBVIOUS
  <2>4. Defines(g, m)
    <3> HIDE DEF g
    <3> QED
      BY <2>2, <2>3
  <2>5. m \in Nat
    OBVIOUS
  <2> QED
    BY <2>4, <2>5
<1>3. \E f : Defines(f, Len(request))
  <2> HIDE DEF A
  <2>1. 0 .. Len(request) \subseteq A
    BY <1>1, <1>2, InductionUpTo
  <2>2. Len(request) \in A
    BY <2>1
  <2> QED
    BY <2>2 DEF A
<1>4. Defines(CHOOSE f : Defines(f, Len(request)), Len(request))
  <2> HIDE DEF Defines
  <2> QED
    BY <1>3
<1>5. Placed(request) = CHOOSE f : Defines(f, Len(request))
  BY DEF Placed
<1> QED
  BY <1>4, <1>5

\* What a request leaves is the newest of each key, and is progress.
LEMMA RequestProgress ==
  ASSUME Newest(store, accepted), accepted \subseteq Spans, NEW request \in Seq(Spans)
  PROVE  /\ Newest(Proposed(request), accepted \cup ToSet(request))
         /\ Progressed(store, Proposed(request))
<1> DEFINE Reached(n) == {request[i] : i \in 1 .. n}
           A == {n \in 0 .. Len(request) :
                   /\ Newest(Placed(request)[n], accepted \cup Reached(n))
                   /\ Progressed(store, Placed(request)[n])}
<1>1. 0 \in A
  <2>1. Placed(request)[0] = store /\ Reached(0) = {} /\ 0 \in 0 .. Len(request)
    BY PlacedIsDefined
  <2>2. Newest(store, accepted \cup Reached(0))
    <3> HIDE DEF Reached
    <3>1. accepted \cup Reached(0) = accepted
      BY <2>1
    <3> QED
      BY <3>1
  <2> HIDE DEF Reached
  <2> QED
    BY <2>1, <2>2, ProgressedSame
<1>2. ASSUME NEW n \in 1 .. Len(request), n - 1 \in A PROVE n \in A
  <2> DEFINE S == Placed(request)[n - 1]
             B == accepted \cup Reached(n - 1)
  <2>1. Placed(request)[n] = Place(S, request[n])
    BY PlacedIsDefined
  <2>2. accepted \cup Reached(n) = B \cup {request[n]}
    OBVIOUS
  <2>3. B \in SUBSET Spans /\ request[n] \in Spans
    OBVIOUS
  <2>4. Newest(S, B) /\ Progressed(store, S)
    BY <1>2
  <2>5. Newest(Place(S, request[n]), B \cup {request[n]}) /\ Progressed(S, Place(S, request[n]))
    <3> HIDE DEF S, B
    <3> QED
      BY <2>3, <2>4, PlaceOne
  <2>6. store \in Evidence /\ S \in Evidence /\ Place(S, request[n]) \in Evidence
    <3> HIDE DEF S, B
    <3> QED
      BY <2>3, <2>4, <2>5 DEF Newest, Evidence
  <2>7. Progressed(store, Place(S, request[n]))
    <3> HIDE DEF S, B
    <3> QED
      BY <2>4, <2>5, <2>6, ProgressedTwice
  <2>8. Newest(Placed(request)[n], accepted \cup Reached(n))
    <3> HIDE DEF Reached, S, B
    <3> QED
      BY <2>1, <2>2, <2>5
  <2>9. Progressed(store, Placed(request)[n])
    <3> HIDE DEF S
    <3> QED
      BY <2>1, <2>7
  <2>10. n \in 0 .. Len(request)
    OBVIOUS
  <2> HIDE DEF Reached, S, B
  <2> QED
    BY <2>8, <2>9, <2>10
<1>3. Len(request) \in A
  <2> HIDE DEF A
  <2>1. Len(request) \in Nat
    OBVIOUS
  <2>2. 0 .. Len(request) \subseteq A
    BY <1>1, <1>2, <2>1, InductionUpTo
  <2> QED
    BY <2>1, <2>2
<1>4. Reached(Len(request)) = ToSet(request)
  BY DEF ToSet
<1> QED
  BY <1>3, <1>4 DEF Proposed

-----------------------------------------------------------------------------
(* Steps *)

\* What the receiver holds is evidence.
LEMMA StoreIsEvidence ==
  ASSUME ReceiverInv
  PROVE  store \in Evidence
  BY DEF ReceiverInv, Newest, Evidence

\* Nothing is known at the start.
LEMMA AllInitially == Init => AllInv
<1> SUFFICES ASSUME Init PROVE AllInv
  OBVIOUS
<1>1. ReceiverInv
  BY DEF Init, ReceiverInv, EvidenceFileIsCurrent, Newest, Functional
<1>2. TickInv /\ PublishedInv /\ CachedInv
  BY DEF Init, TickInv, PublishedInv, CachedInv
<1> QED
  BY <1>1, <1>2 DEF AllInv

\* What was behind the receiver stays behind it when it progresses.
LEMMA BehindProgress ==
  ASSUME store \in Evidence, store' \in Evidence, Progressed(store, store'),
         UNCHANGED life, NEW document, document.instances \in Evidence, Behind(document)
  PROVE  /\ document.life <= life'
         /\ document.life = life' => Progressed(document.instances, store')
  BY ProgressedTwice DEF Behind

\* A request progresses the evidence, and what the watcher knows of it.
LEMMA IngestStep ==
  ASSUME AllInv, NEW request \in Requests, Ingest(request)
  PROVE  AllInv'
<1> DEFINE more == accepted \cup ToSet(request)
<1>1. request \in Seq(Spans) /\ ToSet(request) \subseteq Spans
  BY LiveAssumption DEF ToSet
<1>2. /\ Newest(store', more)
      /\ Progressed(store, store')
  BY <1>1, RequestProgress DEF AllInv, ReceiverInv, Ingest
<1>3. ReceiverInv'
  BY <1>1, <1>2 DEF AllInv, ReceiverInv, Ingest, EvidenceFileIsCurrent
<1>4. store \in Evidence /\ store' \in Evidence
  BY <1>3, StoreIsEvidence DEF AllInv, ReceiverInv, Newest, Evidence
<1>5. /\ UNCHANGED <<now, life, published>>
      /\ UNCHANGED <<step, fetched, fingerprint, revision, cached, pending>>
  BY DEF Ingest, watcher, engine
<1>6. TickInv'
  <2>1. step = "diagnose" => Behind(fetched)'
    <3> SUFFICES ASSUME step = "diagnose" PROVE Behind(fetched)'
      OBVIOUS
    <3>1. fetched.instances \in Evidence /\ Behind(fetched)
      BY DEF AllInv, TickInv, Documents
    <3> QED
      BY <1>2, <1>4, <1>5, <3>1, BehindProgress DEF Behind
  <2>2. step = "publish" => Behind(pending)'
    <3> SUFFICES ASSUME step = "publish" PROVE Behind(pending)'
      OBVIOUS
    <3>1. pending.instances \in Evidence /\ Behind(pending)
      BY DEF AllInv, TickInv, Snapshots
    <3> QED
      BY <1>2, <1>4, <1>5, <3>1, BehindProgress DEF Behind
  <2> QED
    BY <1>5, <2>1, <2>2 DEF AllInv, TickInv
<1>7. PublishedInv'
  <2> SUFFICES ASSUME published # None PROVE Behind(published)'
    BY <1>5 DEF AllInv, PublishedInv, Follows
  <2>1. published.instances \in Evidence /\ Behind(published)
    BY DEF AllInv, PublishedInv, Snapshots
  <2> QED
    BY <1>2, <1>4, <1>5, <2>1, BehindProgress DEF Behind
<1>8. CachedInv'
  <2>1. ASSUME cached # None, cached.life = life, step # "publish"
        PROVE  CountedSince(store)'
    <3>1. CountedSince(store)
      BY <2>1 DEF AllInv, CachedInv
    <3>2. Progressed(fingerprint, store')
      BY <1>2, <1>4, <3>1, ProgressedTwice DEF CountedSince
    <3> QED
      BY <1>5, <3>1, <3>2 DEF CountedSince
  <2>2. cached # None /\ step = "diagnose" /\ cached.life = fetched.life =>
          CountedSince(fetched.instances)'
    BY <1>5 DEF AllInv, CachedInv, CountedSince
  <2> QED
    BY <1>5, <2>1, <2>2 DEF AllInv, CachedInv, Reason
<1> QED
  BY <1>3, <1>6, <1>7, <1>8 DEF AllInv

\* Time and the clock concern nobody's memory.
LEMMA ClockStep ==
  ASSUME AllInv, Advance \/ SetClockBack
  PROVE  AllInv'
<1>1. now' \in Nat
  BY DEF Advance, SetClockBack, AllInv, ReceiverInv
<1>2. UNCHANGED <<receiver, watcher, published>>
  BY DEF Advance, SetClockBack
<1> QED
  BY <1>1, <1>2 DEF AllInv, ReceiverInv, TickInv, PublishedInv, CachedInv, Behind, Follows,
     CountedSince, Reason, EvidenceFileIsCurrent, receiver, watcher, engine

\* A restarted receiver is a new one: nothing known is its evidence.
LEMMA RestartReceiverStep ==
  ASSUME AllInv, RestartReceiver
  PROVE  AllInv'
<1>1. /\ UNCHANGED <<now, evidenceFile, published>>
      /\ UNCHANGED <<step, fetched, fingerprint, revision, cached, pending>>
      /\ store' = {} /\ accepted' = {} /\ life' = life + 1 /\ life \in Nat
  BY DEF RestartReceiver, watcher, engine, AllInv, ReceiverInv
<1>2. ReceiverInv'
  BY <1>1 DEF AllInv, ReceiverInv, EvidenceFileIsCurrent, Newest, Functional
<1>3. ASSUME NEW document, document.life \in Nat, Behind(document)
      PROVE  document.life <= life' /\ document.life # life'
  BY <1>1, <1>3 DEF Behind
<1>4. TickInv'
  <2>1. step = "diagnose" => Behind(fetched)'
    BY <1>1, <1>3 DEF AllInv, TickInv, Behind, Documents
  <2>2. step = "publish" => Behind(pending)'
    BY <1>1, <1>3 DEF AllInv, TickInv, Behind, Snapshots
  <2> QED
    BY <1>1, <2>1, <2>2 DEF AllInv, TickInv
<1>5. PublishedInv'
  <2>1. published # None => Behind(published)'
    BY <1>1, <1>3 DEF AllInv, PublishedInv, Behind, Snapshots
  <2> QED
    BY <1>1, <2>1 DEF AllInv, PublishedInv, Follows
<1>6. CachedInv'
  <2>1. cached # None => cached.life <= life' /\ cached.life # life'
    BY <1>1 DEF AllInv, CachedInv, Snapshots
  <2>2. cached # None /\ step = "diagnose" /\ cached.life = fetched.life =>
          CountedSince(fetched.instances)'
    BY <1>1 DEF AllInv, CachedInv, CountedSince
  <2> QED
    BY <1>1, <2>1, <2>2 DEF AllInv, CachedInv, Reason
<1> QED
  BY <1>2, <1>4, <1>5, <1>6 DEF AllInv

\* A restarted watcher knows the published file only.
LEMMA RestartWatcherStep ==
  ASSUME AllInv, RestartWatcher
  PROVE  AllInv'
<1>1. ReceiverInv'
  BY DEF RestartWatcher, receiver, AllInv, ReceiverInv, EvidenceFileIsCurrent
<1>2. TickInv'
  BY DEF RestartWatcher, TickInv
<1>3. PublishedInv'
  BY DEF RestartWatcher, receiver, AllInv, PublishedInv, Behind
<1>4. CachedInv'
  BY DEF RestartWatcher, CachedInv
<1> QED
  BY <1>1, <1>2, <1>3, <1>4 DEF AllInv

\* The watcher leaves the receiver alone.
LEMMA ReceiverKept ==
  ASSUME AllInv, UNCHANGED <<now, receiver>>
  PROVE  ReceiverInv'
  BY DEF AllInv, ReceiverInv, EvidenceFileIsCurrent, receiver

\* A fetched document is what the receiver holds.
LEMMA FetchStep ==
  ASSUME AllInv, Fetch
  PROVE  AllInv'
<1>1. /\ UNCHANGED <<now, store, accepted, life, published>>
      /\ UNCHANGED <<fingerprint, revision, cached, pending>>
      /\ step = "poll" /\ step' = "diagnose"
      /\ fetched' = [instances |-> store, life |-> life]
  BY DEF Fetch, receiver, engine
<1>2. ReceiverInv'
  BY ReceiverKept DEF Fetch
<1>3. fetched' \in Documents /\ fetched'.life = life /\ fetched'.instances = store
  BY <1>1, StoreIsEvidence DEF AllInv, ReceiverInv, Documents
<1>4. TickInv'
  BY <1>1, <1>3, ProgressedSame DEF AllInv, ReceiverInv, TickInv, Behind
<1>5. PublishedInv'
  BY <1>1, <1>3 DEF AllInv, PublishedInv, Behind, Follows
<1>6. CachedInv'
  <2> SUFFICES ASSUME cached # None
               PROVE  /\ cached.life = life => CountedSince(store)'
                      /\ cached.life <= fetched'.life
                      /\ cached.life = fetched'.life => CountedSince(fetched.instances)'
    BY <1>1 DEF AllInv, CachedInv
  <2> QED
    BY <1>1, <1>3 DEF AllInv, CachedInv, CountedSince
<1> QED
  BY <1>2, <1>4, <1>5, <1>6 DEF AllInv

\* The diagnosis of a document is a snapshot of its evidence.
LEMMA DiagnosisTypes ==
  ASSUME NEW document \in Documents, NEW time \in Nat, NEW rev \in Nat
  PROVE  Diagnosis(document, time, rev) \in Snapshots
<1>1. document.instances \in Evidence /\ document.instances \subseteq Spans
  BY DEF Documents, Evidence
<1>2. Active(document.instances, time) \subseteq Spans
  BY <1>1 DEF Active
<1>3. NextTransition(document.instances, time) \subseteq Nat
  BY <1>1, LiveAssumption DEF NextTransition
<1> QED
  BY <1>1, <1>2, <1>3 DEF Diagnosis, Snapshots, Documents

\* A tick that ends in a snapshot to publish has everything known of the document.
LEMMA EndTickKeeps ==
  ASSUME AllInv, step = "diagnose", NEW rev \in Nat, EndTick(rev),
         UNCHANGED <<now, receiver, published, cached>>
  PROVE  /\ step' \in {"poll", "publish"}
         /\ PublishedInv'
         /\ step' = "publish" =>
              /\ pending' = Diagnosis(fetched, now, rev)
              /\ pending' \in Snapshots /\ Behind(pending)'
              /\ pending'.instances = fetched.instances /\ pending'.life = fetched.life
              /\ pending'.revision = rev /\ pending'.as_of = now
<1>1. /\ step' \in {"poll", "publish"}
      /\ step' = "publish" => pending' = Diagnosis(fetched, now, rev)
  BY DEF EndTick
<1>2. fetched \in Documents /\ Behind(fetched) /\ now \in Nat
  BY DEF AllInv, TickInv, ReceiverInv
<1>3. step' = "publish" =>
        /\ pending' \in Snapshots /\ Behind(pending)'
        /\ pending'.instances = fetched.instances /\ pending'.life = fetched.life
        /\ pending'.revision = rev /\ pending'.as_of = now
  <2> SUFFICES ASSUME step' = "publish"
               PROVE  /\ pending' \in Snapshots /\ Behind(pending)'
                      /\ pending'.instances = fetched.instances
                      /\ pending'.life = fetched.life
                      /\ pending'.revision = rev /\ pending'.as_of = now
    OBVIOUS
  <2>1. /\ pending'.instances = fetched.instances /\ pending'.life = fetched.life
        /\ pending'.revision = rev /\ pending'.as_of = now
    BY <1>1 DEF Diagnosis
  <2>2. pending' \in Snapshots
    BY <1>1, <1>2, DiagnosisTypes
  <2> QED
    BY <1>2, <2>1, <2>2 DEF Behind, receiver
<1>4. PublishedInv'
  <2> SUFFICES ASSUME published # None PROVE PublishedInv'
    BY DEF PublishedInv
  <2>1. published \in Snapshots /\ Behind(published) /\ Follows(published, fetched)
    BY DEF AllInv, PublishedInv
  <2>2. Behind(published)'
    BY <2>1 DEF Behind, receiver
  <2> QED
    BY <1>1, <1>3, <2>1, <2>2 DEF PublishedInv, Follows
<1> QED
  BY <1>1, <1>3, <1>4

\* A change is counted, and a change of the kept snapshot's evidence it is.
LEMMA RefreshChangedStep ==
  ASSUME AllInv, RefreshChanged
  PROVE  AllInv'
<1>1. /\ step = "diagnose" /\ fetched.instances # fingerprint
      /\ fingerprint' = fetched.instances /\ revision' = revision + 1
      /\ UNCHANGED <<now, receiver, published, cached>> /\ EndTick(revision')
      /\ revision \in Nat /\ revision' \in Nat
      /\ fetched \in Documents /\ fetched.instances \in Evidence /\ Behind(fetched)
  BY DEF RefreshChanged, Changed, AllInv, TickInv, Documents
<1>2. /\ step' \in {"poll", "publish"}
      /\ PublishedInv'
      /\ step' = "publish" =>
           /\ pending' \in Snapshots /\ Behind(pending)'
           /\ pending'.instances = fetched.instances /\ pending'.life = fetched.life
           /\ pending'.revision = revision' /\ pending'.as_of = now
  BY <1>1, EndTickKeeps
<1>3. TickInv'
  BY <1>1, <1>2 DEF TickInv
<1>4. CachedInv'
  <2> SUFFICES ASSUME cached # None
               PROVE  /\ cached.life = life /\ step' # "publish" => CountedSince(store)'
                      /\ step' = "publish" =>
                           /\ cached.life <= pending'.life
                           /\ ~ (/\ cached.life = pending'.life
                                 /\ cached.instances = pending'.instances)
    BY <1>1, <1>2 DEF AllInv, CachedInv, receiver
  <2>1. cached \in Snapshots /\ cached.instances \in Evidence
        /\ cached.life \in Nat /\ life \in Nat /\ fetched.life \in Nat
    BY <1>1 DEF AllInv, CachedInv, Snapshots, Documents, ReceiverInv
  <2>2. ASSUME cached.life = fetched.life
        PROVE  /\ Progressed(cached.instances, fetched.instances)
               /\ fetched.instances # cached.instances
    <3>1. CountedSince(fetched.instances)
      BY <1>1, <2>2 DEF AllInv, CachedInv
    <3>2. Progressed(cached.instances, fetched.instances)
      BY <1>1, <2>1, <3>1, ProgressedTwice DEF CountedSince
    <3>3. ASSUME fetched.instances = cached.instances PROVE FALSE
      BY <1>1, <2>1, <3>1, <3>3, ProgressHasNoCycle DEF CountedSince
    <3> QED
      BY <3>2, <3>3
  <2>3. cached.life <= fetched.life /\ fetched.life <= life
    BY <1>1 DEF AllInv, CachedInv, Behind
  <2>4. ASSUME cached.life = life PROVE CountedSince(store)'
    <3>1. cached.life = fetched.life /\ fetched.life = life
      BY <2>1, <2>3, <2>4
    <3>2. Progressed(fetched.instances, store)
      BY <1>1, <3>1 DEF Behind
    <3> QED
      BY <1>1, <2>2, <3>1, <3>2 DEF CountedSince, receiver
  <2> QED
    BY <1>2, <2>2, <2>3, <2>4
<1> QED
  BY <1>1, <1>2, <1>3, <1>4, ReceiverKept DEF AllInv

\* Unchanged evidence is diagnosed again for a reason.
LEMMA RefreshUnchangedStep ==
  ASSUME AllInv, RefreshUnchanged
  PROVE  AllInv'
<1>1. /\ step = "diagnose" /\ fetched.instances = fingerprint /\ ~ Current
      /\ UNCHANGED <<fingerprint, revision>>
      /\ UNCHANGED <<now, receiver, published, cached>> /\ EndTick(revision)
      /\ revision \in Nat /\ fetched \in Documents /\ Behind(fetched) /\ now \in Nat
  BY DEF RefreshUnchanged, Changed, AllInv, TickInv, ReceiverInv
<1>2. /\ step' \in {"poll", "publish"}
      /\ PublishedInv'
      /\ step' = "publish" =>
           /\ pending' \in Snapshots /\ Behind(pending)'
           /\ pending'.instances = fetched.instances /\ pending'.life = fetched.life
           /\ pending'.revision = revision' /\ pending'.as_of = now
  BY <1>1, EndTickKeeps
<1>3. TickInv'
  BY <1>1, <1>2 DEF AllInv, TickInv
<1>4. CachedInv'
  <2> SUFFICES ASSUME cached # None
               PROVE  /\ cached.life = life => CountedSince(store)'
                      /\ step' = "publish" =>
                           /\ cached.life <= pending'.life
                           /\ /\ cached.life = pending'.life
                              /\ cached.instances = pending'.instances
                              => Reason(cached, pending')
    BY <1>1, <1>2 DEF AllInv, CachedInv, receiver, Reason
  <2>1. cached.life = life => CountedSince(store)'
    BY <1>1 DEF AllInv, CachedInv, CountedSince, receiver
  <2>2. ASSUME step' = "publish", cached.life = pending'.life,
               cached.instances = pending'.instances
        PROVE  Reason(cached, pending')
    <3>1. CountedSince(fetched.instances)
      BY <1>1, <1>2, <2>2 DEF AllInv, CachedInv
    <3>2. cached.revision = revision
      BY <1>1, <1>2, <2>2, <3>1 DEF CountedSince
    <3>3. ~ (now >= cached.as_of) \/ Due
      BY <1>1, <3>2 DEF Current
    <3>4. cached.as_of \in Nat /\ cached.next \subseteq Nat
      BY DEF AllInv, CachedInv, Snapshots
    <3> QED
      BY <1>1, <1>2, <2>2, <3>3, <3>4 DEF Reason, Due
  <2>3. step' = "publish" => cached.life <= pending'.life
    BY <1>1, <1>2 DEF AllInv, CachedInv
  <2> QED
    BY <2>1, <2>2, <2>3
<1> QED
  BY <1>1, <1>2, <1>3, <1>4, ReceiverKept DEF AllInv

\* A tick with nothing to do.
LEMMA KeepCurrentStep ==
  ASSUME AllInv, KeepCurrent
  PROVE  AllInv'
<1>1. /\ step = "diagnose" /\ step' = "poll"
      /\ UNCHANGED <<now, receiver, published, fingerprint, revision, cached>>
  BY DEF KeepCurrent, engine
<1>2. TickInv'
  BY <1>1 DEF AllInv, TickInv
<1>3. PublishedInv'
  BY <1>1 DEF AllInv, PublishedInv, Behind, receiver
<1>4. CachedInv'
  BY <1>1 DEF AllInv, CachedInv, CountedSince, receiver
<1> QED
  BY <1>1, <1>2, <1>3, <1>4, ReceiverKept DEF AllInv

\* What was published is what the watcher keeps.
LEMMA PublishStep ==
  ASSUME AllInv, Publish
  PROVE  AllInv'
<1>1. /\ step = "publish" /\ step' = "poll"
      /\ published' = pending /\ cached' = pending
      /\ UNCHANGED <<now, receiver, fingerprint, revision>>
      /\ pending \in Snapshots /\ Behind(pending)
      /\ pending.instances = fingerprint /\ pending.revision = revision
  BY DEF Publish, AllInv, TickInv, CachedInv
<1>2. TickInv'
  BY <1>1 DEF AllInv, TickInv
<1>3. PublishedInv'
  BY <1>1 DEF PublishedInv, Behind, receiver
<1>4. CachedInv'
  <2>1. pending.life = life => CountedSince(store)'
    BY <1>1, ProgressedSame DEF CountedSince, Behind, receiver, Snapshots
  <2> QED
    BY <1>1, <2>1 DEF CachedInv, Behind, receiver
<1> QED
  BY <1>1, <1>2, <1>3, <1>4, ReceiverKept DEF AllInv

\* The invariant holds, whatever arrives, fails or is restarted.
THEOREM LiveInvariant == Spec => []AllInv
<1>1. AllInv /\ [Next]_vars => AllInv'
  <2> SUFFICES ASSUME AllInv, [Next]_vars PROVE AllInv'
    OBVIOUS
  <2>1. CASE \E r \in Requests : Ingest(r)
    BY <2>1, IngestStep
  <2>2. CASE Watch
    BY <2>2, FetchStep, RefreshChangedStep, RefreshUnchangedStep, KeepCurrentStep,
       PublishStep DEF Watch
  <2>3. CASE Advance \/ SetClockBack
    BY <2>3, ClockStep
  <2>4. CASE RestartReceiver
    BY <2>4, RestartReceiverStep
  <2>5. CASE RestartWatcher
    BY <2>5, RestartWatcherStep
  <2>6. CASE UNCHANGED vars
    BY <2>6 DEF vars, receiver, watcher, engine, AllInv, ReceiverInv, TickInv,
       PublishedInv, CachedInv, Behind, Follows, CountedSince, Reason,
       EvidenceFileIsCurrent
  <2> QED
    BY <2>1, <2>2, <2>3, <2>4, <2>5, <2>6 DEF Next
<1> QED
  BY <1>1, AllInitially, PTL DEF Spec

-----------------------------------------------------------------------------
(* Theorems *)

\* StoreIsNewest: the receiver holds the newest accepted instance of each
\* observation and scope, in whatever order they came.
THEOREM StoreIsAlwaysNewest == Spec => []StoreIsNewest
<1>1. AllInv => StoreIsNewest
  BY DEF AllInv, ReceiverInv, Newest, Functional, StoreIsNewest
<1> QED
  BY <1>1, LiveInvariant, PTL

\* EvidenceFileIsCurrent: the receiver's file is what GET /evidence answers.
THEOREM EvidenceFileIsAlwaysCurrent == Spec => []EvidenceFileIsCurrent
<1>1. AllInv => EvidenceFileIsCurrent
  BY DEF AllInv, ReceiverInv
<1> QED
  BY <1>1, LiveInvariant, PTL

\* A step that changes the published diagnosis is a publication.
LEMMA OnlyPublishPublishes ==
  ASSUME [Next]_vars, published' # published
  PROVE  Publish
<1>1. CASE \E r \in Requests : Ingest(r)
  BY <1>1 DEF Ingest
<1>2. CASE Watch
  BY <1>2 DEF Watch, Fetch, RefreshChanged, RefreshUnchanged, KeepCurrent
<1>3. CASE Advance \/ SetClockBack \/ RestartReceiver \/ RestartWatcher
  BY <1>3 DEF Advance, SetClockBack, RestartReceiver, RestartWatcher
<1> QED
  BY <1>1, <1>2, <1>3 DEF Next, vars

\* PublishedNeverRollsBack: a published diagnosis never shows evidence older than
\* one published before it while one receiver lives.
THEOREM PublishedProgresses == Spec => PublishedNeverRollsBack
<1>1. ASSUME AllInv, [Next]_vars, published' # published, published # None,
             published'.life = published.life,
             NEW i \in published.instances, NEW j \in published'.instances, i.key = j.key
      PROVE  ~ Newer(i, j)
  <2>1. step = "publish" /\ published' = pending
    BY <1>1, OnlyPublishPublishes DEF Publish
  <2>2. Progressed(published.instances, pending.instances)
    BY <1>1, <2>1 DEF AllInv, PublishedInv, Follows
  <2>3. published.instances \in Evidence /\ pending.instances \in Evidence
    BY <1>1, <2>1 DEF AllInv, TickInv, PublishedInv, Snapshots
  <2> QED
    BY <1>1, <2>1, <2>2, <2>3, ProgressShowsNothingOlder
<1>2. AllInv /\ [Next]_vars =>
        [/\ published # None
         /\ published'.life = published.life
         => \A i \in published.instances, j \in published'.instances :
              i.key = j.key => ~ Newer(i, j)]_published
  BY <1>1
<1> QED
  BY <1>2, LiveInvariant, PTL DEF Spec, PublishedNeverRollsBack

\* RecomputeHasAReason: unchanged evidence is diagnosed again only when a
\* transition is due or the clock was set back.
THEOREM RecomputeAlwaysHasAReason == Spec => RecomputeHasAReason
<1>1. ASSUME AllInv, [Next]_vars, published' # published, cached # None,
             published'.life = cached.life, published'.instances = cached.instances
      PROVE  \/ \E t \in cached.next : t <= published'.as_of
             \/ published'.as_of < cached.as_of
  <2>1. step = "publish" /\ published' = pending
    BY <1>1, OnlyPublishPublishes DEF Publish
  <2> QED
    BY <1>1, <2>1 DEF AllInv, CachedInv, Reason
<1>2. AllInv /\ [Next]_vars =>
        [/\ cached # None
         /\ published'.life = cached.life
         /\ published'.instances = cached.instances
         => \/ \E t \in cached.next : t <= published'.as_of
            \/ published'.as_of < cached.as_of]_published
  BY <1>1
<1> QED
  BY <1>2, LiveInvariant, PTL DEF Spec, RecomputeHasAReason
=============================================================================
