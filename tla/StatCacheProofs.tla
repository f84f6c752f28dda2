-------------------------- MODULE StatCacheProofs --------------------------
(***************************************************************************)
(* Proofs about StatCache for any number of threads and paths and any      *)
(* limits: its counter and its memory are bounded, and so is the staleness *)
(* of its answers.                                                         *)
(***************************************************************************)
EXTENDS StatCache, FiniteSetTheorems, TLAPS

EntryType == {NoEntry} \cup [info : Versions, expires : TTL..(MaxClock + TTL)]

\* What TypeOK says of everything but the counter.
CacheType ==
  /\ clock \in 0..MaxClock
  /\ file \in [Paths -> Versions]
  /\ until \in [Paths -> [Versions -> {None} \cup 0..MaxClock]]
  /\ current \in Maps
  /\ entry \in [Maps -> [Paths -> EntryType]]
  /\ pc \in [Threads -> {"idle", "map", "lookup", "stat", "swap", "count",
                         "reset", "zero"}]
  /\ now \in [Threads -> 0..MaxClock] /\ path \in [Threads -> Paths \cup {NoPath}]
  /\ map \in [Threads -> Maps] /\ info \in [Threads -> {None} \cup Versions]

\* A thread inside cachedStat has a path, and before it stores a result, one.
Equipped ==
  \A t \in Threads :
    /\ pc[t] \in {"map", "lookup", "stat", "swap"} => path[t] \in Paths
    /\ pc[t] = "swap" => info[t] \in Versions

\* Threads that found the limit exceeded and have not zeroed the counter.
Resetting == {t \in Threads : pc[t] \in {"reset", "zero"}}

\* Each of them stands for at most one count above the limit.
CountInv == size \in Nat /\ size <= MaxEntries + Cardinality(Resetting)

\* Version v of path p was still current at time a.
TrueAt(p, v, a) == until[p][v] = None \/ until[p][v] >= a

\* No thread and no entry comes from the future.
PastInv ==
  /\ \A t \in Threads : now[t] <= clock
  /\ \A m \in Maps, p \in Paths :
       entry[m][p] # NoEntry => entry[m][p].expires - TTL <= clock

\* Versions end when they are replaced.
EndInv == \A p \in Paths, v \in Versions : v >= file[p] => until[p][v] = None

\* What is stored, or about to be, was true a TTL before it expires.
StoredInv ==
  \A m \in Maps, p \in Paths :
    entry[m][p] # NoEntry => TrueAt(p, entry[m][p].info, entry[m][p].expires - TTL)
HeldInv == \A t \in Threads : pc[t] = "swap" => TrueAt(path[t], info[t], now[t])

TruthInv == PastInv /\ EndInv /\ StoredInv /\ HeldInv

----------------------------------------------------------------------------
\* Cardinalities of sets of threads are numbers.
LEMMA ThreadsFinite ==
  /\ Cardinality(Threads) \in Nat
  /\ \A S \in SUBSET Threads : IsFiniteSet(S) /\ Cardinality(S) \in Nat
                               /\ Cardinality(S) <= Cardinality(Threads)
  BY CacheAssumption, FS_Subset, FS_CardinalityType

\* The first states are well typed.
LEMMA CacheInit == ASSUME Init PROVE CacheType /\ Equipped
<1>1. 0 \in Maps
  BY ThreadsFinite DEF Maps
<1>2. Empty \in [Paths -> EntryType]
  BY DEF Empty, EntryType
<1> QED BY <1>1, <1>2, CacheAssumption DEF Init, CacheType, Equipped, Versions, None

\* Every step keeps the types.
LEMMA CacheTypes ==
  ASSUME CacheType, Equipped, [Next]_vars
  PROVE  CacheType' /\ Equipped'
<1> USE DEF locals
<1>0. 0 \in Maps
  BY ThreadsFinite DEF Maps
<1>1. CASE Tick
  BY <1>1, CacheAssumption DEF Tick, CacheType, Equipped
<1>2. ASSUME NEW p \in Paths, Change(p) PROVE CacheType' /\ Equipped'
  <2>1. file[p] + 1 \in Versions
    BY <1>2, CacheAssumption DEF Change, CacheType, Versions
  <2>2. file' \in [Paths -> Versions]
    BY <1>2, <2>1 DEF Change, CacheType
  <2>3. until' \in [Paths -> [Versions -> {None} \cup 0..MaxClock]]
    BY <1>2 DEF Change, CacheType
  <2> QED BY <1>2, <2>2, <2>3 DEF Change, CacheType, Equipped
<1>3. ASSUME NEW t \in Threads, Thread(t) PROVE CacheType' /\ Equipped'
  <2>0. ASSUME Return(t)
        PROVE /\ pc' \in [Threads -> {"idle", "map", "lookup", "stat", "swap",
                                      "count", "reset", "zero"}]
              /\ now' \in [Threads -> 0..MaxClock]
              /\ path' \in [Threads -> Paths \cup {NoPath}]
              /\ map' \in [Threads -> Maps] /\ info' \in [Threads -> {None} \cup Versions]
              /\ Equipped'
    BY <1>0, <2>0, CacheAssumption DEF Return, CacheType, Equipped
  <2>1. ASSUME NEW p \in Paths, Call(t, p) PROVE CacheType' /\ Equipped'
    BY <2>1 DEF Call, CacheType, Equipped
  <2>2. CASE LoadMap(t)
    BY <2>2 DEF LoadMap, CacheType, Equipped
  <2>3. CASE Hit(t)
    BY <2>3, <2>0 DEF Hit, CacheType
  <2>4. CASE Miss(t)
    BY <2>4 DEF Miss, CacheType, Equipped
  <2>5. CASE Stat(t)
    <3>1. file[path[t]] \in Versions
      BY <2>5 DEF Stat, CacheType, Equipped
    <3> QED BY <2>5, <3>1 DEF Stat, CacheType, Equipped
  <2>6. CASE Swap(t)
    <3>1. NewEntry(t) \in EntryType
      BY <2>6, CacheAssumption DEF Swap, NewEntry, EntryType, CacheType, Equipped
    <3>2. entry' \in [Maps -> [Paths -> EntryType]]
      BY <2>6, <3>1 DEF Swap, CacheType
    <3>3. CASE Return(t)
      BY <2>6, <2>0, <3>2, <3>3 DEF Swap, CacheType
    <3>4. CASE pc' = [pc EXCEPT ![t] = "count"] /\ UNCHANGED locals
      BY <2>6, <3>2, <3>4 DEF Swap, CacheType, Equipped
    <3> QED BY <2>6, <3>3, <3>4 DEF Swap
  <2>7. CASE CountEntry(t)
    <3>1. CASE Return(t)
      BY <2>7, <2>0, <3>1 DEF CountEntry, CacheType
    <3>2. CASE pc' = [pc EXCEPT ![t] = "reset"] /\ UNCHANGED locals
      BY <2>7, <3>2 DEF CountEntry, CacheType, Equipped
    <3> QED BY <2>7, <3>1, <3>2 DEF CountEntry
  <2>8. CASE StoreMap(t)
    <3>1. current' \in Maps
      BY <2>8 DEF StoreMap, Unused
    <3>2. Empty \in [Paths -> EntryType]
      BY DEF Empty, EntryType
    <3>3. entry' \in [Maps -> [Paths -> EntryType]]
      BY <2>8, <3>2 DEF StoreMap, CacheType
    <3> QED BY <2>8, <3>1, <3>3 DEF StoreMap, CacheType, Equipped
  <2>9. CASE StoreSize(t)
    BY <2>9, <2>0 DEF StoreSize, CacheType
  <2> QED BY <1>3, <2>1, <2>2, <2>3, <2>4, <2>5, <2>6, <2>7, <2>8, <2>9 DEF Thread
<1>4. CASE UNCHANGED vars
  BY <1>4 DEF vars, CacheType, Equipped
<1> QED BY <1>1, <1>2, <1>3, <1>4, CacheAssumption DEF Next

----------------------------------------------------------------------------
\* A thread that starts a reset makes up for the count it found too high.
LEMMA Counted ==
  ASSUME CacheType, CountInv, [Next]_vars
  PROVE  CountInv'
<1> USE DEF locals
<1>0. Resetting \in SUBSET Threads /\ Resetting' \in SUBSET Threads
  BY DEF Resetting
<1>1. CASE UNCHANGED size /\ Resetting' = Resetting
  BY <1>1 DEF CountInv
<1>2. CASE Tick \/ (\E p \in Paths : Change(p)) \/ UNCHANGED vars
  BY <1>1, <1>2 DEF Tick, Change, vars, Resetting
<1>3. ASSUME NEW t \in Threads, Thread(t) PROVE CountInv'
  <2>1. CASE \/ (\E p \in Paths : Call(t, p)) \/ LoadMap(t) \/ Hit(t) \/ Miss(t)
             \/ Stat(t) \/ Swap(t) \/ StoreMap(t)
    <3>1. UNCHANGED size
      BY <2>1 DEF Call, LoadMap, Hit, Miss, Stat, Swap, StoreMap
    <3>2. /\ pc' = [pc EXCEPT ![t] = pc'[t]]
          /\ pc[t] \in {"reset", "zero"} <=> pc'[t] \in {"reset", "zero"}
      BY <2>1 DEF Call, LoadMap, Hit, Miss, Stat, Swap, StoreMap, Return, CacheType
    <3>3. Resetting' = Resetting
      BY <3>2 DEF Resetting, CacheType
    <3> QED BY <1>1, <3>1, <3>3
  <2>2. CASE CountEntry(t)
    <3>1. size' = size + 1 /\ size' \in Nat
      BY <2>2 DEF CountEntry, CountInv
    <3>2. CASE Overfull /\ pc' = [pc EXCEPT ![t] = "reset"]
      <4>1. Resetting' = Resetting \cup {t} /\ t \notin Resetting
        BY <2>2, <3>2 DEF CountEntry, Resetting, CacheType
      <4>2. Cardinality(Resetting') = Cardinality(Resetting) + 1
        BY <1>0, <4>1, ThreadsFinite, FS_AddElement
      <4> QED BY <1>0, <3>1, <4>2, ThreadsFinite, CacheAssumption DEF CountInv
    <3>3. CASE ~Overfull
      <4>1. size' <= MaxEntries
        BY <3>1, <3>3, CacheAssumption DEF Overfull
      <4> QED BY <1>0, <3>1, <4>1, ThreadsFinite, CacheAssumption DEF CountInv
    <3> QED BY <2>2, <3>2, <3>3 DEF CountEntry
  <2>3. CASE StoreSize(t)
    BY <1>0, <2>3, ThreadsFinite, CacheAssumption DEF StoreSize, CountInv
  <2> QED BY <1>3, <2>1, <2>2, <2>3 DEF Thread
<1> QED BY <1>2, <1>3, CacheAssumption DEF Next

\* The types follow from the parts.
LEMMA CacheParts == ASSUME CacheType, CountInv PROVE TypeOK
<1>1. Resetting \in SUBSET Threads
  BY DEF Resetting
<1> QED BY <1>1, ThreadsFinite, CacheAssumption
        DEF CacheType, CountInv, TypeOK, EntryType

\* Type correctness; in particular the counter exceeds the limit by at most
\* one count per thread (stat_cache.go:59-61).
THEOREM CacheTypeCorrect == Spec => []TypeOK
<1>1. Init => CacheType /\ Equipped /\ CountInv
  <2> SUFFICES ASSUME Init PROVE CacheType /\ Equipped /\ CountInv
    OBVIOUS
  <2>1. Resetting \in SUBSET Threads
    BY DEF Resetting
  <2>2. CountInv
    BY <2>1, ThreadsFinite, CacheAssumption DEF Init, CountInv
  <2> QED BY <2>2, CacheInit
<1>2. CacheType /\ Equipped /\ CountInv /\ [Next]_vars
        => (CacheType /\ Equipped /\ CountInv)'
  BY CacheTypes, Counted
<1>3. CacheType /\ Equipped /\ CountInv => TypeOK
  BY CacheParts
<1> QED BY <1>1, <1>2, <1>3, PTL DEF Spec

----------------------------------------------------------------------------
\* The first states satisfy TruthInv.
LEMMA TruthInit == ASSUME Init PROVE TruthInv
<1> USE DEF Init
<1>1. \A m \in Maps, p \in Paths : entry[m][p] = NoEntry
  BY DEF Empty
<1>2. EndInv
  BY DEF EndInv
<1> QED BY <1>1, <1>2 DEF TruthInv, PastInv, StoredInv, HeldInv

\* What an entry's fields are.
LEMMA EntryFields ==
  ASSUME CacheType, NEW m \in Maps, NEW p \in Paths, entry[m][p] # NoEntry
  PROVE  /\ entry[m][p].info \in Versions
         /\ entry[m][p].expires \in Int /\ entry[m][p].expires - TTL \in Int
<1>1. entry[m][p] \in EntryType
  BY DEF CacheType
<1>2. entry[m][p] \in [info : Versions, expires : TTL..(MaxClock + TTL)]
  BY <1>1 DEF EntryType
<1>3. entry[m][p].info \in Versions /\ entry[m][p].expires \in TTL..(MaxClock + TTL)
  BY <1>2
<1> QED BY <1>3, CacheAssumption

\* A version that ends now ends after everything that happened before.
LEMMA TruthUnderChange ==
  ASSUME CacheType, Equipped, TruthInv, NEW p \in Paths, Change(p)
  PROVE  TruthInv'
<1> USE DEF locals
<1>1. file[p] \in Versions /\ file'[p] = file[p] + 1 /\ clock \in Nat /\ clock' = clock
  BY CacheAssumption DEF Change, CacheType
<1>2. \A q \in Paths : q # p => file'[q] = file[q] /\ until'[q] = until[q]
  BY DEF Change, CacheType
<1>3. \A v \in Versions : until'[p][v] = IF v = file[p] THEN clock ELSE until[p][v]
  BY <1>1 DEF Change, CacheType
<1>4. \A q \in Paths, v \in Versions, a \in Int :
        TrueAt(q, v, a) /\ a <= clock => TrueAt(q, v, a)'
  BY <1>1, <1>2, <1>3 DEF TrueAt
<1>5. EndInv'
  <2> SUFFICES ASSUME NEW q \in Paths, NEW v \in Versions, v >= file'[q]
               PROVE  until'[q][v] = None
    BY DEF EndInv
  <2>1. CASE q = p
    <3>1. v \in Int /\ file[p] \in Int
      BY <1>1 DEF Versions
    <3>2. v >= file[p] + 1
      BY <1>1, <2>1
    <3>3. v # file[p] /\ v >= file[p]
      BY <3>1, <3>2
    <3>4. until[p][v] = None
      BY <3>3 DEF TruthInv, EndInv
    <3> QED BY <1>3, <2>1, <3>3, <3>4
  <2>2. CASE q # p
    BY <1>2, <2>2 DEF TruthInv, EndInv
  <2> QED BY <2>1, <2>2
<1>6. UNCHANGED <<clock, entry, pc, now, path, map, info>>
  BY DEF Change
<1>7. PastInv'
  BY <1>6 DEF TruthInv, PastInv
<1>8. StoredInv'
  <2> SUFFICES ASSUME NEW m \in Maps, NEW q \in Paths, entry[m][q] # NoEntry
               PROVE  TrueAt(q, entry[m][q].info, entry[m][q].expires - TTL)'
    BY <1>6 DEF StoredInv
  <2>1. entry[m][q].info \in Versions /\ entry[m][q].expires - TTL \in Int
    BY EntryFields
  <2>2. /\ TrueAt(q, entry[m][q].info, entry[m][q].expires - TTL)
        /\ entry[m][q].expires - TTL <= clock
    BY DEF TruthInv, PastInv, StoredInv
  <2> QED BY <1>4, <1>6, <2>1, <2>2 DEF TrueAt
<1>9. HeldInv'
  <2> SUFFICES ASSUME NEW t \in Threads, pc[t] = "swap"
               PROVE  TrueAt(path[t], info[t], now[t])'
    BY <1>6 DEF HeldInv
  <2>1. path[t] \in Paths /\ info[t] \in Versions /\ now[t] \in Int /\ now[t] <= clock
    BY DEF Equipped, CacheType, TruthInv, PastInv
  <2> QED BY <1>4, <1>6, <2>1 DEF TrueAt, TruthInv, HeldInv
<1> QED BY <1>5, <1>7, <1>8, <1>9 DEF TruthInv

\* Every step preserves TruthInv.
LEMMA Truths ==
  ASSUME CacheType, Equipped, TruthInv, [Next]_vars
  PROVE  TruthInv'
<1> USE DEF locals
<1>1. CASE Tick
  <2>1. clock \in Int /\ clock' = clock + 1 /\ \A t \in Threads : now[t] \in Int
    BY <1>1 DEF Tick, CacheType
  <2>2. UNCHANGED <<file, until, entry, pc, now, path, map, info>>
    BY <1>1 DEF Tick
  <2>3. PastInv'
    BY <2>1, <2>2, EntryFields DEF TruthInv, PastInv
  <2> QED BY <2>2, <2>3 DEF TruthInv, EndInv, StoredInv, HeldInv, TrueAt
<1>2. ASSUME NEW p \in Paths, Change(p) PROVE TruthInv'
  BY <1>2, TruthUnderChange
<1>3. ASSUME NEW t \in Threads, Thread(t) PROVE TruthInv'
  <2> USE DEF TruthInv, TrueAt
  <2>0. UNCHANGED <<clock, file, until>>
    BY <1>3 DEF Thread, Call, LoadMap, Hit, Miss, Stat, Swap, CountEntry, StoreMap, StoreSize
  <2>1. EndInv'
    BY <2>0 DEF EndInv
  <2>2. /\ \A u \in Threads \ {t} : pc'[u] = pc[u] /\ path'[u] = path[u]
                                   /\ info'[u] = info[u] /\ now'[u] = now[u]
        /\ now'[t] \in {0, clock, now[t]}
    BY <1>3 DEF Thread, Call, LoadMap, Hit, Miss, Stat, Swap, CountEntry, StoreMap,
                StoreSize, Return, CacheType
  <2>3. \A u \in Threads : now'[u] <= clock'
    <3>1. clock \in Nat /\ 0 <= clock
      BY DEF CacheType
    <3> QED BY <2>0, <2>2, <3>1 DEF PastInv
  <2>4. CASE ~Swap(t)
    <3>1. \A m \in Maps, p \in Paths : entry'[m][p] \in {entry[m][p], NoEntry}
      BY <1>3, <2>4 DEF Thread, Call, LoadMap, Hit, Miss, Stat, CountEntry, StoreMap,
                        StoreSize, Empty
    <3>2. PastInv' /\ StoredInv'
      BY <2>0, <2>3, <3>1 DEF PastInv, StoredInv
    <3>3. HeldInv'
      <4>1. CASE pc'[t] # "swap"
        BY <2>0, <2>2, <4>1 DEF HeldInv
      <4>2. CASE pc'[t] = "swap"
        <5>1. Stat(t)
          BY <1>3, <2>4, <4>2 DEF Thread, Call, LoadMap, Hit, Miss, Stat, CountEntry,
                                  StoreMap, StoreSize, Return, CacheType
        <5>2. path'[t] = path[t] /\ path[t] \in Paths /\ info'[t] = file[path[t]]
          BY <5>1 DEF Stat, CacheType, Equipped
        <5>3. file[path[t]] \in Versions /\ file[path[t]] >= file[path[t]]
          BY <5>2 DEF CacheType, Versions
        <5>4. until[path[t]][file[path[t]]] = None
          BY <5>2, <5>3 DEF EndInv
        <5> QED BY <2>0, <2>2, <5>2, <5>4 DEF HeldInv
      <4> QED BY <4>1, <4>2
    <3> QED BY <2>1, <3>2, <3>3
  <2>5. CASE Swap(t)
    <3>1. /\ pc[t] = "swap" /\ path[t] \in Paths /\ map[t] \in Maps
          /\ now[t] \in Int /\ TTL \in Int
      BY <2>5, CacheAssumption DEF Swap, CacheType, Equipped
    <3>2. /\ entry'[map[t]][path[t]] = NewEntry(t)
          /\ \A m \in Maps, p \in Paths :
               m # map[t] \/ p # path[t] => entry'[m][p] = entry[m][p]
      BY <2>5, <3>1 DEF Swap, CacheType
    <3>3. NewEntry(t).info = info[t] /\ NewEntry(t).expires - TTL = now[t]
      BY <3>1 DEF NewEntry
    <3>4. PastInv'
      BY <2>0, <2>3, <3>1, <3>2, <3>3 DEF PastInv
    <3>5. StoredInv'
      BY <2>0, <3>1, <3>2, <3>3 DEF StoredInv, HeldInv
    <3>6. pc'[t] # "swap"
      BY <2>5 DEF Swap, Return, CacheType
    <3>7. HeldInv'
      BY <2>0, <2>2, <3>6 DEF HeldInv
    <3> QED BY <2>1, <3>4, <3>5, <3>7
  <2> QED BY <2>4, <2>5
<1>4. CASE UNCHANGED vars
  BY <1>4 DEF vars, TruthInv, PastInv, EndInv, StoredInv, HeldInv, TrueAt
<1> QED BY <1>1, <1>2, <1>3, <1>4, CacheAssumption DEF Next

\* Bounded staleness: an answer from the cache was true less than a TTL
\* before the request came (stat_cache.go:10-14).
THEOREM StalenessIsBounded == Spec => StalenessBounded
<1>1. Init => CacheType /\ Equipped /\ TruthInv
  BY CacheInit, TruthInit
<1>2. CacheType /\ Equipped /\ TruthInv /\ [Next]_vars
        => (CacheType /\ Equipped /\ TruthInv)'
  BY CacheTypes, Truths
<1>3. CacheType /\ Equipped /\ TruthInv /\ [Next]_vars =>
        [\A t \in Threads : Hit(t) =>
           LET end == until[path[t]][Cached(t).info]
           IN  end = None \/ end > now[t] - TTL]_vars
  <2> SUFFICES ASSUME CacheType, Equipped, TruthInv, NEW t \in Threads, Hit(t)
               PROVE  \/ until[path[t]][Cached(t).info] = None
                      \/ until[path[t]][Cached(t).info] > now[t] - TTL
    OBVIOUS
  <2>1. Cached(t) \in EntryType /\ Cached(t) # NoEntry /\ now[t] < Cached(t).expires
        /\ path[t] \in Paths /\ map[t] \in Maps
    BY DEF Hit, Fresh, Cached, CacheType, Equipped
  <2>2. TrueAt(path[t], Cached(t).info, Cached(t).expires - TTL)
    BY <2>1 DEF TruthInv, StoredInv, Cached
  <2>3. /\ Cached(t).info \in Versions /\ Cached(t).expires \in Nat
        /\ now[t] \in Nat /\ TTL \in Nat
        /\ until[path[t]][Cached(t).info] \in Int
    BY <2>1, CacheAssumption DEF EntryType, CacheType, None
  <2> QED BY <2>1, <2>2, <2>3 DEF TrueAt
<1> QED BY <1>1, <1>2, <1>3, PTL DEF Spec, StalenessBounded

----------------------------------------------------------------------------
\* What a map holds, and the threads that stand for a difference between this
\* and the counter.
Filled(m) == {p \in Paths : entry[m][p] # NoEntry}
Pending == {t \in Threads : pc[t] \in {"count", "reset"}}
Zeroing == {t \in Threads : pc[t] = "zero"}
Within  == IF size <= MaxEntries THEN size ELSE MaxEntries

\* Every entry of the current map is counted, or its thread is about to count
\* it, or a thread that zeroed the counter late discounted it. Threads that may
\* yet do so are not about to insert; and the first of them, if all may, finds
\* the map empty.
Slack == Cardinality(Threads) - 1 - Cardinality(Zeroing)
MemoryInv ==
  /\ IsFiniteSet(Filled(current))
  /\ IF Zeroing = Threads THEN Filled(current) = {}
     ELSE Cardinality(Filled(current)) <= Within + Cardinality(Pending) + Slack * MaxEntries

\* The products that occur.
LEMMA Products ==
  ASSUME NEW k \in Int, NEW n \in Nat
  PROVE  k * n \in Int /\ (k + 1) * n = k * n + n /\ (k >= 0 => k * n >= 0)
<1>1. k * n \in Int /\ (k + 1) * n = k * n + n
  OBVIOUS
<1>2. ASSUME k >= 0 PROVE k * n >= 0
  BY <1>2
<1> QED BY <1>1, <1>2

\* Sets of threads, and when all are zeroing.
LEMMA ThreadSets ==
  ASSUME CacheType, CountInv
  PROVE  /\ Pending \in SUBSET Threads /\ Zeroing \in SUBSET Threads
         /\ Cardinality(Pending) \in Nat /\ Cardinality(Zeroing) \in Nat
         /\ Cardinality(Pending) + Cardinality(Zeroing) <= Cardinality(Threads)
         /\ Zeroing # Threads => Slack \in Nat
         /\ Slack \in Int /\ Within \in 0..MaxEntries
<1>1. Pending \in SUBSET Threads /\ Zeroing \in SUBSET Threads
  BY DEF Pending, Zeroing
<1>2. IsFiniteSet(Pending) /\ IsFiniteSet(Zeroing) /\ IsFiniteSet(Threads)
  BY <1>1, ThreadsFinite, CacheAssumption
<1>3. Cardinality(Pending) \in Nat /\ Cardinality(Zeroing) \in Nat /\ Cardinality(Threads) \in Nat
  BY <1>1, ThreadsFinite
<1>4. Pending \cap Zeroing = {}
  BY DEF Pending, Zeroing
<1>5. Cardinality(Pending \cup Zeroing) = Cardinality(Pending) + Cardinality(Zeroing)
  <2>1. Cardinality(Pending \cup Zeroing) =
          Cardinality(Pending) + Cardinality(Zeroing) - Cardinality(Pending \cap Zeroing)
    BY <1>2, FS_Union
  <2> QED BY <1>3, <1>4, <2>1, FS_EmptySet
<1>6. Cardinality(Pending \cup Zeroing) <= Cardinality(Threads)
  <2>1. (Pending \cup Zeroing) \in SUBSET Threads
    BY <1>1
  <2> QED BY <2>1, ThreadsFinite
<1>7. ASSUME Zeroing # Threads PROVE Slack \in Nat
  <2>1. Cardinality(Zeroing) # Cardinality(Threads)
    BY <1>1, <1>2, <1>7, FS_Subset
  <2> QED BY <1>1, <1>3, <2>1, ThreadsFinite DEF Slack
<1>8. Slack \in Int /\ Within \in 0..MaxEntries
  BY <1>3, CacheAssumption DEF Slack, Within, CountInv
<1> QED BY <1>1, <1>3, <1>5, <1>6, <1>7, <1>8

\* Every step preserves MemoryInv.
LEMMA Memories ==
  ASSUME CacheType, Equipped, CountInv, MemoryInv, [Next]_vars
  PROVE  MemoryInv'
<1> USE DEF locals
<1>0. CacheType' /\ CountInv'
  BY CacheTypes, Counted
<1>a. /\ Cardinality(Pending) \in Nat /\ Cardinality(Pending') \in Nat
      /\ Cardinality(Zeroing) \in Nat /\ Cardinality(Zeroing') \in Nat
      /\ Cardinality(Threads) \in Nat
      /\ Within \in 0..MaxEntries /\ Within' \in 0..MaxEntries
      /\ Slack \in Int /\ Slack' \in Int /\ (Zeroing' # Threads => Slack' \in Nat)
      /\ MaxEntries \in Nat /\ current \in Maps
      /\ Pending \in SUBSET Threads /\ Zeroing \in SUBSET Threads
  <2>1. Cardinality(Pending') \in Nat /\ Cardinality(Zeroing') \in Nat
        /\ Within' \in 0..MaxEntries
        /\ Slack' \in Int /\ (Zeroing' # Threads => Slack' \in Nat)
    <3> HIDE DEF locals
    <3>1. (/\ Cardinality(Pending) \in Nat /\ Cardinality(Zeroing) \in Nat
           /\ Within \in 0..MaxEntries
           /\ Slack \in Int /\ (Zeroing # Threads => Slack \in Nat))'
      BY <1>0, ThreadSets, PTL
    <3> QED BY <3>1
  <2> QED BY <2>1, ThreadSets, ThreadsFinite, CacheAssumption DEF CacheType
<1>b. Slack * MaxEntries \in Int /\ Slack' * MaxEntries \in Int
  BY <1>a, Products
<1>1. ASSUME Filled(current)' = Filled(current), Pending' = Pending, Zeroing' = Zeroing, size' = size
      PROVE  MemoryInv'
  BY <1>1 DEF MemoryInv, Slack, Within
<1>2. CASE Tick \/ (\E p \in Paths : Change(p)) \/ UNCHANGED vars
  BY <1>1, <1>2 DEF Tick, Change, vars, Filled, Pending, Zeroing
<1>3. ASSUME NEW t \in Threads, Thread(t) PROVE MemoryInv'
  <2>1. CASE (\E p \in Paths : Call(t, p)) \/ LoadMap(t) \/ Hit(t) \/ Miss(t) \/ Stat(t)
    <3>1. UNCHANGED <<entry, current, size>>
      BY <2>1 DEF Call, LoadMap, Hit, Miss, Stat
    <3>2. /\ pc' = [pc EXCEPT ![t] = pc'[t]]
          /\ {pc[t], pc'[t]} \cap {"count", "reset", "zero"} = {}
      BY <2>1 DEF Call, LoadMap, Hit, Miss, Stat, Return, CacheType
    <3>3. Pending' = Pending /\ Zeroing' = Zeroing
      BY <3>2 DEF Pending, Zeroing, CacheType
    <3> QED BY <1>1, <3>1, <3>3 DEF Filled
  <2>2. CASE Swap(t)
    <3>1. /\ pc[t] = "swap" /\ path[t] \in Paths /\ map[t] \in Maps
          /\ current' = current /\ size' = size
          /\ \A p \in Paths : p # path[t] => entry'[current][p] = entry[current][p]
          /\ map[t] # current => entry'[current] = entry[current]
      BY <2>2, <1>a DEF Swap, CacheType, Equipped
    <3>2. Zeroing' = Zeroing /\ Zeroing # Threads
      BY <2>2, <3>1 DEF Swap, Return, Zeroing, CacheType
    <3>3. CASE Cached(t) # NoEntry
      <4>1. pc' = [pc EXCEPT ![t] = "idle"]
        BY <2>2, <3>3 DEF Swap, Return
      <4>2. Pending' = Pending
        BY <3>1, <4>1 DEF Pending, CacheType
      <4>3. Filled(current)' \in SUBSET Filled(current)
        BY <3>1, <3>3 DEF Filled, Cached
      <4>4. IsFiniteSet(Filled(current)') /\ Cardinality(Filled(current)') <= Cardinality(Filled(current))
            /\ Cardinality(Filled(current)') \in Nat /\ Cardinality(Filled(current)) \in Nat
        BY <4>3, FS_Subset, FS_CardinalityType DEF MemoryInv
      <4>5. Slack' = Slack /\ Within' = Within
        BY <3>1, <3>2 DEF Slack, Within
      <4> QED BY <1>a, <1>b, <3>2, <4>2, <4>4, <4>5 DEF MemoryInv
    <3>4. CASE Cached(t) = NoEntry
      <4>1. pc' = [pc EXCEPT ![t] = "count"]
        BY <2>2, <3>4 DEF Swap
      <4>2. Pending' = Pending \cup {t} /\ t \notin Pending
        BY <3>1, <4>1 DEF Pending, CacheType
      <4>3. Cardinality(Pending') = Cardinality(Pending) + 1
        BY <1>a, <4>2, ThreadsFinite, FS_AddElement
      <4>4. Filled(current)' \in SUBSET (Filled(current) \cup {path[t]})
        BY <3>1 DEF Filled
      <4>5. /\ IsFiniteSet(Filled(current) \cup {path[t]})
            /\ Cardinality(Filled(current) \cup {path[t]}) <= Cardinality(Filled(current)) + 1
            /\ Cardinality(Filled(current)) \in Nat
        <5>1. IsFiniteSet(Filled(current))
          BY DEF MemoryInv
        <5>2. Cardinality(Filled(current)) \in Nat
          BY <5>1, FS_CardinalityType
        <5>3. CASE path[t] \in Filled(current)
          <6>1. Filled(current) \cup {path[t]} = Filled(current)
            BY <5>3
          <6>2. Cardinality(Filled(current)) <= Cardinality(Filled(current)) + 1
            BY <5>2
          <6> QED BY Zenon, <5>1, <5>2, <6>1, <6>2
        <5>4. CASE path[t] \notin Filled(current)
          <6>1. /\ IsFiniteSet(Filled(current) \cup {path[t]})
                /\ Cardinality(Filled(current) \cup {path[t]}) = Cardinality(Filled(current)) + 1
            BY <5>1, <5>4, FS_AddElement
          <6> QED BY <5>2, <6>1
        <5> QED BY <5>3, <5>4
      <4>6. /\ IsFiniteSet(Filled(current)') /\ Cardinality(Filled(current)') \in Nat
            /\ Cardinality(Filled(current)') <= Cardinality(Filled(current)) + 1
        BY <4>4, <4>5, FS_Subset, FS_CardinalityType
      <4>7. Slack' = Slack /\ Within' = Within
        BY <3>1, <3>2 DEF Slack, Within
      <4> QED BY <1>a, <1>b, <3>2, <4>3, <4>5, <4>6, <4>7 DEF MemoryInv
    <3> QED BY <3>3, <3>4
  <2>3. CASE CountEntry(t)
    <3>1. /\ pc[t] = "count" /\ size' = size + 1 /\ size \in Nat
          /\ UNCHANGED <<entry, current>>
      BY <2>3 DEF CountEntry, CountInv
    <3>2. Zeroing' = Zeroing /\ Zeroing # Threads
      BY <2>3, <3>1 DEF CountEntry, Return, Zeroing, CacheType
    <3>3. IsFiniteSet(Filled(current)') /\ Cardinality(Filled(current)') \in Nat
          /\ Filled(current)' = Filled(current) /\ Slack' = Slack
      BY <3>1, <3>2, FS_CardinalityType DEF MemoryInv, Filled, Slack
    <3>4. CASE Overfull /\ pc' = [pc EXCEPT ![t] = "reset"]
      <4>1. Pending' = Pending
        BY <3>1, <3>4 DEF Pending, CacheType
      <4>2. Within' >= Within
        BY <3>1, <1>a DEF Within
      <4> QED BY <1>a, <1>b, <3>2, <3>3, <4>1, <4>2 DEF MemoryInv
    <3>5. CASE ~Overfull /\ Return(t)
      <4>1. Pending' = Pending \ {t} /\ t \in Pending
        BY <3>1, <3>5 DEF Return, Pending, CacheType
      <4>2. Cardinality(Pending') = Cardinality(Pending) - 1
        BY <1>a, <4>1, ThreadsFinite, FS_RemoveElement
      <4>3. Within' = Within + 1
        BY <3>1, <3>5, <1>a DEF Within, Overfull
      <4> QED BY <1>a, <1>b, <3>2, <3>3, <4>2, <4>3 DEF MemoryInv
    <3> QED BY <2>3, <3>4, <3>5 DEF CountEntry
  <2>4. CASE StoreMap(t)
    <3>1. current' \notin Held /\ current' \in Maps
      BY <2>4 DEF StoreMap, Unused
    <3>2. entry'[current'] = Empty
      BY <2>4, <3>1 DEF StoreMap
    <3>3. Filled(current)' = {}
      BY <3>2 DEF Filled, Empty
    <3>4. IsFiniteSet(Filled(current)') /\ Cardinality(Filled(current)') = 0
      BY <3>3, FS_EmptySet
    <3>5. ASSUME Zeroing' # Threads PROVE Slack' * MaxEntries >= 0
      <4>1. Slack' \in Int /\ Slack' >= 0 /\ MaxEntries \in Nat
        BY <1>a, <3>5
      <4> HIDE DEF Slack
      <4> QED BY <4>1, Products
    <3> QED BY <1>a, <1>b, <3>3, <3>4, <3>5 DEF MemoryInv
  <2>5. CASE StoreSize(t)
    <3>1. /\ pc[t] = "zero" /\ size' = 0 /\ UNCHANGED <<entry, current>>
          /\ pc' = [pc EXCEPT ![t] = "idle"]
      BY <2>5 DEF StoreSize, Return
    <3>2. Zeroing' = Zeroing \ {t} /\ t \in Zeroing /\ Pending' = Pending
      BY <3>1 DEF Zeroing, Pending, CacheType
    <3>3. Cardinality(Zeroing') = Cardinality(Zeroing) - 1 /\ Zeroing' # Threads
      BY <1>a, <3>2, ThreadsFinite, FS_RemoveElement
    <3>4. Slack' = Slack + 1 /\ Within' = 0
      BY <1>a, <3>1, <3>3 DEF Slack, Within
    <3>5. Slack' * MaxEntries = Slack * MaxEntries + MaxEntries /\ Slack' * MaxEntries >= 0
      BY <1>a, <3>3, <3>4, Products
    <3>6. Filled(current)' = Filled(current)
      BY <3>1 DEF Filled
    <3>7. CASE Zeroing = Threads
      BY <1>a, <1>b, <3>3, <3>4, <3>5, <3>6, <3>7, FS_EmptySet DEF MemoryInv
    <3>8. CASE Zeroing # Threads
      <4>1. Cardinality(Filled(current)) \in Nat
        BY FS_CardinalityType DEF MemoryInv
      <4> QED BY <1>a, <1>b, <3>2, <3>3, <3>4, <3>5, <3>6, <3>8, <4>1 DEF MemoryInv
    <3> QED BY <3>7, <3>8
  <2> QED BY <1>3, <2>1, <2>2, <2>3, <2>4, <2>5 DEF Thread
<1> QED BY <1>2, <1>3, CacheAssumption DEF Next

\* The bound follows: who is pending is not zeroing.
LEMMA MemoryFollows ==
  ASSUME CacheType, CountInv, MemoryInv
  PROVE  MemoryBounded
<1> DEFINE T == Cardinality(Threads)
           Z == Cardinality(Zeroing)
<1>1. T \in Nat /\ Z \in Nat /\ Z <= T /\ MaxEntries \in Nat /\ Cardinality(Pending) \in Nat
      /\ Cardinality(Pending) + Z <= T /\ Within \in 0..MaxEntries
  BY ThreadSets, ThreadsFinite, CacheAssumption
<1>2. Cardinality(Filled(current)) \in Nat
  BY FS_CardinalityType DEF MemoryInv
<1>3. T * (MaxEntries + 1) \in Nat
  BY <1>1
<1>4. CASE Zeroing = Threads
  BY <1>3, <1>4, FS_EmptySet DEF MemoryInv, MemoryBounded, Filled
<1>5. CASE Zeroing # Threads
  <2>1. Slack = T - 1 - Z /\ Slack \in Int
    BY <1>1 DEF Slack
  <2>2. (T - Z) * MaxEntries = Slack * MaxEntries + MaxEntries /\ Slack * MaxEntries \in Int
    BY <1>1, <2>1, Products
  <2>3. T * (MaxEntries + 1) = (T - Z) * MaxEntries + Z * MaxEntries + T
        /\ Z * MaxEntries >= 0 /\ (T - Z) * MaxEntries \in Int /\ Z * MaxEntries \in Int
    BY <1>1
  <2> HIDE DEF T, Z
  <2>4. Cardinality(Filled(current)) <= T * (MaxEntries + 1)
    <3>1. Cardinality(Filled(current)) <= Within + Cardinality(Pending) + Slack * MaxEntries
      BY <1>5 DEF MemoryInv
    <3> QED BY <1>1, <1>2, <1>3, <2>2, <2>3, <3>1
  <2> QED BY <2>4 DEF MemoryBounded, Filled, T
<1> QED BY <1>4, <1>5

\* Bounded memory (stat_cache.go:17-19): however the resets and insertions of
\* the threads interleave, the current map never holds more than the limit and
\* one entry for each thread.
THEOREM MemoryIsBounded == Spec => []MemoryBounded
<1>1. Init => CacheType /\ Equipped /\ CountInv /\ MemoryInv
  <2> SUFFICES ASSUME Init PROVE CacheType /\ Equipped /\ CountInv /\ MemoryInv
    OBVIOUS
  <2>1. Resetting = {} /\ Pending = {} /\ Zeroing = {} /\ Filled(current) = {}
    <3>1. 0 \in Maps
      BY ThreadsFinite DEF Maps
    <3> QED BY <3>1 DEF Init, Resetting, Pending, Zeroing, Filled, Empty
  <2>2. CountInv
    BY <2>1, FS_EmptySet, CacheAssumption DEF Init, CountInv
  <2>3. CacheType /\ Equipped
    BY CacheInit
  <2>4. Zeroing # Threads => Slack * MaxEntries >= 0 /\ Slack * MaxEntries \in Int
    BY <2>2, <2>3, ThreadSets, Products, CacheAssumption
  <2>5. MemoryInv
    BY <2>1, <2>2, <2>3, <2>4, ThreadSets, FS_EmptySet, CacheAssumption DEF MemoryInv
  <2> QED BY <2>2, <2>3, <2>5
<1>2. CacheType /\ Equipped /\ CountInv /\ MemoryInv /\ [Next]_vars
        => (CacheType /\ Equipped /\ CountInv /\ MemoryInv)'
  BY CacheTypes, Counted, Memories
<1>3. CacheType /\ CountInv /\ MemoryInv => MemoryBounded
  BY MemoryFollows
<1> QED BY <1>1, <1>2, <1>3, PTL DEF Spec
=============================================================================
