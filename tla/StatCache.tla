----------------------------- MODULE StatCache -----------------------------
(***************************************************************************)
(* cachedStat: a cache of os.Stat results shared by all requests without a *)
(* lock: an atomic pointer to a map, a counter, and a reset that replaces  *)
(* the one and zeroes the other in two steps.                              *)
(*                                                                         *)
(* What os.Stat returns for a path, absence included, is a version.        *)
(***************************************************************************)
EXTENDS Integers, FiniteSets

CONSTANTS
  Threads,    \* requests that may be in cachedStat at the same time
  Paths,
  Changing,   \* bound: the paths whose file may change
  TTL,        \* statCacheTTL
  MaxEntries, \* statCacheMaxEntries
  MaxClock,   \* bound of the clock
  MaxChanges, \* bound: number of changes of the files
  NoPath      \* the path of a thread that has none

ASSUME CacheAssumption ==
  /\ TTL \in Nat \ {0} /\ MaxEntries \in Nat
  /\ MaxClock \in Nat /\ MaxChanges \in Nat
  /\ IsFiniteSet(Threads) /\ NoPath \notin Paths /\ Changing \subseteq Paths

None == -1
\* A map that nobody refers to any more is as good as a new one.
Maps == 0..Cardinality(Threads)
Versions == 0..MaxChanges

VARIABLES
  clock,
  file,     \* per path: its version
  until,    \* per path and version: when it was replaced, or None
  current,  \* statCacheMap: the map that new calls use
  entry,    \* per map and path: a statEntry or NoEntry
  size,     \* statCacheSize
  pc,       \* per thread: control point in cachedStat
  now, path, map, info  \* per thread: its locals

NoEntry == [info |-> None, expires |-> None]
Empty   == [p \in Paths |-> NoEntry]

locals == <<now, path, map, info>>
vars == <<clock, file, until, current, entry, size, pc, locals>>

Init ==
  /\ clock = 0
  /\ file = [p \in Paths |-> 0]
  /\ until = [p \in Paths |-> [v \in Versions |-> None]]
  /\ current = 0
  /\ entry = [m \in Maps |-> Empty]
  /\ size = 0
  /\ pc = [t \in Threads |-> "idle"]
  /\ now = [t \in Threads |-> 0] /\ path = [t \in Threads |-> NoPath]
  /\ map = [t \in Threads |-> 0] /\ info = [t \in Threads |-> None]

----------------------------------------------------------------------------
(* The environment *)

Tick ==
  /\ clock < MaxClock
  /\ clock' = clock + 1
  /\ UNCHANGED <<file, until, current, entry, size, pc, locals>>

\* Somebody creates, replaces or removes the file.
Change(p) ==
  /\ file[p] < MaxChanges
  /\ file' = [file EXCEPT ![p] = @ + 1]
  /\ until' = [until EXCEPT ![p][file[p]] = clock]
  /\ UNCHANGED <<clock, current, entry, size, pc, locals>>

----------------------------------------------------------------------------
(* cachedStat *)

\* The call returns: its locals vanish.
Return(t) ==
  /\ pc' = [pc EXCEPT ![t] = "idle"]
  /\ now' = [now EXCEPT ![t] = 0] /\ path' = [path EXCEPT ![t] = NoPath]
  /\ map' = [map EXCEPT ![t] = 0] /\ info' = [info EXCEPT ![t] = None]

\* now := time.Now()
Call(t, p) ==
  /\ pc[t] = "idle"
  /\ now' = [now EXCEPT ![t] = clock]
  /\ path' = [path EXCEPT ![t] = p]
  /\ pc' = [pc EXCEPT ![t] = "map"]
  /\ UNCHANGED <<clock, file, until, current, entry, size, map, info>>

\* m := statCacheMap.Load()
LoadMap(t) ==
  /\ pc[t] = "map"
  /\ map' = [map EXCEPT ![t] = current]
  /\ pc' = [pc EXCEPT ![t] = "lookup"]
  /\ UNCHANGED <<clock, file, until, current, entry, size, now, path, info>>

Cached(t) == entry[map[t]][path[t]]

Fresh(t) == Cached(t) # NoEntry /\ now[t] < Cached(t).expires

\* m.Load(path): return an entry that has not expired.
Hit(t) ==
  /\ pc[t] = "lookup" /\ Fresh(t)
  /\ Return(t)
  /\ UNCHANGED <<clock, file, until, current, entry, size>>

Miss(t) ==
  /\ pc[t] = "lookup" /\ ~Fresh(t)
  /\ pc' = [pc EXCEPT ![t] = "stat"]
  /\ UNCHANGED <<clock, file, until, current, entry, size, locals>>

\* os.Stat(path)
Stat(t) ==
  /\ pc[t] = "stat"
  /\ info' = [info EXCEPT ![t] = file[path[t]]]
  /\ pc' = [pc EXCEPT ![t] = "swap"]
  /\ UNCHANGED <<clock, file, until, current, entry, size, now, path, map>>

TtlessEntry(t) == [info |-> info[t], expires |-> now[t]]  \* fault: no TTL
FaultyEntry(t) == [info |-> info[t], expires |-> clock + TTL]  \* fault: time.Now() again
NewEntry(t) == [info |-> info[t], expires |-> now[t] + TTL]

\* m.Swap(path, e): only a path that was not in the map is counted.
Swap(t) ==
  /\ pc[t] = "swap"
  /\ entry' = [entry EXCEPT ![map[t]][path[t]] = NewEntry(t)]
  /\ \/ /\ Cached(t) # NoEntry
        /\ Return(t)
     \/ /\ Cached(t) = NoEntry
        /\ pc' = [pc EXCEPT ![t] = "count"]
        /\ UNCHANGED locals
  /\ UNCHANGED <<clock, file, until, current, size>>

OnceOverfull == size' = MaxEntries  \* fault: only the entry that meets the limit resets
Overfull == size' > MaxEntries

\* statCacheSize.Add(1) > statCacheMaxEntries
CountEntry(t) ==
  /\ pc[t] = "count"
  /\ size' = size + 1
  /\ \/ /\ Overfull
        /\ pc' = [pc EXCEPT ![t] = "reset"]
        /\ UNCHANGED locals
     \/ /\ ~Overfull
        /\ Return(t)
  /\ UNCHANGED <<clock, file, until, current, entry>>

\* statCacheMap.Store(&sync.Map{})
Held == {map[u] : u \in {w \in Threads : pc[w] \in {"lookup", "stat", "swap"}}}
Unused == Maps \ (Held \cup {current})
StoreMap(t) ==
  /\ pc[t] = "reset"
  /\ \E m \in Unused : (\A n \in Unused : m <= n) /\ current' = m
  /\ entry' = [m \in Maps |-> IF m \in Held THEN entry[m] ELSE Empty]
  /\ pc' = [pc EXCEPT ![t] = "zero"]
  /\ UNCHANGED <<clock, file, until, size, locals>>

\* statCacheSize.Store(0)
StoreSize(t) ==
  /\ pc[t] = "zero"
  /\ size' = 0
  /\ Return(t)
  /\ UNCHANGED <<clock, file, until, current, entry>>

----------------------------------------------------------------------------
Thread(t) ==
  \/ \E p \in Paths : Call(t, p)
  \/ LoadMap(t) \/ Hit(t) \/ Miss(t) \/ Stat(t) \/ Swap(t)
  \/ CountEntry(t) \/ StoreMap(t) \/ StoreSize(t)

Next ==
  \/ Tick
  \/ \E p \in Changing : Change(p)
  \/ \E t \in Threads : Thread(t)

Spec == Init /\ [][Next]_vars

----------------------------------------------------------------------------
(* Properties *)

\* Between a reset's two stores, each thread overshoots the limit at most
\* once.
TypeOK ==
  /\ clock \in 0..MaxClock
  /\ file \in [Paths -> Versions]
  /\ until \in [Paths -> [Versions -> {None} \cup 0..MaxClock]]
  /\ current \in Maps
  /\ entry \in [Maps -> [Paths -> {NoEntry} \cup
                [info : Versions, expires : TTL..(MaxClock + TTL)]]]
  /\ size \in 0..(MaxEntries + Cardinality(Threads))
  /\ pc \in [Threads -> {"idle", "map", "lookup", "stat", "swap", "count",
                         "reset", "zero"}]
  /\ now \in [Threads -> 0..MaxClock] /\ path \in [Threads -> Paths \cup {NoPath}]
  /\ map \in [Threads -> Maps] /\ info \in [Threads -> {None} \cup Versions]

\* Staleness is bounded (stat_cache.go:10-14): the answer a request takes
\* from the cache was still true less than a TTL before the request came,
\* however long threads pause between their steps, whichever of them fills
\* the entry last and however many maps are alive.
StalenessBounded ==
  [][\A t \in Threads : Hit(t) =>
       LET end == until[path[t]][Cached(t).info]
       IN  end = None \/ end > now[t] - TTL]_vars

\* The limit bounds memory usage (stat_cache.go:17-19), although the reset is
\* two stores that race with insertions and other resets: every thread can
\* make the cache exceed it by one more limit, and no more.
MemoryBounded ==
  Cardinality({p \in Paths : entry[current][p] # NoEntry})
    <= Cardinality(Threads) * (MaxEntries + 1)

=============================================================================
