-------------------------- MODULE ContainersProofs --------------------------
(***************************************************************************)
(* Proofs about Containers for any sites, container ports, requests and    *)
(* host ports, and any number of processes: what is recorded of a site is  *)
(* its container, and the exit hook leaves no container behind.            *)
(***************************************************************************)
EXTENDS Containers, WellFoundedInduction, TLAPS

Box    == [port : HostPorts, running : BOOLEAN]
Points == {"idle", "lock", "ps", "build", "run"}
Inner  == {"ps", "build", "run"}

\* The lowest free port is a host port.
LEMMA LowestIsFree == ASSUME FreePorts # {} PROVE LowestPort \in FreePorts
<1>1. FreePorts \subseteq Nat
  BY ContainersAssumption DEF FreePorts
<1>2. PICK x \in FreePorts : \A y \in FreePorts : ~ (<<y, x>> \in OpToRel(<, Nat))
  BY <1>1, WFMin, NatLessThanWellFounded
<1>3. \A y \in FreePorts : ~ (y < x)
  BY <1>1, <1>2, Zenon DEF OpToRel
<1>4. \A y \in FreePorts : x <= y
  BY <1>1, <1>3
<1>5. Min(FreePorts) \in FreePorts
  BY <1>4, Zenon DEF Min
<1> QED BY <1>5 DEF LowestPort

----------------------------------------------------------------------------
(* The inductive invariant *)

Types ==
  /\ life \in {"init", "serve", "drain", "hook", "hooked", "gone"} /\ lives \in 1..MaxLives
  /\ kind \in [Sites -> UNION {ContainerPorts[s] : s \in Sites}]
  /\ \A s \in Sites : kind[s] \in ContainerPorts[s]
  /\ box \in [Names -> Box \cup {None}]
  /\ rec \in [Sites -> [ids : SUBSET Names, port : HostPorts \cup {None}]]
  /\ holder \in Actors \cup {None}
  /\ pc \in [Actors -> Points]
  /\ about \in [Actors -> Sites \cup {None}] /\ picked \in [Actors -> HostPorts \cup {None}]
  /\ todo \subseteq Sites /\ ours \subseteq Names

\* What is recorded is the container of the site.
Recorded ==
  \A s \in Sites : rec[s] # NoRecord =>
    /\ Name(s) \in rec[s].ids /\ \A n \in rec[s].ids : n[1] = s
    /\ box[Name(s)] # None /\ rec[s].port = box[Name(s)].port

\* The holder of the mutex alone is inside, and works for a site of which
\* nothing is recorded.
Locked ==
  /\ \A a \in Actors : pc[a] \in Inner <=> holder = a
  /\ \A a \in Actors : pc[a] # "idle" => about[a] \in Sites
  /\ \A a \in Actors : pc[a] \in Inner => rec[about[a]] = NoRecord
  /\ \A a \in Actors : pc[a] = "run" => picked[a] \in HostPorts

\* A process that has ended holds nothing.
Ended ==
  life = "gone" => rec = [s \in Sites |-> NoRecord] /\ pc = Idle /\ holder = None

\* Until the hook, what is ours is on record; after it, it has been removed or
\* is excused, and so is whatever is being sought.
Before == life \in {"init", "serve", "drain", "hook"}
Kept ==
  /\ Before => \A n \in ours : n[1] \in Sites /\ n = Name(n[1]) /\ rec[n[1]] # NoRecord
  /\ ~Before => \A n \in ours \ excused : cli[n[1]] => box[n] = None
  /\ life = "hooked" =>
       \A a \in Actors : pc[a] \in Inner => Name(about[a]) \in excused

IInv == Types /\ Recorded /\ Locked /\ Ended /\ Kept

----------------------------------------------------------------------------
(* Every step keeps it *)

\* Outside of the mutex: containers that exit, requests and sites to come, the
\* phases of the process up to the hook.
LEMMA OuterKeeps ==
  ASSUME IInv,
         \/ \E n \in Names : ContainerExits(n)
         \/ \E s \in Sites : InitSite(s) \/ \E r \in Requests : Request(r, s)
         \/ Serve \/ Drain \/ ExitPlugins
  PROVE  IInv'
<1> USE DEF IInv, process, actor, Points, Inner
<1>1. ASSUME NEW n \in Names, ContainerExits(n) PROVE IInv'
  <2>1. /\ box[n] \in Box /\ box' = [box EXCEPT ![n] = [box[n] EXCEPT !.running = FALSE]]
        /\ UNCHANGED <<process, rec, holder, actor, todo, ours, excused>>
    BY <1>1 DEF ContainerExits, Types
  <2>2. box'[n] \in Box /\ box'[n] # None /\ box'[n].port = box[n].port /\ box[n] # None
    <3>1. box'[n] = [box[n] EXCEPT !.running = FALSE]
      BY <2>1 DEF Types
    <3>2. box'[n] \in Box /\ box'[n].port = box[n].port
      BY <2>1, <3>1 DEF Box
    <3> QED BY <1>1, <3>2, ContainersAssumption DEF Box, ContainerExits
  <2>3. /\ box' \in [Names -> Box \cup {None}]
        /\ \A m \in Names : /\ box[m] = None <=> box'[m] = None
                            /\ box'[m] # None => box'[m].port = box[m].port
    BY <2>1, <2>2 DEF Types
  <2>4. \A s \in Sites : rec[s] # NoRecord => Name(s) \in Names
    BY DEF Types, Recorded
  <2>5. Types' /\ Recorded' /\ Ended'
    BY <2>1, <2>3, <2>4 DEF Types, Recorded, Ended, Name
  <2>6. Locked'
    BY <2>1 DEF Locked
  <2>7. Kept'
    <3>1. box'[n] = None <=> box[n] = None
      BY <2>2
    <3>2. \A m \in Names : m # n => box'[m] = box[m]
      BY <2>1 DEF Types
    <3> QED BY <2>1, <3>1, <3>2 DEF Kept, Before, Name, Types
  <2> QED BY <2>5, <2>6, <2>7
<1>2. ASSUME NEW s \in Sites, InitSite(s) PROVE IInv'
  BY <1>2, ContainersAssumption DEF InitSite, Types, Recorded, Locked, Ended, Kept, Before, Name, Actors
<1>3. ASSUME NEW s \in Sites, NEW r \in Requests, Request(r, s) PROVE IInv'
  BY <1>3, ContainersAssumption DEF Request, Types, Recorded, Locked, Ended, Kept, Before, Name, Actors
<1>4. CASE Serve \/ Drain \/ ExitPlugins
  BY <1>4 DEF Serve, Drain, ExitPlugins, Types, Recorded, Locked, Ended, Kept, Before, Name
<1> QED BY <1>1, <1>2, <1>3, <1>4

\* Every name of a site is a name of a container.
LEMMA NamesOfSites == ASSUME Types, NEW s \in Sites PROVE Name(s) \in Names /\ Name(s)[1] = s
  BY DEF Types, Name, Names

\* Under the mutex, up to the search for the container.
LEMMA LockKeeps == ASSUME IInv, NEW a \in Actors, Lock(a) PROVE IInv'
<1> USE DEF IInv, process, Points, Inner
<1>1. /\ pc[a] = "lock" /\ life # "gone" /\ holder = None /\ about[a] \in Sites
      /\ UNCHANGED <<process, box, rec, about, picked, todo, ours>>
      /\ excused' = IF life = "hooked" THEN excused \cup {Name(about[a])} ELSE excused
  BY DEF Lock, At, Unlocked, Locked
<1>2. a # None /\ \A b \in Actors : b # None
  BY ContainersAssumption
<1>3. CASE rec[about[a]].ids # {}
  <2>1. holder' = None /\ pc' = [pc EXCEPT ![a] = "idle"]
    BY <1>3 DEF Lock, Done
  <2> QED BY <1>1, <1>2, <2>1 DEF Types, Recorded, Locked, Ended, Kept, Before, Name
<1>4. CASE rec[about[a]].ids = {}
  <2>1. holder' = a /\ pc' = [pc EXCEPT ![a] = "ps"]
    BY <1>4 DEF Lock
  <2>2. rec[about[a]] = NoRecord
    BY <1>1, <1>4 DEF Recorded
  <2>3. Types' /\ Recorded' /\ Ended'
    BY <1>1, <2>1 DEF Types, Recorded, Ended, Name
  <2>4. Locked'
    BY <1>1, <1>2, <2>1, <2>2 DEF Types, Locked
  <2>5. Kept'
    BY <1>1, <1>2, <2>1 DEF Types, Locked, Kept, Before, Name
  <2> QED BY <2>3, <2>4, <2>5
<1> QED BY <1>3, <1>4

\* Every end of ensureContainer releases the mutex, whatever was recorded.
LEMMA DoneUnlocks ==
  ASSUME IInv, NEW a \in Actors, pc[a] \in Inner, Done(a), UNCHANGED <<about, picked, kind>>,
         \A s \in Sites : s # about[a] => rec'[s] = rec[s]
  PROVE  Locked' /\ holder' \in Actors \cup {None} /\ pc' \in [Actors -> Points]
         /\ \A b \in Actors : pc'[b] \notin Inner
<1>1. holder = a /\ holder' = None /\ pc' = [pc EXCEPT ![a] = "idle"]
  BY DEF IInv, Locked, Done
<1>2. \A b \in Actors : pc'[b] \notin Inner
  BY <1>1 DEF IInv, Types, Locked, Inner
<1> QED BY <1>1, <1>2, ContainersAssumption DEF IInv, Types, Locked, Inner, Points

\* A site of which something is recorded: what it takes to keep the invariant.
LEMMA RecordKeeps ==
  ASSUME IInv, NEW a \in Actors, pc[a] \in Inner, At(a, pc[a]), Done(a),
         UNCHANGED <<process, about, picked, todo, excused>>,
         NEW ids \in SUBSET Names, NEW port \in HostPorts, Record(about[a], ids, port),
         Name(about[a]) \in ids, \A n \in ids : n[1] = about[a],
         box' \in [Names -> Box \cup {None}],
         \A n \in Names : n # Name(about[a]) => box'[n] = box[n],
         box'[Name(about[a])] # None, box'[Name(about[a])].port = port
  PROVE  IInv'
<1> DEFINE s == about[a]
<1>1. s \in Sites /\ Name(s) \in Names /\ \A t \in Sites : Name(t) \in Names /\ Name(t)[1] = t
  BY NamesOfSites DEF IInv, Locked, Inner
<1>2. rec' = [rec EXCEPT ![s] = [ids |-> ids, port |-> port]] /\ ours' = ours \cup {Name(s)}
  BY DEF Record
<1>3. UNCHANGED <<life, lives, kind, cli>> /\ life # "gone"
  BY DEF process, At
<1> HIDE DEF s
<1>4. Locked' /\ holder' \in Actors \cup {None} /\ pc' \in [Actors -> Points]
      /\ \A b \in Actors : pc'[b] \notin Inner
  BY <1>2, <1>3, DoneUnlocks DEF IInv, Types, s
<1>5. Types'
  BY <1>1, <1>2, <1>3, <1>4 DEF IInv, Types
<1>6. rec'[s].ids = ids /\ rec'[s].port = port /\ rec'[s] # NoRecord
      /\ \A t \in Sites : t # s => rec'[t] = rec[t]
  BY <1>1, <1>2 DEF IInv, Types, NoRecord, s
<1>7. \A t \in Sites : Name(t)' = Name(t)
  BY <1>3 DEF Name
<1>8. Recorded'
  <2>1. ASSUME NEW t \in Sites, t # s, rec'[t] # NoRecord
        PROVE  /\ Name(t) \in rec'[t].ids /\ \A n \in rec'[t].ids : n[1] = t
               /\ box'[Name(t)] # None /\ rec'[t].port = box'[Name(t)].port
    <3>1. box'[Name(t)] = box[Name(t)]
      BY <1>1, <2>1 DEF s
    <3> QED BY <1>6, <2>1, <3>1 DEF IInv, Recorded
  <2>2. /\ Name(s) \in rec'[s].ids /\ \A n \in rec'[s].ids : n[1] = s
        /\ box'[Name(s)] # None /\ rec'[s].port = box'[Name(s)].port
    BY <1>6 DEF s
  <2> QED BY <1>7, <2>1, <2>2 DEF Recorded
<1>9. Ended'
  BY <1>3 DEF Ended
<1>10. Kept'
  <2>1. CASE Before
    <3>1. \A n \in ours' : n[1] \in Sites /\ n = Name(n[1]) /\ rec'[n[1]] # NoRecord
      BY <1>1, <1>2, <1>6, <2>1 DEF IInv, Kept
    <3> QED BY <1>3, <1>7, <2>1, <3>1 DEF Kept, Before
  <2>2. CASE life = "hooked"
    <3>1. Name(s) \in excused
      BY <2>2 DEF IInv, Kept, s
    <3>2. \A n \in ours' \ excused' : cli'[n[1]] => box'[n] = None
      BY <1>2, <1>3, <2>2, <3>1 DEF IInv, Kept, Before, Types, s
    <3> QED BY <1>3, <1>4, <2>2, <3>2 DEF Kept, Before
  <2> QED BY <1>3, <2>1, <2>2 DEF IInv, Types, Before
<1> QED BY <1>4, <1>5, <1>8, <1>9, <1>10 DEF IInv

\* An error return keeps it, a container that was created and does not run,
\* too.
LEMMA FailKeeps ==
  ASSUME IInv, NEW a \in Actors, pc[a] \in Inner, At(a, pc[a]), Done(a),
         UNCHANGED <<process, rec, about, picked, todo, excused>>,
         ours' \subseteq ours,
         \/ UNCHANGED box
         \/ /\ box[Name(about[a])] = None /\ Name(about[a]) \notin ours'
            /\ \E x \in Box : box' = [box EXCEPT ![Name(about[a])] = x]
  PROVE  IInv'
<1>1. UNCHANGED <<life, lives, kind, cli>> /\ life # "gone"
  BY DEF process, At
<1>2. Locked' /\ holder' \in Actors \cup {None} /\ pc' \in [Actors -> Points]
      /\ \A b \in Actors : pc'[b] \notin Inner
  BY <1>1, DoneUnlocks
<1>3. Types'
  BY <1>1, <1>2 DEF IInv, Types
<1>4. \A t \in Sites : Name(t)' = Name(t) /\ Name(t) \in Names
  BY <1>1, NamesOfSites DEF Name, IInv
<1>5. \A n \in Names : \/ box'[n] = box[n]
                       \/ box[n] = None /\ n \notin ours'
  BY DEF IInv, Types
<1>6. Recorded'
  <2>1. ASSUME NEW t \in Sites, rec[t] # NoRecord PROVE box'[Name(t)] = box[Name(t)]
    <3>1. box[Name(t)] # None
      BY <2>1 DEF IInv, Recorded
    <3> QED BY <1>4, <1>5, <3>1
  <2> QED BY <1>1, <1>4, <2>1 DEF IInv, Recorded
<1>7. Ended'
  BY <1>1 DEF Ended
<1>8. Kept'
  <2>1. CASE Before
    BY <1>1, <1>4, <2>1 DEF IInv, Kept, Before
  <2>2. CASE ~Before
    <3>1. \A n \in ours' \ excused' : cli'[n[1]] => box'[n] = None
      BY <1>1, <1>5, <2>2 DEF IInv, Kept, Types
    <3> QED BY <1>1, <1>2, <2>2, <3>1 DEF Kept, Before
  <2> QED BY <2>1, <2>2
<1> QED BY <1>2, <1>3, <1>6, <1>7, <1>8 DEF IInv

\* Going on inside of the mutex.
LEMMA GotoKeeps ==
  ASSUME IInv, NEW a \in Actors, pc[a] \in Inner, NEW q \in Inner, Goto(a, q),
         UNCHANGED <<process, box, rec, about, todo, ours, excused>>,
         life # "gone", picked' \in [Actors -> HostPorts \cup {None}],
         q = "run" => picked'[a] \in HostPorts,
         \A b \in Actors : b # a => picked'[b] = picked[b]
  PROVE  IInv'
<1>1. pc' = [pc EXCEPT ![a] = q] /\ holder' = holder /\ UNCHANGED <<life, lives, kind, cli>>
  BY DEF Goto, process
<1>2. Types' /\ Recorded' /\ Ended'
  BY <1>1 DEF IInv, Types, Recorded, Ended, Name, Points, Inner
<1>3. \A b \in Actors : (b # a => pc'[b] = pc[b]) /\ pc'[a] = q
  BY <1>1 DEF IInv, Types
<1>4. Locked'
  BY <1>1, <1>3 DEF IInv, Locked, Inner
<1>5. Kept'
  BY <1>1, <1>3 DEF IInv, Kept, Before, Name
<1> QED BY <1>2, <1>4, <1>5 DEF IInv

\* The search: the container is recorded, missing, or the search fails.
LEMMA FindKeeps == ASSUME IInv, NEW a \in Actors, Find(a) PROVE IInv'
<1> DEFINE s == about[a]
<1>1. pc[a] = "ps" /\ At(a, pc[a]) /\ s \in Sites
  BY DEF Find, At, IInv, Locked
<1>2. CASE /\ Listed(s) # {} /\ box[Name(s)] # None
           /\ Record(s, Listed(s), Label(s))
           /\ Done(a) /\ UNCHANGED <<process, box, about, picked, todo, excused>>
  <2>1. Name(s) \in Names
    BY <1>1, NamesOfSites DEF IInv
  <2>2. <<kind[s], kind[s]>> \in Matches
    BY <1>1, ContainersAssumption DEF IInv, Types
  <2>3. Name(s) \in Listed(s) /\ Listed(s) \subseteq Names /\ \A n \in Listed(s) : n[1] = s
    BY <1>2, <2>1, <2>2 DEF Listed, Name
  <2>4. box[Name(s)] \in Box
    BY <1>2, <2>1 DEF IInv, Types
  <2>5. Label(s) \in HostPorts /\ box[Name(s)].port = Label(s)
    BY <2>4 DEF Label, Box
  <2> QED BY <1>1, <1>2, <2>3, <2>5, RecordKeeps DEF IInv, Types, Inner
<1>3. CASE Fails(a)
  BY <1>1, <1>3, FailKeeps DEF Fails, Inner
<1>4. CASE Goto(a, "build") /\ UNCHANGED <<process, box, rec, about, picked, todo, ours, excused>>
  <2>1. life # "gone" /\ picked' \in [Actors -> HostPorts \cup {None}] /\ picked' = picked
    BY <1>1, <1>4 DEF IInv, Types, At
  <2> QED BY <1>1, <1>4, <2>1, GotoKeeps DEF Inner
<1> QED BY <1>2, <1>3, <1>4 DEF Find

\* The build, and the choice of a port.
LEMMA BuildKeeps == ASSUME IInv, NEW a \in Actors, Build(a) PROVE IInv'
<1>1. pc[a] = "build" /\ At(a, pc[a])
  BY DEF Build, At
<1>2. CASE Fails(a)
  BY <1>1, <1>2, FailKeeps DEF Fails, Inner
<1>3. CASE /\ FreePorts # {} /\ Goto(a, "run")
           /\ picked' = [picked EXCEPT ![a] = LowestPort]
           /\ UNCHANGED <<process, box, rec, about, todo, ours, excused>>
  <2>1. LowestPort \in HostPorts
    BY <1>3, LowestIsFree DEF FreePorts
  <2>2. /\ life # "gone" /\ picked' \in [Actors -> HostPorts \cup {None}]
        /\ picked'[a] \in HostPorts /\ \A b \in Actors : b # a => picked'[b] = picked[b]
    BY <1>1, <1>3, <2>1 DEF IInv, Types, At
  <2> QED BY <1>1, <1>3, <2>2, GotoKeeps DEF Inner
<1> QED BY <1>2, <1>3 DEF Build

\* The start of a container, or its failure.
LEMMA RunKeeps == ASSUME IInv, NEW a \in Actors, Run(a) PROVE IInv'
<1> DEFINE s == about[a]
           p == picked[a]
<1>1. pc[a] = "run" /\ At(a, pc[a]) /\ s \in Sites /\ p \in HostPorts
  BY DEF Run, At, IInv, Locked
<1>2. Name(s) \in Names /\ Name(s)[1] = s
  BY <1>1, NamesOfSites DEF IInv
<1>3. \A runs \in BOOLEAN : [port |-> p, running |-> runs] \in Box /\ [port |-> p, running |-> runs] # None
  BY <1>1, ContainersAssumption DEF Box
<1>4. CASE Fails(a)
  BY <1>1, <1>4, FailKeeps DEF Fails, Inner
<1>5. CASE /\ box[Name(s)] = None /\ Created(s, p, FALSE)
           /\ ours' = ours \ {Name(s)}
           /\ Done(a) /\ UNCHANGED <<process, rec, about, picked, todo, excused>>
  BY <1>1, <1>3, <1>5, FailKeeps DEF Created, Inner
<1>6. CASE /\ CanStart(s, p) /\ Created(s, p, TRUE)
           /\ Record(s, {Name(s)}, p)
           /\ Done(a) /\ UNCHANGED <<process, about, picked, todo, excused>>
  <2>1. box' = [box EXCEPT ![Name(s)] = [port |-> p, running |-> TRUE]]
    BY <1>6 DEF Created
  <2>2. /\ box' \in [Names -> Box \cup {None}] /\ box'[Name(s)] = [port |-> p, running |-> TRUE]
        /\ \A n \in Names : n # Name(s) => box'[n] = box[n]
    BY <1>2, <1>3, <2>1 DEF IInv, Types
  <2>3. box'[Name(s)] # None /\ box'[Name(s)].port = p
    <3> DEFINE new == [port |-> p, running |-> TRUE]
    <3>1. new # None /\ new.port = p /\ box'[Name(s)] = new
      BY <1>3, <2>2
    <3> HIDE DEF new
    <3> QED BY <3>1
  <2> QED BY <1>1, <1>2, <1>6, <2>2, <2>3, RecordKeeps DEF Inner
<1> QED BY <1>4, <1>5, <1>6 DEF Run

\* The end of the process.
LEMMA EndKeeps ==
  ASSUME IInv, Kill \/ Leave
  PROVE  IInv'
<1>1. /\ life' = "gone" /\ pc' = Idle /\ holder' = None /\ rec' = [s \in Sites |-> NoRecord]
      /\ UNCHANGED <<lives, kind, cli, about, picked, todo>>
  BY DEF Kill, Leave, Gone
<1>2. box' \in [Names -> Box \cup {None}]
  <2>1. ASSUME NEW a \in Actors, pc[a] = "run", Created(about[a], picked[a], TRUE)
        PROVE  box' \in [Names -> Box \cup {None}]
    BY <2>1 DEF Created, Box, IInv, Types, Locked
  <2> QED BY <2>1 DEF Kill, Leave, Gone, IInv, Types
<1>3. ours' \subseteq Names /\ \A n \in ours' \ excused' : cli'[n[1]] => box'[n] = None
  BY <1>1 DEF Kill, Leave, IInv, Types, Kept, Before
<1>4. \A a \in Actors : pc'[a] = "idle"
  BY <1>1 DEF Idle
<1>5. \A s \in Sites : rec'[s] = NoRecord
  BY <1>1
<1>6. Types'
  BY <1>1, <1>2, <1>3 DEF IInv, Types, Idle, Points, NoRecord
<1> QED BY <1>1, <1>3, <1>4, <1>5, <1>6, ContainersAssumption
        DEF IInv, Recorded, Locked, Ended, Kept, Before, Inner

\* The start of the next process.
LEMMA StartKeeps == ASSUME IInv, Start PROVE IInv'
<1>1. /\ life = "gone" /\ life' = "init" /\ lives < MaxLives /\ lives' = lives + 1
      /\ kind' \in [Sites -> UNION {ContainerPorts[s] : s \in Sites}]
      /\ \A s \in Sites : kind'[s] \in ContainerPorts[s]
      /\ todo' = Sites /\ ours' = {} /\ excused' = {}
      /\ about' = [a \in Actors |-> None] /\ picked' = [a \in Actors |-> None]
      /\ UNCHANGED <<cli, box, rec, holder, pc>>
  BY DEF Start
<1>2. rec = [s \in Sites |-> NoRecord] /\ pc = Idle /\ holder = None
  BY <1>1 DEF IInv, Ended
<1>3. Types'
  BY <1>1, ContainersAssumption DEF IInv, Types
<1>4. \A s \in Sites : rec'[s] = NoRecord
  BY <1>1, <1>2
<1>5. \A a \in Actors : pc'[a] = "idle"
  BY <1>1, <1>2 DEF Idle
<1> QED BY <1>1, <1>2, <1>3, <1>4, <1>5, ContainersAssumption
        DEF IInv, Recorded, Locked, Ended, Kept, Before, Inner

\* The hook removes what is on record or excuses it.
LEMMA ExitKeeps == ASSUME IInv, OnExit PROVE IInv'
<1>1. PICK gone \in SUBSET {s \in Sites : Removable(s)} :
        /\ box' = [n \in Names |-> IF \E s \in gone : n \in rec[s].ids THEN None ELSE box[n]]
        /\ excused' = excused \cup
             {Name(s) : s \in {t \in Sites \ gone : rec[t].ids # {} /\ cli[t]}}
  BY DEF OnExit
<1>2. /\ Before /\ life = "hook" /\ life' = "hooked" /\ holder = None
      /\ rec' = [s \in Sites |-> NoRecord]
      /\ UNCHANGED <<lives, kind, cli, holder, pc, about, picked, todo, ours>>
  BY DEF OnExit, Guarded, Unlocked, Before, actor
<1>3. box' \in [Names -> Box \cup {None}]
  BY <1>1 DEF IInv, Types
<1>4. Types'
  BY <1>2, <1>3 DEF IInv, Types, NoRecord
<1>5. \A a \in Actors : pc[a] \notin Inner
  BY <1>2, ContainersAssumption DEF IInv, Locked
<1>6. \A n \in ours \ excused' : cli[n[1]] => box'[n] = None
  <2> SUFFICES ASSUME NEW n \in ours, n \notin excused', cli[n[1]]
               PROVE  box'[n] = None
    OBVIOUS
  <2>1. n \in Names /\ n[1] \in Sites /\ n = Name(n[1]) /\ rec[n[1]] # NoRecord
    BY <1>2 DEF IInv, Kept, Types
  <2>2. n \in rec[n[1]].ids
    BY <2>1 DEF IInv, Recorded
  <2>3. n[1] \in gone
    BY <1>1, <2>1, <2>2
  <2> QED BY <1>1, <2>1, <2>2, <2>3
<1>7. \A s \in Sites : rec'[s] = NoRecord
  BY <1>2
<1>8. Recorded' /\ Ended'
  BY <1>2, <1>7 DEF Recorded, Ended
<1>9. Locked'
  BY <1>2, <1>5 DEF IInv, Locked, Inner
<1>10. Kept'
  BY <1>2, <1>5, <1>6 DEF Kept, Before
<1> QED BY <1>4, <1>8, <1>9, <1>10 DEF IInv

\* The initial states have the invariant, and every step keeps it.
LEMMA Inductive == (Init => IInv) /\ (IInv /\ [Next]_vars => IInv')
<1>1. Init => IInv
  <2> SUFFICES ASSUME Init PROVE IInv
    OBVIOUS
  <2>1. \A s \in Sites : rec[s] = NoRecord
    BY DEF Init
  <2>2. \A a \in Actors : pc[a] = "idle"
    BY DEF Init, Idle
  <2>3. Types
    BY ContainersAssumption DEF Init, Types, Idle, Points, NoRecord
  <2> QED BY <2>1, <2>2, <2>3, ContainersAssumption
          DEF Init, IInv, Recorded, Locked, Ended, Kept, Before, Inner
<1>2. IInv /\ UNCHANGED vars => IInv'
  <2> SUFFICES ASSUME IInv, UNCHANGED vars PROVE IInv'
    OBVIOUS
  <2> USE DEF IInv, vars, process, actor
  <2>1. Types' /\ Recorded' /\ Ended'
    BY DEF Types, Recorded, Ended, Name
  <2>2. Locked' /\ Kept'
    BY DEF Locked, Kept, Before, Name
  <2> QED BY <2>1, <2>2
<1>3. IInv /\ Next => IInv'
  BY OuterKeeps, LockKeeps, FindKeeps, BuildKeeps, RunKeeps, EndKeeps, StartKeeps, ExitKeeps
     DEF Next, Ensure
<1> QED BY <1>1, <1>2, <1>3

\* What is recorded of a site is its own container and the port on its label,
\* whichever process had started it, and only who holds the mutex is inside of
\* ensureContainer (docker_standard.go:174-265).
THEOREM ContainersTypeCorrect == Spec => []TypeOK
<1>1. IInv => TypeOK
  <2> SUFFICES ASSUME IInv PROVE TypeOK
    OBVIOUS
  <2>1. \A n \in Names : box[n] # None => box[n].port \in HostPorts /\ box[n].running \in BOOLEAN
    BY DEF IInv, Types, Box
  <2>2. {a \in Actors : pc[a] \in {"ps", "build", "run"}} = {holder} \ {None}
    BY ContainersAssumption DEF IInv, Types, Locked, Inner
  <2>3. \A a \in Actors : pc[a] \in {"idle", "lock", "ps", "build", "run"}
    BY DEF IInv, Types, Points
  <2> QED BY <2>1, <2>2, <2>3 DEF IInv, Types, Recorded, TypeOK
<1> QED BY <1>1, Inductive, PTL DEF Spec

\* The exit hook leaves no container behind (docker_standard.go:160-172),
\* however the start of one and the hook overlapped.
THEOREM HookLeavesNothing == Spec => []ExitRemoves
<1>1. IInv => ExitRemoves
  BY DEF IInv, Kept, Before, ExitRemoves
<1> QED BY <1>1, Inductive, PTL DEF Spec
=============================================================================
