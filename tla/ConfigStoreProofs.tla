------------------------- MODULE ConfigStoreProofs -------------------------
(***************************************************************************)
(* Proofs about ConfigStore for any domains, sites, plugins and calls:     *)
(* what a call answered lasts, through the calls and the restarts that     *)
(* come after it.                                                          *)
(***************************************************************************)
EXTENDS ConfigStore, FiniteSetTheorems, TLAPS

\* What a file may say.
Holds(f) == IF f = Global THEN Confs ELSE Sites
Data     == Sites \cup Confs \cup {None}

CallRecord ==
  [op : {"none", "create", "update", "delete", "toggle", "config"},
   pc : {"idle", "open", "write", "store", "forget", "marshal"},
   file : Files, data : Data, linked : BOOLEAN, alone : BOOLEAN]

\* A call saves what its file may say; one that deletes saves nothing.
Stage(k) ==
  \/ k.pc \in {"open", "write", "store"} /\ k.data \in Holds(k.file)
  \/ k.pc = "forget" /\ k.file # Global /\ k.data = None
  \/ k.pc = "marshal" /\ k.file = Global

DiskType(f, d) ==
  /\ d.value \in {None, Bad} \/ d.value \in Holds(f)
  /\ d.value \notin {None, Bad} => d = Saved(f, d.value)
  /\ d.value = None => d = Absent

Types ==
  /\ phase \in {"up", "down"} /\ custom \in BOOLEAN /\ given \in Confs
  /\ extra \in Sites \cup {None}
  /\ disk = [f \in Files |-> disk[f]] /\ \A f \in Files : DiskType(f, disk[f])
  /\ memory \in [Domains -> Sites \cup {None}]
  /\ conf \in Confs /\ active \in SUBSET Plugins /\ due \in BOOLEAN
  /\ call \in [Calls -> CallRecord]
  /\ \A c \in Calls : call[c] = Idle \/ (call[c].op # "none" /\ Stage(call[c]))
  /\ started \in 0..MaxCalls /\ settled \in [Files -> BOOLEAN] /\ acked \in [Files -> Data]

\* Of two calls about one file neither is alone.
SoloInv ==
  \A b, c \in Calls, f \in Files : b # c /\ Busy(b, f) /\ Busy(c, f) => ~call[b].alone

\* A file is not settled while a call is about it.
OpenInv == \A c \in Calls, f \in Files : Busy(c, f) => ~settled[f]

\* How far a call that is alone has come shows on the disk.
Shows(k) ==
  /\ k.pc = "write"  => k.linked /\ disk[k.file] = Truncated
  /\ k.pc = "store"  => disk[k.file] = Saved(k.file, k.data)
  /\ k.pc = "forget" => disk[k.file] = Absent
  /\ k.file = Global /\ k.pc \in {"open", "write", "store"} => conf = k.data
Progress == \A c \in Calls : call[c].alone => Shows(call[c])

\* A settled file holds the answer, the memory as well.
Lasting ==
  /\ \A f \in Files : settled[f] =>
       disk[f] = Acked(f) /\ acked[f] \in Holds(f) \cup (IF f = Global THEN {} ELSE {None})
  /\ phase = "up" => \A d \in Domains : settled[d] => memory[d] = acked[d]
  /\ phase = "up" /\ settled[Global] => conf = acked[Global]
  /\ (custom \/ settled[Global]) /\ (\E d \in Domains : settled[d] /\ acked[d] # None)
       => phase = "up"

IInv == Types /\ SoloInv /\ OpenInv /\ Progress /\ Lasting

----------------------------------------------------------------------------
(* Lengths and files *)

\* What a file may say is no marker, and its JSON has a length.
LEMMA Values ==
  ASSUME NEW f \in Files, NEW v \in Holds(f)
  PROVE  v \notin {None, Bad} /\ JsonLength(f, v) \in Nat /\ DiskType(f, Saved(f, v))
<1>1. v \in Sites \cup Confs /\ v \notin {None, Bad}
  BY StoreAssumption DEF Holds
<1>2. JsonLength(f, v) \in Nat
  <2>1. CASE f = Global
    <3>1. v \in SUBSET Plugins /\ IsFiniteSet(Plugins)
      BY <2>1, StoreAssumption DEF Holds, Confs
    <3>2. Cardinality(v) \in Nat
      BY <3>1, FS_Subset, FS_CardinalityType
    <3> QED BY <2>1, <3>2 DEF JsonLength
  <2>2. CASE f # Global
    BY <2>2, StoreAssumption DEF Holds, JsonLength, Sites
  <2> QED BY <2>1, <2>2
<1> QED BY <1>1, <1>2 DEF DiskType, Saved

\* Writing leaves the value, or what does not parse; over an empty file it
\* leaves the value.
LEMMA Overlays ==
  ASSUME NEW f \in Files, NEW v \in Holds(f), NEW old
  PROVE  /\ DiskType(f, Overlay(f, old, v))
         /\ Overlay(f, Truncated, v) = Saved(f, v)
<1>1. DiskType(f, Saved(f, v)) /\ JsonLength(f, v) \in Nat
  BY Values
<1>2. DiskType(f, [value |-> Bad, len |-> old.len])
  BY StoreAssumption DEF DiskType
<1> QED BY <1>1, <1>2 DEF Overlay, Truncated

\* An absent and a truncated file are well typed.
LEMMA Markers == ASSUME NEW f PROVE DiskType(f, Absent) /\ DiskType(f, Truncated)
  BY StoreAssumption DEF DiskType, Absent, Truncated

\* A call that is busy is well typed and about a file.
LEMMA BusyCall ==
  ASSUME Types, NEW c \in Calls, call[c].pc # "idle"
  PROVE  call[c] \in CallRecord /\ Stage(call[c]) /\ Busy(c, call[c].file)
  BY DEF Types, Idle, Busy

----------------------------------------------------------------------------
(* The steps of a call *)

\* A call that begins: no other about the file is alone from now on, and the
\* file is not settled. The handlers change nothing but what it is about.
LEMMA BeginKeeps ==
  ASSUME IInv, NEW c \in Calls, NEW f \in Files, NEW data \in Data,
         NEW op \in {"create", "update", "delete", "toggle", "config"},
         NEW pc \in {"open", "forget", "marshal"}, Begin(c, op, pc, f, data),
         Stage([op |-> op, pc |-> pc, file |-> f, data |-> data,
                linked |-> FALSE, alone |-> ~\E b \in Calls : Busy(b, f)]),
         f = Global => pc = "marshal",
         pc = "forget" => disk'[f] = Absent,
         disk' = [g \in Files |-> disk'[g]], DiskType(f, disk'[f]),
         \A g \in Files \ {f} : disk'[g] = disk[g],
         conf' \in Confs, f # Global => conf' = conf,
         UNCHANGED <<memory, due>>
  PROVE  IInv'
<1> DEFINE shared == \E b \in Calls : Busy(b, f)
           new == [op |-> op, pc |-> pc, file |-> f, data |-> data,
                   linked |-> FALSE, alone |-> ~shared]
<1>1. /\ phase = "up" /\ call[c] = Idle /\ started < MaxCalls /\ started' = started + 1
      /\ call' = [b \in Calls |->
           IF b = c THEN new
           ELSE IF Busy(b, f) THEN [call[b] EXCEPT !.alone = FALSE, !.linked = @ /\ op # "delete"]
           ELSE call[b]]
      /\ settled' = [settled EXCEPT ![f] = FALSE]
      /\ UNCHANGED <<phase, custom, given, extra, active, acked>>
  BY DEF Begin
<1>2. call'[c] = new /\ new \in CallRecord
  BY <1>1 DEF CallRecord
<1>3. ASSUME NEW b \in Calls, b # c
      PROVE  /\ call'[b] \in CallRecord
             /\ call'[b].op = call[b].op /\ call'[b].pc = call[b].pc
             /\ call'[b].file = call[b].file /\ call'[b].data = call[b].data
             /\ call'[b].alone => ~Busy(b, f)
             /\ ~Busy(b, f) => call'[b] = call[b]
  <2>1. call[b] \in CallRecord
    BY DEF IInv, Types
  <2>2. CASE Busy(b, f)
    <3>1. call'[b] = [call[b] EXCEPT !.alone = FALSE, !.linked = call[b].linked /\ op # "delete"]
      BY <1>1, <1>3, <2>2
    <3> QED BY <2>1, <2>2, <3>1 DEF CallRecord
  <2>3. CASE ~Busy(b, f)
    BY <1>1, <1>3, <2>1, <2>3 DEF CallRecord
  <2> QED BY <2>2, <2>3
<1>4. ASSUME NEW b \in Calls, NEW g
      PROVE  Busy(b, g)' <=> (IF b = c THEN g = f ELSE Busy(b, g))
  BY <1>2, <1>3 DEF Busy
<1> HIDE DEF new, shared
<1>5. Types'
  <2>1. call' \in [Calls -> CallRecord]
    BY <1>1, <1>2, <1>3
  <2>2. ASSUME NEW b \in Calls PROVE call'[b] = Idle \/ (call'[b].op # "none" /\ Stage(call'[b]))
    <3>1. CASE b = c
      BY <1>2, <3>1 DEF new, shared
    <3>2. CASE b # c
      <4>1. CASE call[b] = Idle
        BY <1>3, <3>2, <4>1 DEF Busy, Idle
      <4>2. CASE call[b].op # "none" /\ Stage(call[b])
        BY <1>3, <3>2, <4>2 DEF Stage
      <4> QED BY <4>1, <4>2 DEF IInv, Types
    <3> QED BY <3>1, <3>2
  <2>3. \A g \in Files : DiskType(g, disk'[g])
    BY DEF IInv, Types
  <2>4. started' \in 0..MaxCalls
    <3>1. started \in 0..MaxCalls /\ MaxCalls \in Nat
      BY StoreAssumption DEF IInv, Types
    <3>2. started < MaxCalls /\ started' = started + 1
      BY <1>1
    <3> QED BY <3>1, <3>2
  <2> QED BY <1>1, <2>1, <2>2, <2>3, <2>4 DEF IInv, Types
<1>6. SoloInv'
  <2> SUFFICES ASSUME NEW a \in Calls, NEW b \in Calls, NEW g \in Files,
                      a # b, Busy(a, g)', Busy(b, g)'
               PROVE  ~call'[a].alone
    BY DEF SoloInv
  <2>1. CASE a = c
    <3>1. shared
      BY <1>4, <2>1 DEF shared
    <3>2. call'[c].alone = ~shared
      BY <1>2 DEF new
    <3> QED BY <2>1, <3>1, <3>2
  <2>2. CASE a # c
    BY <1>3, <1>4, <2>2 DEF IInv, SoloInv
  <2> QED BY <2>1, <2>2
<1>7. OpenInv'
  BY <1>1, <1>4 DEF IInv, OpenInv, Types
<1>8. Progress'
  <2> SUFFICES ASSUME NEW b \in Calls, call'[b].alone PROVE Shows(call[b])'
    BY DEF Progress
  <2>1. CASE b = c
    BY <1>2, <2>1 DEF Shows, new
  <2>2. CASE b # c
    <3>1. call'[b] = call[b] /\ ~Busy(b, f)
      BY <1>3, <2>2
    <3>2. call[b].pc # "idle" /\ call[b].file \in Files
      BY <3>1 DEF IInv, Types, Idle, Stage, CallRecord
    <3>3. call[b].file # f /\ disk'[call[b].file] = disk[call[b].file]
      BY <3>1, <3>2 DEF Busy
    <3>4. Shows(call[b])
      BY <3>1 DEF IInv, Progress
    <3> QED BY <3>1, <3>3, <3>4 DEF Shows
  <2> QED BY <2>1, <2>2
<1>9. Lasting'
  <2>1. \A g \in Files : settled'[g] => g # f /\ settled[g] /\ disk'[g] = disk[g]
    BY <1>1 DEF IInv, Types
  <2>2. Domains \subseteq Files /\ Global \in Files
    BY DEF Files
  <2> QED BY <1>1, <2>1, <2>2 DEF IInv, Lasting, Acked
<1> QED BY <1>5, <1>6, <1>7, <1>8, <1>9 DEF IInv

\* A call that goes on: what it does to its file shows, if it is alone.
LEMMA StepKeeps ==
  ASSUME IInv, NEW c \in Calls, call[c].pc # "idle", NEW k \in CallRecord,
         call' = [call EXCEPT ![c] = k], k.pc # "idle", k.op = call[c].op,
         k.file = call[c].file, k.alone = call[c].alone, Stage(k),
         k.alone => Shows(k)',
         disk' = [g \in Files |-> disk'[g]], DiskType(k.file, disk'[k.file]),
         \A g \in Files \ {k.file} : disk'[g] = disk[g],
         UNCHANGED <<phase, custom, given, extra, memory, conf, active, due, started, settled, acked>>
  PROVE  IInv'
<1>1. call \in [Calls -> CallRecord] /\ call'[c] = k /\ \A b \in Calls \ {c} : call'[b] = call[b]
  BY DEF IInv, Types
<1>2. Busy(c, k.file) /\ call[c].op # "none" /\ k.file \in Files
  BY DEF IInv, Types, Idle, Busy, CallRecord
<1>3. \A b \in Calls : \A g : Busy(b, g)' <=> Busy(b, g)
  BY <1>1 DEF Busy
<1>4. Types'
  <2>1. \A g \in Files : DiskType(g, disk'[g])
    BY DEF IInv, Types
  <2> QED BY <1>1, <1>2, <2>1 DEF IInv, Types
<1>5. SoloInv'
  BY <1>1, <1>3 DEF IInv, SoloInv
<1>6. OpenInv'
  BY <1>3 DEF IInv, OpenInv
<1>7. Progress'
  <2> SUFFICES ASSUME NEW b \in Calls, b # c, call'[b].alone PROVE Shows(call[b])'
    BY <1>1 DEF Progress
  <2>1. call'[b] = call[b] /\ Shows(call[b])
    BY <1>1 DEF IInv, Progress
  <2>2. call[b].pc # "idle" /\ call[b].file \in Files
    <3>1. call[b] # Idle
      BY <2>1 DEF Idle
    <3> QED BY <3>1 DEF IInv, Types, Stage, CallRecord
  <2>3. call[b].file # k.file
    BY <1>2, <2>1, <2>2 DEF IInv, SoloInv, Busy
  <2> QED BY <2>1, <2>2, <2>3 DEF Shows
<1>8. Lasting'
  <2>1. \A g \in Files : settled[g] => disk'[g] = disk[g]
    BY <1>2 DEF IInv, OpenInv
  <2> QED BY <2>1 DEF IInv, Lasting, Acked
<1> QED BY <1>4, <1>5, <1>6, <1>7, <1>8 DEF IInv

\* A call that ends without an answer leaves its file as it is, not settled.
LEMMA FailKeeps ==
  ASSUME IInv, NEW c \in Calls, SaveFails(c)
  PROVE  IInv'
<1>1. /\ call' = [call EXCEPT ![c] = Idle]
      /\ UNCHANGED <<phase, custom, given, extra, disk, memory, conf, active, due, started, settled, acked>>
  BY DEF SaveFails
<1>2. Idle \in CallRecord
  BY DEF Idle, CallRecord, Files, Data
<1>3. call' \in [Calls -> CallRecord] /\ call'[c] = Idle /\ \A b \in Calls \ {c} : call'[b] = call[b]
  BY <1>1, <1>2 DEF IInv, Types
<1>4. \A b \in Calls : \A g : Busy(b, g)' => b # c /\ Busy(b, g)
  BY <1>3 DEF Busy, Idle
<1>5. Types'
  BY <1>1, <1>3 DEF IInv, Types
<1>6. SoloInv' /\ OpenInv'
  BY <1>1, <1>3, <1>4 DEF IInv, SoloInv, OpenInv
<1>7. Progress'
  BY <1>1, <1>3 DEF IInv, Progress, Shows, Idle
<1>8. Lasting'
  BY <1>1 DEF IInv, Lasting, Acked
<1> QED BY <1>5, <1>6, <1>7, <1>8 DEF IInv

\* A call that answers: if it was alone its file and the memory hold the answer.
LEMMA SucceedKeeps ==
  ASSUME IInv, NEW c \in Calls, Succeed(c), phase = "up", due' \in BOOLEAN,
         NEW f \in Files, f = call[c].file, NEW d \in Data, d = call[c].data,
         call[c].pc # "idle",
         d \in Holds(f) \cup (IF f = Global THEN {} ELSE {None}),
         call[c].alone => disk[f] = (IF d = None THEN Absent ELSE Saved(f, d)),
         conf' = conf, f = Global => UNCHANGED memory /\ (call[c].alone => conf = d),
         f # Global => memory' = [memory EXCEPT ![f] = d]
  PROVE  IInv'
<1>1. /\ call' = [call EXCEPT ![c] = Idle]
      /\ settled' = [settled EXCEPT ![f] = call[c].alone]
      /\ acked' = [acked EXCEPT ![f] = d]
      /\ UNCHANGED <<phase, custom, given, extra, disk, active, started>>
  BY DEF Succeed
<1>2. Idle \in CallRecord /\ call[c] \in CallRecord /\ Busy(c, f)
  BY DEF Idle, CallRecord, Files, Data, IInv, Types, Busy
<1>3. call' \in [Calls -> CallRecord] /\ call'[c] = Idle /\ \A b \in Calls \ {c} : call'[b] = call[b]
  BY <1>1, <1>2 DEF IInv, Types
<1>4. \A b \in Calls : \A g : Busy(b, g)' => b # c /\ Busy(b, g)
  BY <1>3 DEF Busy, Idle
<1>5. /\ settled' \in [Files -> BOOLEAN] /\ acked' \in [Files -> Data]
      /\ settled'[f] = call[c].alone /\ acked'[f] = d
      /\ \A g \in Files \ {f} : settled'[g] = settled[g] /\ acked'[g] = acked[g]
  BY <1>1, <1>2 DEF IInv, Types, CallRecord
<1>6. Types'
  <2>1. f # Global => d \in Sites \cup {None} /\ f \in Domains
    BY DEF Holds, Files
  <2>2. memory' \in [Domains -> Sites \cup {None}]
    BY <2>1 DEF IInv, Types
  <2> QED BY <1>1, <1>3, <1>5, <2>2 DEF IInv, Types
<1>7. SoloInv'
  BY <1>3, <1>4 DEF IInv, SoloInv
<1>8. OpenInv'
  <2> SUFFICES ASSUME NEW b \in Calls, NEW g \in Files, Busy(b, g)' PROVE ~settled'[g]
    BY DEF OpenInv
  <2>1. b # c /\ Busy(b, g)
    BY <1>4
  <2>2. CASE g = f
    BY <1>2, <1>5, <2>1, <2>2 DEF IInv, SoloInv
  <2>3. CASE g # f
    BY <1>5, <2>1, <2>3 DEF IInv, OpenInv
  <2> QED BY <2>2, <2>3
<1>9. Progress'
  BY <1>1, <1>3 DEF IInv, Progress, Shows, Idle
<1>10. Lasting'
  <2>1. Domains \subseteq Files /\ Global \in Files /\ Global \notin Domains
    BY StoreAssumption DEF Files
  <2>2. \A g \in Files : settled'[g] =>
          disk'[g] = Acked(g)' /\ acked'[g] \in Holds(g) \cup (IF g = Global THEN {} ELSE {None})
    <3> SUFFICES ASSUME NEW g \in Files, settled'[g]
                 PROVE  /\ disk'[g] = Acked(g)'
                        /\ acked'[g] \in Holds(g) \cup (IF g = Global THEN {} ELSE {None})
      OBVIOUS
    <3>1. CASE g = f
      BY <1>1, <1>5, <3>1 DEF Acked
    <3>2. CASE g # f
      BY <1>1, <1>5, <3>2 DEF IInv, Lasting, Acked
    <3> QED BY <3>1, <3>2
  <2>3. ASSUME NEW e \in Domains, settled'[e] PROVE memory'[e] = acked'[e]
    <3>1. CASE e = f
      BY <1>5, <2>1, <3>1 DEF IInv, Types
    <3>2. CASE e # f
      <4>1. memory'[e] = memory[e]
        BY <2>1, <3>2 DEF IInv, Types
      <4> QED BY <1>5, <2>1, <2>3, <3>2, <4>1 DEF IInv, Lasting
    <3> QED BY <3>1, <3>2
  <2>4. settled'[Global] => conf' = acked'[Global]
    BY <1>5, <2>1 DEF IInv, Lasting
  <2> QED BY <1>1, <2>2, <2>3, <2>4 DEF Lasting
<1> QED BY <1>6, <1>7, <1>8, <1>9, <1>10 DEF IInv

----------------------------------------------------------------------------
(* The handlers *)

\* The calls that begin.
LEMMA Beginnings ==
  ASSUME IInv, NEW c \in Calls
  PROVE  /\ \A d \in Domains :
              /\ \A s \in Sites : CreateSite(c, d, s) => IInv'
              /\ \A fields \in Fields : UpdateSite(c, d, fields) => IInv'
              /\ DeleteSite(c, d) => IInv'
         /\ \A p \in Plugins : TogglePlugin(c, p) => IInv'
         /\ \A list \in Lists : UpdateConfig(c, list) => IInv'
<1> DEFINE New(op, pc, f, data) ==
             [op |-> op, pc |-> pc, file |-> f, data |-> data,
              linked |-> FALSE, alone |-> ~\E b \in Calls : Busy(b, f)]
<1>1. /\ disk = [g \in Files |-> disk[g]] /\ \A g \in Files : DiskType(g, disk[g])
      /\ conf \in Confs /\ memory \in [Domains -> Sites \cup {None}]
      /\ \A d \in Domains : d \in Files /\ d # Global /\ Holds(d) = Sites
      /\ Global \in Files
  BY StoreAssumption DEF IInv, Types, Files, Holds
<1>2. ASSUME NEW d \in Domains, NEW s \in Sites, CreateSite(c, d, s) PROVE IInv'
  <2>1. Begin(c, "create", "open", d, s) /\ UNCHANGED <<disk, memory, conf, due>>
    BY <1>2 DEF CreateSite
  <2>2. Stage(New("create", "open", d, s)) /\ s \in Data
    BY <1>1 DEF Stage, Data
  <2> QED BY <1>1, <2>1, <2>2, BeginKeeps
<1>3. ASSUME NEW d \in Domains, NEW fields \in Fields, UpdateSite(c, d, fields) PROVE IInv'
  <2> DEFINE s == [memory[d] EXCEPT !.fields = fields]
  <2>1. Begin(c, "update", "open", d, s) /\ UNCHANGED <<disk, memory, conf, due>>
        /\ memory[d] \in Sites
    BY <1>1, <1>3 DEF UpdateSite
  <2>2. s \in Sites
    BY <2>1 DEF Sites
  <2> HIDE DEF s
  <2>3. Stage(New("update", "open", d, s)) /\ s \in Data
    BY <1>1, <2>2 DEF Stage, Data
  <2> QED BY <1>1, <2>1, <2>3, BeginKeeps
<1>4. ASSUME NEW d \in Domains, DeleteSite(c, d) PROVE IInv'
  <2>1. Begin(c, "delete", "forget", d, None) /\ UNCHANGED <<memory, conf, due>>
        /\ disk' = [disk EXCEPT ![d] = Absent]
    BY <1>4 DEF DeleteSite
  <2>2. Stage(New("delete", "forget", d, None)) /\ None \in Data
    BY <1>1 DEF Stage, Data
  <2>3. /\ disk' = [g \in Files |-> disk'[g]] /\ disk'[d] = Absent /\ DiskType(d, disk'[d])
        /\ \A g \in Files \ {d} : disk'[g] = disk[g]
    BY <1>1, <2>1, Markers
  <2> QED BY <1>1, <2>1, <2>2, <2>3, BeginKeeps
<1>5. ASSUME NEW op \in {"toggle", "config"}, Begin(c, op, "marshal", Global, None),
             conf' \in Confs, UNCHANGED <<disk, memory, due>>
      PROVE  IInv'
  <2>1. Stage(New(op, "marshal", Global, None)) /\ None \in Data
    BY DEF Stage, Data
  <2> QED BY <1>1, <1>5, <2>1, BeginKeeps
<1>6. ASSUME NEW p \in Plugins, TogglePlugin(c, p) PROVE IInv'
  <2>1. conf' \in Confs
    BY <1>1, <1>6 DEF TogglePlugin, Confs
  <2> QED BY <1>5, <1>6, <2>1 DEF TogglePlugin
<1>7. ASSUME NEW list \in Lists, UpdateConfig(c, list) PROVE IInv'
  <2>1. conf' \in Confs
    BY <1>7, StoreAssumption DEF UpdateConfig
  <2> QED BY <1>5, <1>7, <2>1 DEF UpdateConfig
<1> QED BY <1>2, <1>3, <1>4, <1>6, <1>7

\* Marshalling, opening and writing the file.
LEMMA Savings ==
  ASSUME IInv, NEW c \in Calls, Marshal(c) \/ Open(c) \/ WriteFile(c)
  PROVE  IInv'
<1> PICK k \in CallRecord : k = call[c]
  BY DEF IInv, Types
<1>1. Stage(k) /\ k.pc # "idle" /\ call \in [Calls -> CallRecord]
  BY BusyCall DEF IInv, Types, Marshal, Open, WriteFile, At
<1>2. /\ disk = [g \in Files |-> disk[g]] /\ \A g \in Files : DiskType(g, disk[g])
      /\ conf \in Confs /\ k.file \in Files
  BY <1>1 DEF IInv, Types, CallRecord
<1>3. CASE Marshal(c)
  <2> PICK m \in CallRecord : m = [k EXCEPT !.pc = "open", !.data = conf]
    BY <1>2 DEF CallRecord, Data
  <2>1. /\ k.pc = "marshal"
        /\ UNCHANGED <<phase, custom, given, extra, disk, memory, conf, active, due, started, settled, acked>>
    BY <1>3 DEF Marshal, At
  <2>2. call' = [call EXCEPT ![c] = m]
    BY <1>1, <1>3 DEF Marshal
  <2>3. /\ m.pc = "open" /\ m.op = k.op /\ m.file = k.file /\ m.alone = k.alone
        /\ m.data = conf /\ m.file = Global
    BY <1>1, <1>2, <2>1 DEF CallRecord, Data, Stage
  <2>4. Stage(m) /\ Shows(m)'
    BY <1>2, <2>1, <2>3 DEF Stage, Holds, Shows
  <2> QED BY <1>1, <1>2, <2>1, <2>2, <2>3, <2>4, StepKeeps
<1>4. CASE Open(c)
  <2> PICK m \in CallRecord : m = [k EXCEPT !.pc = "write", !.linked = TRUE]
    BY DEF CallRecord
  <2>1. /\ k.pc = "open" /\ disk' = [disk EXCEPT ![k.file] = Truncated]
        /\ UNCHANGED <<phase, custom, given, extra, memory, conf, active, due, started, settled, acked>>
    BY <1>4 DEF Open, At
  <2>2. call' = [call EXCEPT ![c] = m]
    BY <1>1, <1>4 DEF Open
  <2>3. /\ m.pc = "write" /\ m.op = k.op /\ m.file = k.file /\ m.alone = k.alone
        /\ m.data = k.data /\ m.linked
    BY <1>1 DEF CallRecord
  <2>4. /\ disk' = [g \in Files |-> disk'[g]] /\ disk'[k.file] = Truncated
        /\ \A g \in Files \ {k.file} : disk'[g] = disk[g]
    BY <1>2, <2>1
  <2>5. k.alone => Shows(k)
    BY DEF IInv, Progress
  <2>6. Stage(m) /\ DiskType(m.file, disk'[m.file])
    BY <1>1, <2>1, <2>3, <2>4, Markers DEF Stage
  <2>7. m.alone => Shows(m)'
    BY <2>1, <2>3, <2>4, <2>5 DEF Shows
  <2>8. \A g \in Files \ {m.file} : disk'[g] = disk[g]
    BY <2>3, <2>4
  <2> QED BY <1>1, <2>1, <2>2, <2>3, <2>4, <2>6, <2>7, <2>8, StepKeeps, ZenonT(30)
<1>5. CASE WriteFile(c)
  <2> PICK m \in CallRecord : m = [k EXCEPT !.pc = "store"]
    BY DEF CallRecord
  <2> DEFINE v == Overlay(k.file, disk[k.file], k.data)
  <2>1. /\ k.pc = "write" /\ disk' = IF k.linked THEN [disk EXCEPT ![k.file] = v] ELSE disk
        /\ UNCHANGED <<phase, custom, given, extra, memory, conf, active, due, started, settled, acked>>
    BY <1>5 DEF WriteFile, At
  <2>2. call' = [call EXCEPT ![c] = m]
    BY <1>1, <1>5 DEF WriteFile, Goto
  <2>3. /\ m.pc = "store" /\ m.op = k.op /\ m.file = k.file /\ m.alone = k.alone
        /\ m.data = k.data
    BY <1>1 DEF CallRecord
  <2>4. k.alone => Shows(k)
    BY DEF IInv, Progress
  <2>5. k.data \in Holds(k.file) /\ DiskType(k.file, v)
        /\ Overlay(k.file, Truncated, k.data) = Saved(k.file, k.data)
    BY <1>1, <1>2, <2>1, Overlays DEF Stage
  <2> HIDE DEF v
  <2>6. /\ disk' = [g \in Files |-> disk'[g]] /\ (k.linked => disk'[k.file] = v)
        /\ DiskType(k.file, disk'[k.file]) /\ \A g \in Files \ {k.file} : disk'[g] = disk[g]
    BY <1>2, <2>1, <2>5
  <2>7. Stage(m)
    BY <2>3, <2>5 DEF Stage
  <2>8. m.alone => Shows(m)'
    <3>1. ASSUME m.alone PROVE disk'[k.file] = Saved(k.file, k.data)
      BY <2>1, <2>3, <2>4, <2>5, <2>6, <3>1 DEF Shows, v
    <3> QED BY <2>1, <2>3, <2>4, <3>1 DEF Shows
  <2> QED BY <1>1, <1>2, <2>1, <2>2, <2>3, <2>6, <2>7, <2>8, StepKeeps
<1> QED BY <1>3, <1>4, <1>5

\* The answers.
LEMMA Answers ==
  ASSUME IInv, NEW c \in Calls, StoreSite(c) \/ ForgetSite(c) \/ AnswerGlobal(c)
  PROVE  IInv'
<1> DEFINE k == call[c]
<1>1. k \in CallRecord /\ Stage(k) /\ k.pc # "idle" /\ phase = "up" /\ Succeed(c) /\ due \in BOOLEAN
  BY BusyCall DEF IInv, Types, StoreSite, ForgetSite, AnswerGlobal, At
<1>2. k.alone => Shows(k)
  BY DEF IInv, Progress
<1>3. k.file \in Files /\ k.data \in Data /\ (k.data \in Holds(k.file) => k.data # None)
  BY <1>1, Values DEF CallRecord
<1>4. CASE StoreSite(c)
  <2>1. k.pc = "store" /\ k.file # Global /\ memory' = [memory EXCEPT ![k.file] = k.data]
        /\ UNCHANGED <<conf, due>>
    BY <1>4 DEF StoreSite, At
  <2> HIDE DEF k
  <2>2. k.data \in Holds(k.file) /\ (k.alone => disk[k.file] = Saved(k.file, k.data))
    BY <1>1, <1>2, <2>1 DEF Stage, Shows
  <2> QED BY <1>1, <1>3, <2>1, <2>2, SucceedKeeps DEF k
<1>5. CASE ForgetSite(c)
  <2>1. k.pc = "forget" /\ memory' = [memory EXCEPT ![k.file] = None]
        /\ UNCHANGED <<conf, due>>
    BY <1>5 DEF ForgetSite, At
  <2> HIDE DEF k
  <2>2. k.file # Global /\ k.data = None /\ (k.alone => disk[k.file] = Absent)
    BY <1>1, <1>2, <2>1 DEF Stage, Shows
  <2> QED BY <1>1, <1>3, <2>1, <2>2, SucceedKeeps DEF k
<1>6. CASE AnswerGlobal(c)
  <2>1. k.pc = "store" /\ k.file = Global /\ due' \in BOOLEAN /\ UNCHANGED <<memory, conf>>
    BY <1>1, <1>6 DEF AnswerGlobal, At
  <2> HIDE DEF k
  <2>2. k.data \in Holds(k.file)
        /\ (k.alone => disk[k.file] = Saved(k.file, k.data) /\ conf = k.data)
    BY <1>1, <1>2, <2>1 DEF Stage, Shows
  <2> QED BY <1>1, <1>3, <2>1, <2>2, SucceedKeeps DEF k
<1> QED BY <1>4, <1>5, <1>6

----------------------------------------------------------------------------
(* The restarts *)

\* What start-up may read: well-typed values, and of a settled file that is
\* decisive what it holds.
LEMMA Reads ==
  ASSUME IInv
  PROVE  /\ \A d \in Domains : MayLoad(d) # {} /\ MayLoad(d) \subseteq Sites \cup {None}
         /\ GlobalValue # Bad => GlobalValue \in Confs
         /\ \A d \in Domains : settled[d] /\ Decisive(d) => MayLoad(d) = {acked[d]}
         /\ settled[Global] /\ Decisive(Global) => GlobalValue = acked[Global] /\ GlobalValue # Bad
         /\ custom => GlobalValue # Bad
<1>1. \A f \in Files : /\ disk[f].value \in {None, Bad} \/ disk[f].value \in Holds(f)
                       /\ disk[f].value = None => disk[f] = Absent
  BY DEF IInv, Types, DiskType
<1>2. /\ Domains \subseteq Files /\ Global \in Files /\ Global \notin Domains
      /\ Holds(Global) = Confs /\ \A d \in Domains : Holds(d) = Sites
      /\ None # Bad /\ None \notin Sites \cup Confs /\ Bad \notin Sites \cup Confs
      /\ extra \in Sites \cup {None} /\ given \in Confs
  BY StoreAssumption DEF Files, Holds, IInv, Types
<1>3. ASSUME NEW d \in Domains PROVE MayLoad(d) # {} /\ MayLoad(d) \subseteq Sites \cup {None}
  BY <1>1, <1>2 DEF MayLoad
<1>4. GlobalValue # Bad => GlobalValue \in Confs
  <2>1. {} \in Confs
    BY DEF Confs
  <2> QED BY <1>1, <1>2, <2>1 DEF GlobalValue
<1>5. \A f \in Files : settled[f] =>
        /\ disk[f] = Acked(f)
        /\ acked[f] \in Holds(f) \cup (IF f = Global THEN {} ELSE {None})
  BY DEF IInv, Lasting
<1>6. \A f \in Files : settled[f] => disk[f].value = acked[f]
  <2>1. Absent.value = None /\ \A f, v : Saved(f, v).value = v
    BY DEF Absent, Saved
  <2> QED BY <1>5, <2>1 DEF Acked
<1>7. ASSUME NEW d \in Domains, settled[d], Decisive(d) PROVE MayLoad(d) = {acked[d]}
  <2>1. acked[d] \in Sites \cup {None} /\ disk[d].value = acked[d]
    BY <1>2, <1>5, <1>6, <1>7
  <2>2. d = Doubled => extra = None
    BY <1>7 DEF Decisive
  <2> QED BY <1>2, <2>1, <2>2 DEF MayLoad
<1>8. ASSUME settled[Global], Decisive(Global) PROVE GlobalValue = acked[Global] /\ GlobalValue # Bad
  <2>1. acked[Global] \in Confs /\ disk[Global].value = acked[Global] /\ ~custom
    BY <1>2, <1>5, <1>6, <1>8 DEF Decisive
  <2>2. disk[Global] # Absent
    BY <1>2, <2>1 DEF Absent
  <2> QED BY <1>2, <2>1, <2>2 DEF GlobalValue
<1>9. custom => GlobalValue # Bad
  BY <1>2 DEF GlobalValue
<1> QED BY <1>3, <1>4, <1>7, <1>8, <1>9

\* A restart of any kind cuts every call off and reads the files again.
LEMMA RebootKeeps == ASSUME IInv, Reboot PROVE IInv'
<1>1. /\ phase = "up" /\ call' = [c \in Calls |-> Idle] /\ due' = FALSE
      /\ settled' = [f \in Files |-> settled[f] /\ Decisive(f)]
      /\ UNCHANGED <<custom, given, extra, disk, started, acked>>
  BY DEF Reboot
<1>2. Idle \in CallRecord
  BY DEF Idle, CallRecord, Files, Data
<1>3. \/ /\ Bootable /\ memory' \in Loadable /\ conf' = GlobalValue
         /\ active' = Enabled(conf') /\ phase' = phase
      \/ ~Bootable /\ phase' = "down" /\ UNCHANGED <<memory, conf, active>>
  BY DEF Reboot, Load
<1>4. Types'
  <2>1. memory' \in [Domains -> Sites \cup {None}] /\ conf' \in Confs /\ active' \in SUBSET Plugins
    <3>1. CASE Bootable /\ memory' \in Loadable /\ conf' = GlobalValue /\ active' = Enabled(conf')
      <4>1. conf' \in Confs
        BY <3>1, Reads DEF Bootable
      <4>2. active' \in SUBSET Plugins
        BY <3>1, <4>1 DEF Enabled, Confs
      <4>3. memory' \in [Domains -> Sites \cup {None}]
        BY <3>1 DEF Loadable
      <4> QED BY <4>1, <4>2, <4>3
    <3>2. CASE UNCHANGED <<memory, conf, active>>
      BY <3>2 DEF IInv, Types
    <3> QED BY <1>3, <3>1, <3>2
  <2>2. \A f \in Files : settled'[f] \in BOOLEAN
    BY <1>1
  <2>3. settled' \in [Files -> BOOLEAN]
    BY <1>1, <2>2
  <2>4. call' \in [Calls -> CallRecord] /\ \A c \in Calls : call'[c] = Idle
    BY <1>1, <1>2
  <2>5. phase' \in {"up", "down"}
    BY <1>1, <1>3
  <2> QED BY <1>1, <2>1, <2>3, <2>4, <2>5 DEF IInv, Types
<1>5. SoloInv' /\ OpenInv' /\ Progress'
  BY <1>1 DEF SoloInv, OpenInv, Progress, Busy, Idle
<1>6. Lasting'
  <2>1. \A f \in Files : settled'[f] <=> settled[f] /\ Decisive(f)
    BY <1>1
  <2>2. Domains \subseteq Files /\ Global \in Files
    BY DEF Files
  <2>3. CASE Bootable /\ memory' \in Loadable /\ conf' = GlobalValue /\ phase' = phase
    <3>1. \A d \in Domains : memory'[d] \in MayLoad(d)
      BY <2>3 DEF Loadable
    <3>2. \A d \in Domains : settled'[d] => memory'[d] = acked[d]
      BY <2>1, <2>2, <3>1, Reads
    <3>3. settled'[Global] => conf' = acked[Global]
      BY <2>1, <2>2, <2>3, Reads
    <3> QED BY <1>1, <2>1, <2>3, <3>2, <3>3 DEF IInv, Lasting, Acked
  <2>4. CASE ~Bootable /\ phase' = "down"
    <3>1. ASSUME custom \/ settled'[Global], NEW d \in Domains, settled'[d], acked[d] # None
          PROVE  FALSE
      <4>1. GlobalValue # Bad
        BY <2>1, <2>2, <3>1, Reads
      <4>2. MayLoad(d) = {acked[d]}
        BY <2>1, <2>2, <3>1, Reads
      <4> QED BY <2>4, <3>1, <4>1, <4>2 DEF Bootable
    <3> QED BY <1>1, <2>1, <2>4, <3>1 DEF IInv, Lasting, Acked
  <2> QED BY <1>3, <2>3, <2>4
<1> QED BY <1>4, <1>5, <1>6 DEF IInv

----------------------------------------------------------------------------
(* Results *)

\* It holds at first and every step keeps it.
LEMMA Inductive == (Init => IInv) /\ (IInv /\ [Next]_vars => IInv')
<1>1. ASSUME Init PROVE IInv
  <2>1. PICK sites \in [Domains -> AtStart \cup {None}], list \in Lists :
          disk = [f \in Files |->
            IF f = Global THEN (IF custom THEN Absent ELSE Saved(f, list))
            ELSE IF sites[f] = None THEN Absent ELSE Saved(f, sites[f])]
    BY <1>1 DEF Init
  <2>2. ASSUME NEW f \in Files PROVE DiskType(f, disk[f])
    <3>1. disk[f] = Absent \/ \E v \in Holds(f) : disk[f] = Saved(f, v)
      BY <2>1, StoreAssumption DEF Holds, Files
    <3> QED BY <3>1, Markers, Values
  <2>3. disk = [f \in Files |-> disk[f]]
    BY <2>1
  <2>4. \A c \in Calls : call[c] = Idle
    BY <1>1 DEF Init
  <2>5. Idle \in CallRecord
    BY DEF Idle, CallRecord, Files, Data
  <2>6. memory \in [Domains -> Sites \cup {None}]
    <3>1. \A f \in Files : disk[f].value \in {None, Bad} \/ disk[f].value \in Holds(f)
      BY <2>2 DEF DiskType
    <3>2. extra \in Sites \cup {None}
      BY <1>1, StoreAssumption DEF Init
    <3>3. \A d \in Domains : d \in Files /\ Holds(d) = Sites
      BY StoreAssumption DEF Files, Holds
    <3>4. \A d \in Domains : MayLoad(d) \subseteq Sites \cup {None}
      BY <3>1, <3>2, <3>3 DEF MayLoad
    <3> QED BY <1>1, <3>4 DEF Init, Loadable
  <2>7. conf \in Confs /\ given \in Confs
    <3>1. given \in Confs /\ conf = GlobalValue /\ GlobalValue # Bad
      BY <1>1, StoreAssumption DEF Init, Bootable
    <3>2. disk[Global].value \in Confs \/ disk[Global] = Absent \/ disk[Global].value = Bad
      BY <2>2, StoreAssumption DEF DiskType, Files, Holds
    <3>3. {} \in Confs
      BY DEF Confs
    <3> QED BY <3>1, <3>2, <3>3 DEF GlobalValue
  <2>8. Types
    <3>1. started \in 0..MaxCalls
      BY <1>1, StoreAssumption DEF Init
    <3>2. active \in SUBSET Plugins
      BY <1>1, <2>7 DEF Init, Enabled, Confs
    <3>3. extra \in Sites \cup {None}
      BY <1>1, StoreAssumption DEF Init
    <3>4. call \in [Calls -> CallRecord] /\ settled \in [Files -> BOOLEAN] /\ acked \in [Files -> Data]
      BY <1>1, <2>5 DEF Init, Data
    <3>5. phase \in {"up", "down"} /\ custom \in BOOLEAN /\ due \in BOOLEAN
      BY <1>1 DEF Init
    <3> QED BY <2>2, <2>3, <2>4, <2>6, <2>7, <3>1, <3>2, <3>3, <3>4, <3>5 DEF Types
  <2>9. SoloInv /\ OpenInv /\ Progress
    BY <2>4 DEF SoloInv, OpenInv, Progress, Busy, Idle
  <2>10. Lasting
    BY <1>1 DEF Init, Lasting, Files
  <2> QED BY <2>8, <2>9, <2>10 DEF IInv
<1>2. ASSUME IInv, [Next]_vars PROVE IInv'
  <2>1. CASE Reboot
    BY <1>2, <2>1, RebootKeeps
  <2>2. ASSUME NEW c \in Calls, Handler(c) PROVE IInv'
    BY <1>2, <2>2, Beginnings, Savings, Answers, FailKeeps DEF Handler
  <2>3. CASE UNCHANGED vars
    BY <1>2, <2>3 DEF vars, IInv, Types, SoloInv, OpenInv, Busy, Progress, Shows, Lasting, Acked
  <2> QED BY <1>2, <2>1, <2>2, <2>3 DEF Next
<1> QED BY <1>1, <1>2

\* The files, the memory and the calls are well typed at all times: what parses
\* on the disk has the length of its JSON.
THEOREM StoreTypeCorrect == Spec => []TypeOK
<1>1. IInv => TypeOK
  <2> SUFFICES ASSUME IInv PROVE TypeOK
    OBVIOUS
  <2>1. \A f \in Files :
          /\ disk[f].value \in {None, Bad} \cup (IF f = Global THEN Confs ELSE Sites)
          /\ disk[f].value \notin {None, Bad} => disk[f] = Saved(f, disk[f].value)
    BY DEF IInv, Types, DiskType, Holds
  <2>2. \A c \in Calls : call[c] = Idle \/
          /\ call[c].op \in {"create", "update", "delete", "toggle", "config"}
          /\ call[c].pc \in {"open", "write", "store", "forget", "marshal"}
          /\ call[c].file \in Files
    BY DEF IInv, Types, CallRecord, Stage
  <2> QED BY <2>1, <2>2 DEF IInv, Types, TypeOK
<1> QED BY <1>1, Inductive, PTL DEF Spec

\* What a call answered lasts (sites.go:44-123, global_config.go:79-89), through
\* restarts of every kind, for any number of calls, sites and plugins.
THEOREM AnswersLast == Spec => []AcknowledgedSurvives
<1>1. IInv => AcknowledgedSurvives
  BY DEF IInv, Lasting, AcknowledgedSurvives
<1> QED BY <1>1, Inductive, PTL DEF Spec
=============================================================================
