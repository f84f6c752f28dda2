---------------------------- MODULE ConfigStore ----------------------------
(***************************************************************************)
(* The configuration: the site and global files, their copies in memory,   *)
(* the API calls that change both, and the restarts that read the files    *)
(* again.  A call decodes, checks, saves and stores in separate steps, and *)
(* a restart of any kind (scheduled, SIGHUP, SafeGuard, a crash, a drain   *)
(* that times out) may cut it off between two of them.                     *)
(*                                                                         *)
(* Left out: what a site's fields mean, and the global fields other than   *)
(* the list of plugins.                                                    *)
(***************************************************************************)
EXTENDS Integers, FiniteSets

CONSTANTS
  Calls,     \* bound: calls in progress at the same time
  Domains,
  Doubled,   \* bound: the domain a second file may configure as well
  Fields,    \* what the fields the update handler copies may hold
  Others,    \* what the other fields of a site may hold
  Plugins,   \* the registered plugins
  Length,    \* length of the JSON of a site's fields
  None, Bad, \* no value; what does not parse
  Global,    \* conf.global.json
  MaxCalls,  \* bound: calls that change something
  AtStart,   \* bound: the sites there may be when the history begins
  Lists      \* bound: the lists of plugins there may be then, and in a body

Sites == [fields : Fields, others : Others]
Files == Domains \cup {Global}
Confs == SUBSET Plugins

ASSUME StoreAssumption ==
  /\ Doubled \in Domains /\ Global \notin Domains
  /\ Length \in [Fields -> Nat \ {0}]
  /\ IsFiniteSet(Plugins) /\ MaxCalls \in Nat
  /\ AtStart \subseteq Sites /\ Lists \subseteq Confs
  /\ None # Bad /\ \A v \in Sites \cup Confs : v \notin {None, Bad}

VARIABLES
  phase,   \* "up", or "down": the process exited with an error
  custom,  \* --global-config: the global configuration is read from elsewhere
  given,   \* what that file says
  extra,   \* what the second file says of Doubled, or None
  disk,    \* per file: its value and length
  memory,  \* SiteConfigs
  conf,    \* GlobalConf.EnabledPlugins
  active,  \* the plugins initialised at start-up
  due,     \* a restart is scheduled
  call,    \* per call: see Idle
  started, \* calls so far
  settled, \* history, per file: the last call was alone and succeeded
  acked    \* history, per file: what that call answered

vars == <<phase, custom, given, extra, disk, memory, conf, active, due, call,
          started, settled, acked>>

\* pc: control point; file: the file it is about; data: the value it saves;
\* linked: its descriptor still refers to the file; alone: no other call was
\* about the file meanwhile.
Idle == [op |-> "none", pc |-> "idle", file |-> Global, data |-> None,
         linked |-> FALSE, alone |-> FALSE]
Busy(c, f) == call[c].pc # "idle" /\ call[c].file = f

Absent    == [value |-> None, len |-> 0]
Truncated == [value |-> Bad, len |-> 0]
JsonLength(f, v) == IF f = Global THEN 1 + Cardinality(v) ELSE Length[v.fields]
Saved(f, v) == [value |-> v, len |-> JsonLength(f, v)]

\* An empty list enables every plugin.
Enabled(list) == IF list = {} THEN Plugins ELSE list

----------------------------------------------------------------------------
(* Start-up *)

\* LoadGlobalConfig: the defaults when there is no file.
Defaults == IF custom THEN given ELSE {}  \* fault: the defaults always
GlobalValue ==
  IF custom THEN given ELSE IF disk[Global] = Absent THEN {} ELSE disk[Global].value

\* LoadAllConfigs: a goroutine per file; what does not parse is skipped, and
\* of two files for a domain the one read last stays.
MayLoad(d) ==
  LET found == {disk[d].value, IF d = Doubled THEN extra ELSE None} \ {None, Bad}
  IN  IF found = {} THEN {None} ELSE found

Loadable == {m \in [Domains -> Sites \cup {None}] : \A d \in Domains : m[d] \in MayLoad(d)}

\* Nothing else than the file decides what is loaded.
Decisive(f) == (f = Doubled => extra = None) /\ (f = Global => ~custom)

Load ==
  /\ memory' \in Loadable
  /\ conf' = GlobalValue /\ active' = Enabled(conf')

\* start: without a global configuration that parses, or without a site, the
\* process exits.
Bootable == GlobalValue # Bad /\ \E d \in Domains : MayLoad(d) # {None}

Reboot ==
  /\ phase = "up"
  /\ \/ /\ Bootable /\ Load
        /\ UNCHANGED phase
     \/ /\ ~Bootable
        /\ phase' = "down"
        /\ UNCHANGED <<memory, conf, active>>
  /\ call' = [c \in Calls |-> Idle]
  /\ due' = FALSE
  /\ settled' = [f \in Files |-> settled[f] /\ Decisive(f)]
  /\ UNCHANGED <<custom, given, extra, disk, started, acked>>

\* ScheduleRestart: five seconds later.
ScheduledRestart == due /\ Reboot

\* The API and the dashboard are off by default: a global configuration
\* exists.
Init ==
  /\ phase = "up" /\ started = 0 /\ due = FALSE
  /\ custom \in BOOLEAN /\ given \in Lists
  /\ extra \in AtStart \cup {None}
  /\ \E sites \in [Domains -> AtStart \cup {None}], list \in Lists :
       disk = [f \in Files |->
         IF f = Global THEN (IF custom THEN Absent ELSE Saved(f, list))
         ELSE IF sites[f] = None THEN Absent ELSE Saved(f, sites[f])]
  /\ Bootable
  /\ memory \in Loadable
  /\ conf = GlobalValue /\ active = Enabled(conf)
  /\ call = [c \in Calls |-> Idle]
  /\ settled = [f \in Files |-> FALSE] /\ acked = [f \in Files |-> None]

----------------------------------------------------------------------------
(* A call begins and ends; what it does to a file *)

\* The call is about f; it was alone so far if no other call is. (Which idle
\* name it takes makes no difference.)
Begin(c, op, pc, f, data) ==
  /\ phase = "up" /\ started < MaxCalls
  /\ call[c] = Idle /\ c = CHOOSE b \in Calls : call[b] = Idle
  /\ started' = started + 1
  /\ LET shared == \E b \in Calls : Busy(b, f)
     IN  call' = [b \in Calls |->
           IF b = c THEN [op |-> op, pc |-> pc, file |-> f, data |-> data,
                          linked |-> FALSE, alone |-> ~shared]
           ELSE IF Busy(b, f) THEN [call[b] EXCEPT !.alone = FALSE,
                                      !.linked = @ /\ op # "delete"]
           ELSE call[b]]
  /\ settled' = [settled EXCEPT ![f] = FALSE]
  /\ UNCHANGED <<phase, custom, given, extra, active, acked>>

At(c, pc) == phase = "up" /\ call[c].pc = pc
Goto(c, pc) == call' = [call EXCEPT ![c].pc = pc]

\* The call answers.
Succeed(c) ==
  /\ call' = [call EXCEPT ![c] = Idle]
  /\ settled' = [settled EXCEPT ![call[c].file] = call[c].alone]
  /\ acked' = [acked EXCEPT ![call[c].file] = call[c].data]
  /\ UNCHANGED <<phase, custom, given, extra, disk, active, started>>

\* os.WriteFile: the file is created or truncated ...
Open(c) ==
  /\ At(c, "open")
  /\ disk' = [disk EXCEPT ![call[c].file] = Truncated]
  /\ call' = [call EXCEPT ![c].pc = "write", ![c].linked = TRUE]
  /\ UNCHANGED <<phase, custom, given, extra, memory, conf, active, due, started,
                 settled, acked>>

\* ... and written from its start: what another call wrote beyond stays.
KeepLength(f, old, v) == [value |-> v, len |-> old.len]  \* fault: the rest stays
Overlay(f, old, v) ==
  IF old.len <= JsonLength(f, v) THEN Saved(f, v) ELSE [value |-> Bad, len |-> old.len]
WriteFile(c) ==
  /\ At(c, "write") /\ Goto(c, "store")
  /\ disk' = IF call[c].linked
             THEN [disk EXCEPT ![call[c].file] = Overlay(call[c].file, @, call[c].data)] ELSE disk
  /\ UNCHANGED <<phase, custom, given, extra, memory, conf, active, due, started,
                 settled, acked>>

\* os.WriteFile fails at either step: the call answers 500.
SaveFails(c) ==
  /\ At(c, "open") \/ At(c, "write")
  /\ call' = [call EXCEPT ![c] = Idle]
  /\ UNCHANGED <<phase, custom, given, extra, disk, memory, conf, active, due,
                 started, settled, acked>>

----------------------------------------------------------------------------
(* The site handlers *)

CreateSite(c, d, s) ==
  /\ disk[d] = Absent
  /\ Begin(c, "create", "open", d, s)
  /\ UNCHANGED <<disk, memory, conf, due>>

\* The fields of the body replace those of the site in memory, the others stay.
UpdateSite(c, d, fields) ==
  /\ memory[d] # None
  /\ Begin(c, "update", "open", d, [memory[d] EXCEPT !.fields = fields])
  /\ UNCHANGED <<disk, memory, conf, due>>

\* Both handlers, after the file is saved.
StoreSite(c) ==
  /\ At(c, "store") /\ call[c].file # Global
  /\ memory' = [memory EXCEPT ![call[c].file] = call[c].data]
  /\ Succeed(c)
  /\ UNCHANGED <<conf, due>>

\* os.Remove: a call that has the file open writes to no file.
DeleteSite(c, d) ==
  /\ disk[d] # Absent
  /\ Begin(c, "delete", "forget", d, None)
  /\ disk' = [disk EXCEPT ![d] = Absent]
  /\ UNCHANGED <<memory, conf, due>>

LeaveInMemory(c) ==  \* fault: the site stays in memory
  /\ At(c, "forget") /\ Succeed(c)
  /\ UNCHANGED <<memory, conf, due>>
ForgetSite(c) ==
  /\ At(c, "forget")
  /\ memory' = [memory EXCEPT ![call[c].file] = None]
  /\ Succeed(c)
  /\ UNCHANGED <<conf, due>>

----------------------------------------------------------------------------
(* The global configuration *)

TogglePlugin(c, p) ==
  /\ conf' = IF p \in conf THEN conf \ {p} ELSE conf \cup {p}
  /\ Begin(c, "toggle", "marshal", Global, None)
  /\ UNCHANGED <<disk, memory, due>>

UpdateConfig(c, list) ==
  /\ conf' = list
  /\ Begin(c, "config", "marshal", Global, None)
  /\ UNCHANGED <<disk, memory, due>>

\* SaveGlobalConfig: the configuration as it is by now.
Marshal(c) ==
  /\ At(c, "marshal")
  /\ call' = [call EXCEPT ![c].pc = "open", ![c].data = conf]
  /\ UNCHANGED <<phase, custom, given, extra, disk, memory, conf, active, due,
                 started, settled, acked>>

\* Only a toggle schedules a restart.
AnswerGlobal(c) ==
  /\ At(c, "store") /\ call[c].file = Global
  /\ due' = (due \/ call[c].op = "toggle")
  /\ Succeed(c)
  /\ UNCHANGED <<memory, conf>>

----------------------------------------------------------------------------
Handler(c) ==
  \/ \E d \in Domains :
       \/ \E s \in Sites : CreateSite(c, d, s)
       \/ \E fields \in Fields : UpdateSite(c, d, fields)
       \/ DeleteSite(c, d)
  \/ StoreSite(c) \/ ForgetSite(c)
  \/ \E p \in Plugins : TogglePlugin(c, p)
  \/ \E list \in Lists : UpdateConfig(c, list)
  \/ Marshal(c) \/ Open(c) \/ WriteFile(c) \/ SaveFails(c) \/ AnswerGlobal(c)

Next == Reboot \/ \E c \in Calls : Handler(c)

\* A goroutine sleeps five seconds and restarts the process.
Spec == Init /\ [][Next]_vars /\ WF_vars(ScheduledRestart)

----------------------------------------------------------------------------
(* Properties *)

TypeOK ==
  /\ phase \in {"up", "down"} /\ custom \in BOOLEAN /\ given \in Confs
  /\ extra \in Sites \cup {None}
  /\ \A f \in Files :
       /\ disk[f].value \in {None, Bad} \cup (IF f = Global THEN Confs ELSE Sites)
       /\ disk[f].value \notin {None, Bad} => disk[f] = Saved(f, disk[f].value)
  /\ memory \in [Domains -> Sites \cup {None}]
  /\ conf \in Confs /\ active \in SUBSET Plugins /\ due \in BOOLEAN
  /\ \A c \in Calls : call[c] = Idle \/
       /\ call[c].op \in {"create", "update", "delete", "toggle", "config"}
       /\ call[c].pc \in {"open", "write", "store", "forget", "marshal"}
       /\ call[c].file \in Files
  /\ started \in 0..MaxCalls /\ settled \in [Files -> BOOLEAN]

\* What a call answered lasts (sites.go:44-123, global_config.go:79-89): unless
\* another call about the same file overlapped, failed or was cut off, the
\* file and the memory hold the answer, through restarts of every kind and
\* whatever calls about other files do; and the process comes back as long as
\* it has such a site.
Acked(f) == IF acked[f] = None THEN Absent ELSE Saved(f, acked[f])
AcknowledgedSurvives ==
  /\ \A f \in Files : settled[f] => disk[f] = Acked(f)
  /\ \A d \in Domains : phase = "up" /\ settled[d] => memory[d] = acked[d]
  /\ phase = "up" /\ settled[Global] => conf = acked[Global]
  /\ (custom \/ settled[Global]) /\ (\E d \in Domains : settled[d] /\ acked[d] # None)
       => phase = "up"

\* A toggle takes effect (plugins.go:30-68, restart.go:94-101): the plugins it
\* answered are those a later start initialises, unless another call about the
\* global configuration comes in between, the configuration is read from
\* another file, or no site is left to start with.
ToggleTakesEffect ==
  (due /\ settled[Global] /\ ~custom) ~>
    (active = Enabled(acked[Global]) \/ ~settled[Global] \/ phase = "down")

=============================================================================
