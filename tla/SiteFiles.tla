----------------------------- MODULE SiteFiles -----------------------------
(***************************************************************************)
(* What a path of a site becomes: PHPPlugin.HandleRequest first, which runs *)
(* scripts, then ServeStatic with its cached Stat, its pre-compressed       *)
(* variants and its ETags, while files are deployed and removed.            *)
(*                                                                         *)
(* A path is a sequence of names, split at slashes and backslashes; the    *)
(* FastCGI exchange, the pages and the ranges are left out.                *)
(***************************************************************************)
EXTENDS Integers, Sequences, SequencesExt, FiniteSets

CONSTANTS
  Raws,      \* bound: the URL paths requested; "" ends the one with a slash
  Dirs,      \* the directories below the root, as clean paths
  Variants,  \* the files there may be: <<clean path, encoding>>
  Changing,  \* bound: those that are deployed or removed
  DotNames,  \* names that begin with a dot
  Scripts,   \* names that end in .php
  BadNames,  \* names that are none on this system
  FrontController, \* as a clean path
  Accepts,   \* bound: the sets of encodings a client may accept
  MaxChanges,\* bound: files deployed or removed
  Nothing

Encodings == {"plain", "br", "gzip"}

ASSUME FilesAssumption ==
  /\ <<>> \in Dirs /\ MaxChanges \in Nat
  /\ Accepts \subseteq SUBSET {"br", "gzip"}
  /\ Raws \subseteq Seq(STRING) \ {<<>>}
  /\ Changing \subseteq Variants /\ Nothing \notin Variants
  /\ \A v \in Variants :
       v = <<v[1], v[2]>> /\ v[1] \in Seq(STRING) \ Dirs /\ v[2] \in Encodings
  /\ "index.html" \notin DotNames \cup Scripts

VARIABLES
  root,    \* a root directory is configured
  php,     \* the PHP plugin is enabled for the site
  changes, \* files deployed or removed so far
  disk,    \* per file: whether it is there, and its latest version
  cached,  \* per file: the Stat the cache holds, or Nothing
  pc,      \* control point of the request
  req,     \* the request: path, host, encodings it accepts
  node,    \* the clean path to serve
  target,  \* the file to open
  info,    \* the Stat taken: of which file and version; the ETag stands for it
  missed,  \* history: the plugin did not find the file of the path
  answer,  \* what the request got
  copy     \* the client's copy: path, ETag and body, or Nothing

files   == <<changes, disk, cached>>
request == <<req, node, target, info, missed>>
fileVars == <<root, php, files, pc, request, answer, copy>>

NoRequest == [raw |-> <<>>, own |-> FALSE, accept |-> {}]

FilesInit ==
  /\ root \in BOOLEAN /\ php \in BOOLEAN
  /\ \E absent \in SUBSET Changing :
       disk = [v \in Variants |-> IF v \in absent THEN [there |-> FALSE, version |-> 0]
                                  ELSE [there |-> TRUE, version |-> 1]]
  /\ changes = 0 /\ cached = [v \in Variants |-> Nothing]
  /\ pc = "idle" /\ req = NoRequest
  /\ node = <<>> /\ target = Nothing /\ info = Nothing /\ missed = FALSE
  /\ answer = Nothing /\ copy = Nothing

----------------------------------------------------------------------------
(* Paths *)

\* path.Clean below "/".
Stay == {"", "."}
KeepDots(p, name) ==  \* fault: what leads above the root stays
  CASE name \in Stay -> p
    [] name = ".." /\ p # <<>> -> SubSeq(p, 1, Len(p) - 1)
    [] OTHER -> Append(p, name)
CleanStep(p, name) ==
  CASE name \in Stay -> p
    [] name = ".."    -> SubSeq(p, 1, Len(p) - 1)
    [] OTHER          -> Append(p, name)
Clean(raw) ==
  LET c[i \in 0..Len(raw)] == IF i = 0 THEN <<>> ELSE CleanStep(c[i - 1], raw[i]) IN c[Len(raw)]

Slashed(raw) == raw[Len(raw)] = ""
Localized(p) == ToSet(p) \cap BadNames = {}

\* .well-known is the dotfile that is served.
Hidden(name) == name \in DotNames \ {".well-known"}
HiddenLast(p) == p # <<>> /\ Hidden(p[Len(p)])  \* fault: the file's name only
HiddenPath(p) == \E i \in 1..Len(p) : Hidden(p[i])

RawScript(raw) == raw[Len(raw)] \in Scripts  \* fault: as the URL is written
IsScript(raw) == Clean(raw) # <<>> /\ Last(Clean(raw)) \in Scripts

----------------------------------------------------------------------------
(* Files *)

There(p, e) == <<p, e>> \in Variants /\ disk[<<p, e>>].there

Change == changes < MaxChanges /\ changes' = changes + 1
Deploy(v) ==
  /\ Change
  /\ disk' = [disk EXCEPT ![v] = [there |-> TRUE, version |-> @.version + 1]]
  /\ UNCHANGED <<root, php, cached, pc, request, answer, copy>>
Delete(v) ==
  /\ Change /\ disk[v].there
  /\ disk' = [disk EXCEPT ![v].there = FALSE]
  /\ UNCHANGED <<root, php, cached, pc, request, answer, copy>>

\* Another request caches a Stat; an entry expires (module StatCache).
Warm(v) ==
  /\ cached' = [cached EXCEPT ![v] = IF @ = Nothing THEN disk[v] ELSE Nothing]
  /\ UNCHANGED <<root, php, changes, disk, pc, request, answer, copy>>

\* cachedStat; it remembers errors as well.
Known(v) == IF cached[v] # Nothing THEN cached[v] ELSE disk[v]
Info(v) == <<v, Known(v).version>>
CachedStat(v) == cached' = [cached EXCEPT ![v] = Known(v)]
Exists(p, e) == <<p, e>> \in Variants /\ Known(<<p, e>>).there
Looked(p, e) == IF <<p, e>> \in Variants THEN CachedStat(<<p, e>>) ELSE UNCHANGED cached

----------------------------------------------------------------------------
(* PHPPlugin.HandleRequest *)

At(p) == pc = p
Goto(p) == pc' = p
Fresh == req' = NoRequest /\ node' = <<>> /\ target' = Nothing /\ info' = Nothing /\ missed' = FALSE
Done(what) == pc' = "idle" /\ answer' = what /\ Fresh
Continue(p) == pc' = p /\ UNCHANGED <<request, answer>>

\* The host is looked up without its port: the plugin knows the site's domain.
Request ==
  /\ At("idle")
  /\ \E raw \in Raws, own \in BOOLEAN, accept \in Accepts :
       req' = [raw |-> raw, own |-> own, accept |-> accept]
  /\ Goto(IF php /\ req'.own THEN "script" ELSE "static")
  /\ node' = Clean(req'.raw)
  /\ target' = Nothing /\ info' = Nothing /\ missed' = FALSE /\ answer' = Nothing
  /\ UNCHANGED <<root, php, files, copy>>

Ran(p, pathInfo) == [kind |-> "script", path |-> p, pathInfo |-> pathInfo]

\* os.Stat of the path: a script runs, another file is left to ServeStatic.
StatScript ==
  /\ At("script")
  /\ IF node \notin Dirs /\ There(node, "plain") /\ Localized(node) /\ IsScript(req.raw)
     THEN Done(Ran(node, FALSE))
     ELSE /\ pc' = CASE ~Localized(node)      -> "static"
                     [] node \in Dirs         -> "index.php"
                     [] There(node, "plain")  -> "static"
                     [] OTHER                 -> "front"
          /\ missed' = ~There(node, "plain")
          /\ UNCHANGED <<req, node, target, info, answer>>
  /\ UNCHANGED <<root, php, files, copy>>

\* The index.php of a directory.
StatIndexScript ==
  /\ At("index.php")
  /\ LET index == Append(node, "index.php")
     IN  IF There(index, "plain") THEN Done(Ran(index, FALSE)) ELSE Continue("front")
  /\ UNCHANGED <<root, php, files, copy>>

\* The front controller takes what is not there.
StatFront ==
  /\ At("front")
  /\ IF There(FrontController, "plain") THEN Done(Ran(FrontController, TRUE))
     ELSE Continue("static")
  /\ UNCHANGED <<root, php, files, copy>>

----------------------------------------------------------------------------
(* ServeStatic *)

Status(code) == [kind |-> "status", code |-> code]

\* staticLocalPath
LocalPath ==
  /\ At("static")
  /\ IF root /\ ~HiddenPath(node) /\ Localized(node)
     THEN Continue("stat") ELSE Done(Status(404))
  /\ UNCHANGED <<root, php, files, copy>>

\* The file p is to be served.
Found(p) ==
  /\ node' = p /\ info' = Info(<<p, "plain">>) /\ Goto("br")
  /\ UNCHANGED <<req, target, missed, answer>>

\* A directory is redirected to its path with a slash, or shows its index.  An
\* error other than that nothing is there, such as a file on the way, is a 500.
StatPath ==
  /\ At("stat")
  /\ IF node \in Dirs
     THEN /\ IF Slashed(req.raw) THEN Continue("index") ELSE Done(Status(301))
          /\ UNCHANGED cached
     ELSE /\ Looked(node, "plain")
          /\ IF Exists(node, "plain") THEN Found(node)
             ELSE \E code \in {404, 500} : Done(Status(code))
  /\ UNCHANGED <<root, php, changes, disk, copy>>

Listing(p) ==
  {n \in {v[1][Len(p) + 1] : v \in {w \in Variants :
             disk[w].there /\ Len(w[1]) > Len(p) /\ SubSeq(w[1], 1, Len(p)) = p}} :
     ~Hidden(n)}

StatIndex ==
  /\ At("index")
  /\ LET index == Append(node, "index.html") IN
       /\ Looked(index, "plain")
       /\ IF Exists(index, "plain") THEN Found(index)
          ELSE Done([kind |-> "listing", path |-> node, names |-> Listing(node)])
  /\ UNCHANGED <<root, php, changes, disk, copy>>

\* A compressed variant is served if it is there and accepted.
PlainInfo(e) ==  \* fault: the ETag is that of the plain file
  /\ target' = <<node, e>> /\ UNCHANGED info
Serve(e) ==
  /\ target' = <<node, e>> /\ info' = Info(<<node, e>>)

StatVariant(e, next) ==
  /\ IF e \in req.accept THEN Looked(node, e) ELSE UNCHANGED cached
  /\ IF e \in req.accept /\ Exists(node, e)
     THEN Serve(e) /\ Goto("open")
     ELSE Goto(next) /\ UNCHANGED <<target, info>>
  /\ UNCHANGED <<root, php, changes, disk, req, node, missed, answer, copy>>
StatBrotli == At("br") /\ StatVariant("br", "gzip")
StatGzip   == At("gzip") /\ StatVariant("gzip", "plain")

ServePlain ==
  /\ At("plain") /\ Goto("open") /\ target' = <<node, "plain">>
  /\ UNCHANGED <<root, php, files, req, node, info, missed, answer, copy>>

\* os.Open and http.ServeContent: the body is that of the file opened, the
\* ETag that of the Stat; a copy with this ETag is confirmed.
OpenAndServe ==
  /\ At("open")
  /\ IF ~disk[target].there THEN Done(Status(500)) /\ UNCHANGED copy
     ELSE IF copy # Nothing /\ copy.raw = req.raw /\ copy.tag = info
     THEN Done(Status(304)) /\ UNCHANGED copy
     ELSE /\ Done(Status(200))
          /\ copy' = [raw |-> req.raw, tag |-> info,
                      body |-> <<target, disk[target].version>>]
  /\ UNCHANGED <<root, php, files>>

----------------------------------------------------------------------------
Step ==
  \/ Request \/ StatScript \/ StatIndexScript \/ StatFront
  \/ LocalPath \/ StatPath \/ StatIndex \/ StatBrotli \/ StatGzip \/ ServePlain
  \/ OpenAndServe
FilesNext == Step \/ \E v \in Changing : Deploy(v) \/ Delete(v) \/ Warm(v)

FilesSpec == FilesInit /\ [][FilesNext]_fileVars

----------------------------------------------------------------------------
(* Properties *)

FilesTypeOK ==
  /\ changes \in 0..MaxChanges
  /\ root \in BOOLEAN /\ php \in BOOLEAN /\ missed \in BOOLEAN
  /\ disk \in [Variants -> [there : BOOLEAN, version : 0..(1 + MaxChanges)]]
  /\ \A v \in Variants : cached[v] = Nothing \/ cached[v].version <= disk[v].version
  /\ pc \in {"idle", "script", "index.php", "front", "static", "stat", "index",
             "br", "gzip", "plain", "open"}
  /\ ToSet(node) \cap (Stay \cup {".."}) = {}
  /\ (info = Nothing \/ info \in Variants \X (0..(1 + MaxChanges)))
  /\ target \in Variants \cup {Nothing} /\ (pc = "open" => target # Nothing)

\* Whatever way a path is written, ServeStatic opens and lists nothing without
\* a root, nothing behind a dotted name but .well-known, and no other file than
\* the path's, or its index, in an encoding the client takes
\* (static_handler.go:202-234).
NotServed == DotNames \ {".well-known"}
Dotted(p) == ToSet(p) \cap NotServed # {}
Confined ==
  /\ target # Nothing =>
       /\ root /\ ~Dotted(target[1]) /\ target[2] \in req.accept \cup {"plain"}
       /\ target[1] \in {Clean(req.raw), Append(Clean(req.raw), "index.html")}
  /\ answer # Nothing /\ answer.kind = "listing" =>
       root /\ ~Dotted(answer.path) /\ answer.names \cap NotServed = {}

\* The two handlers agree on what a script is (php.go:94-118): for the site's
\* own domain, the static handler sends the text of a script only if the file
\* came after the plugin had looked for it.
ScriptsAreRun ==
  pc = "open" /\ php /\ req.own /\ Last(target[1]) \in Scripts => missed

\* A validator is honest (static_handler.go:127-192): the body a client keeps is
\* of the very file its ETag was made from, and not older, although the Stat
\* may be a cached one and the file replaced before it is opened. So a 304
\* never confirms what is older than the Stat it rests on.
ValidatorHonest ==
  copy # Nothing => copy.body[1] = copy.tag[1] /\ copy.body[2] >= copy.tag[2]

=============================================================================
