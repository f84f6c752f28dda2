----------------------------- MODULE AccessLog -----------------------------
(***************************************************************************)
(* The asynchronous access log: requests take an entry from a pool, fill   *)
(* it and send the pointer over a bounded channel, or drop it when the     *)
(* channel is full; one worker writes the lines, adds them to the monitor's *)
(* ring of recent requests and returns the entries to the pool.            *)
(*                                                                         *)
(* The worker runs until the process ends: nothing calls Shutdown.         *)
(***************************************************************************)
EXTENDS Integers, Sequences, FiniteSets

CONSTANTS
  Requests,
  Lines,       \* what the fields of an entry may say
  Entries,     \* the entries the pool's New may allocate
  BufferSize,  \* capacity of logChan
  RingSize,    \* maxRequestLogs
  Blank,       \* the fields of a reset entry
  NoEntry

ASSUME LogAssumption ==
  /\ BufferSize \in Nat \ {0} /\ RingSize \in Nat \ {0}
  /\ Blank \notin Lines /\ NoEntry \notin Entries
  /\ IsFiniteSet(Requests)

VARIABLES
  chan,      \* logChan: entries sent and not received
  fresh,     \* entries not yet allocated
  pooled,    \* logEntryPool: how many times it holds an entry
  content,   \* per entry: its fields
  held,      \* per request: the entry it works on, or NoEntry
  hand,      \* the entry the worker received, or NoEntry
  worker,    \* control point of the worker
  scratch,   \* the worker's fields map
  count,     \* requestCount
  items,     \* requestLogs.items
  log,       \* the lines written, in order
  lost       \* history: the lines dropped

pool == <<fresh, pooled>>
monitor == <<count, items>>
logVars == <<chan, pool, content, held, hand, worker, scratch, monitor, log, lost>>

LogInit ==
  /\ chan = <<>>
  /\ fresh = Entries /\ pooled = [e \in Entries |-> 0]
  /\ content = [e \in Entries |-> Blank]
  /\ held = [r \in Requests |-> NoEntry]
  /\ hand = NoEntry /\ worker = "receive" /\ scratch = Blank
  /\ count = 0 /\ items = <<>>
  /\ log = <<>> /\ lost = <<>>

----------------------------------------------------------------------------
(* A request *)

\* GetEntry: an entry of the pool, or a new one. The pool may hide what it
\* holds (per-processor lists, the garbage collector).
GetEntry(r) ==
  /\ held[r] = NoEntry
  /\ \E e \in Entries :
       /\ held' = [held EXCEPT ![r] = e]
       /\ \/ /\ fresh # {} /\ e = CHOOSE f \in fresh : TRUE
             /\ fresh' = fresh \ {e} /\ UNCHANGED pooled
          \/ pooled[e] > 0 /\ pooled' = [pooled EXCEPT ![e] = @ - 1] /\ UNCHANGED fresh
  /\ UNCHANGED <<chan, content, hand, worker, scratch, monitor, log, lost>>

\* The assignments to the entry's fields.
Fill(r, line) ==
  /\ held[r] # NoEntry
  /\ content' = [content EXCEPT ![held[r]] = line]
  /\ UNCHANGED <<chan, pool, held, hand, worker, scratch, monitor, log, lost>>

PutEntry(e) ==
  /\ pooled' = [pooled EXCEPT ![e] = @ + 1]
  /\ content' = [content EXCEPT ![e] = Blank]

\* select: there is room in the channel.
SharedSend(r) ==  \* fault: the entry is returned to the pool as well
  /\ held[r] # NoEntry /\ Len(chan) < BufferSize
  /\ chan' = Append(chan, held[r])
  /\ pooled' = [pooled EXCEPT ![held[r]] = @ + 1]
  /\ held' = [held EXCEPT ![r] = NoEntry]
  /\ UNCHANGED <<fresh, content, hand, worker, scratch, monitor, log, lost>>
Send(r) ==
  /\ held[r] # NoEntry /\ Len(chan) < BufferSize
  /\ chan' = Append(chan, held[r])
  /\ held' = [held EXCEPT ![r] = NoEntry]
  /\ UNCHANGED <<pool, content, hand, worker, scratch, monitor, log, lost>>

\* select: default.
DropOldest(r) ==  \* fault: the line that waited longest makes room
  /\ held[r] # NoEntry /\ Len(chan) = BufferSize
  /\ PutEntry(chan[1])
  /\ lost' = Append(lost, content[chan[1]])
  /\ chan' = Append(Tail(chan), held[r])
  /\ held' = [held EXCEPT ![r] = NoEntry]
  /\ UNCHANGED <<fresh, hand, worker, scratch, monitor, log>>
Drop(r) ==
  /\ held[r] # NoEntry /\ Len(chan) = BufferSize
  /\ PutEntry(held[r])
  /\ lost' = Append(lost, content[held[r]])
  /\ held' = [held EXCEPT ![r] = NoEntry]
  /\ UNCHANGED <<chan, fresh, hand, worker, scratch, monitor, log>>

----------------------------------------------------------------------------
(* The worker *)

At(p, q) == worker = p /\ worker' = q

\* for entry := range al.logChan
Receive ==
  /\ At("receive", "fields") /\ chan # <<>>
  /\ hand' = Head(chan) /\ chan' = Tail(chan)
  /\ UNCHANGED <<pool, content, held, scratch, monitor, log, lost>>

\* The scratch map is emptied and filled from the entry.
BuildFields ==
  /\ At("fields", "info")
  /\ scratch' = content[hand]
  /\ UNCHANGED <<chan, pool, content, held, hand, monitor, log, lost>>

\* entry.Logger.WithFields(fields).Info(entry.Message)
WriteLine ==
  /\ At("info", "count")
  /\ log' = Append(log, scratch)
  /\ UNCHANGED <<chan, pool, content, held, hand, scratch, monitor, lost>>

\* AddRequestLog: atomic.AddUint64(&requestCount, 1)
CountRequest ==
  /\ At("count", "append")
  /\ count' = count + 1
  /\ UNCHANGED <<chan, pool, content, held, hand, scratch, items, log, lost>>

LastN(s, n) == SubSeq(s, Len(s) - n + 1, Len(s))

LateTrim(s) == IF Len(s) > RingSize + 1 THEN LastN(s, RingSize) ELSE s  \* fault
KeepFirst(s) == IF Len(s) > RingSize THEN SubSeq(s, 1, RingSize) ELSE s  \* fault
Trim(s) == IF Len(s) > RingSize THEN LastN(s, RingSize) ELSE s

\* AddRequestLog: append under the lock.
AppendItem ==
  /\ At("append", "put")
  /\ items' = Trim(Append(items, scratch))
  /\ UNCHANGED <<chan, pool, content, held, hand, scratch, count, log, lost>>

Return ==
  /\ At("put", "receive")
  /\ PutEntry(hand)
  /\ hand' = NoEntry
  /\ UNCHANGED <<chan, fresh, held, scratch, monitor, log, lost>>

Worker == Receive \/ BuildFields \/ WriteLine \/ CountRequest \/ AppendItem \/ Return

\* RecentRequestLogs
Recent(limit) ==
  LastN(items, IF limit <= 0 \/ limit > Len(items) THEN Len(items) ELSE limit)

----------------------------------------------------------------------------
LogNext ==
  \/ \E r \in Requests :
       \/ GetEntry(r) \/ Send(r) \/ Drop(r)
       \/ \E l \in Lines : Fill(r, l)
  \/ Worker

\* The worker is a goroutine that never blocks but on an empty channel.
LogFairness == WF_logVars(Worker)

LogSafety == LogInit /\ [][LogNext]_logVars
LogSpec == LogSafety /\ LogFairness

----------------------------------------------------------------------------
(* Properties *)

\* The worker holds an entry unless it waits for one.
LogTypeOK ==
  /\ chan \in Seq(Entries) /\ Len(chan) <= BufferSize
  /\ fresh \subseteq Entries /\ pooled \in [Entries -> Nat]
  /\ content \in [Entries -> Lines \cup {Blank}]
  /\ held \in [Requests -> Entries \cup {NoEntry}]
  /\ worker \in {"receive", "fields", "info", "count", "append", "put"}
  /\ hand \in Entries \cup {NoEntry} /\ (hand = NoEntry <=> worker = "receive")
  /\ scratch \in Lines \cup {Blank}
  /\ count \in Nat
  /\ items \in Seq(Lines \cup {Blank}) /\ Len(items) <= RingSize
  /\ log \in Seq(Lines \cup {Blank}) /\ lost \in Seq(Lines \cup {Blank})

\* An entry is in one place at a time: unallocated, in the pool (once), with
\* one request, at one position of the channel, or with the worker. A second
\* place would let a request overwrite a line that waits to be written
\* (async_logger.go:61-75, 97).
Queued(e) == \E i \in 1..Len(chan) : chan[i] = e
Exclusive ==
  /\ \A i, j \in 1..Len(chan) : chan[i] = chan[j] => i = j
  /\ \A r, s \in Requests : held[r] = held[s] /\ held[r] # NoEntry => r = s
  /\ \A e \in Entries :
       /\ pooled[e] <= 1
       /\ \A r \in Requests : held[r] = e =>
            pooled[e] = 0 /\ e \notin fresh /\ ~Queued(e) /\ hand # e
       /\ Queued(e) => pooled[e] = 0 /\ e \notin fresh /\ hand # e
       /\ hand = e => pooled[e] = 0 /\ e \notin fresh
       /\ e \in fresh => pooled[e] = 0

\* The monitor (monitor.go:30-62) shows the last lines of the log and counts
\* all of them; it lags by at most the line the worker is busy with.
Behind(points) == IF worker \in points THEN 1 ELSE 0
Shown == SubSeq(log, 1, Len(log) - Behind({"count", "append"}))
MonitorFollowsLog ==
  /\ count = Len(log) - Behind({"count"})
  /\ \A n \in 1..RingSize :
       Recent(n) = IF n < Len(Shown) THEN LastN(Shown, n) ELSE Shown

\* The pool of pointers and the channel implement a first-in first-out queue
\* of values that loses a line only when it is full and writes every line it
\* accepted: nothing overwrites a line on its way to the log.
InHand == CASE worker = "fields" -> <<content[hand]>>
            [] worker = "info"   -> <<scratch>>
            [] OTHER             -> <<>>
Waiting == InHand \o [i \in 1..Len(chan) |-> content[chan[i]]]
Abstract == INSTANCE LossyLog WITH Lines <- Lines \cup {Blank}, queue <- Waiting
ImplementsLossyLog == Abstract!Spec

=============================================================================
