-------------------------- MODULE PipelineProofs --------------------------
(***************************************************************************)
(* Proofs about AccessLog, for any number of requests, entries and lines   *)
(* and any capacities: no entry is ever in two places, the monitor shows   *)
(* the end of the log, and the log implements LossyLog.                    *)
(*                                                                         *)
(* Then about Pipeline, for any set of requests, any configurations and    *)
(* kinds: its steps are steps of the access log or leave it alone, so what *)
(* holds of the log holds; the tokens of the cap are those of the requests *)
(* inside; a request the edge refuses reaches no plugin; a body is in the  *)
(* encoding its header announces; and a line of the log tells the status   *)
(* that was sent.                                                          *)
(***************************************************************************)
EXTENDS Pipeline, SequenceTheorems, FiniteSetTheorems, TLAPS

LogInv == LogTypeOK /\ Exclusive

----------------------------------------------------------------------------
(* Types *)

\* The first states are well typed.
LEMMA LogInitTypes == ASSUME LogInit PROVE LogTypeOK
  BY LogAssumption DEF LogInit, LogTypeOK, pool, monitor

\* A reset and returned entry is as well typed as before.
LEMMA PutEntryTypes ==
  ASSUME LogTypeOK, NEW e \in Entries, PutEntry(e)
  PROVE  pooled' \in [Entries -> Nat] /\ content' \in [Entries -> Lines \cup {Blank}]
  BY DEF PutEntry, LogTypeOK

\* What the ring keeps is well typed and fits.
LEMMA TrimTypes ==
  ASSUME NEW S, NEW s \in Seq(S), Len(s) <= RingSize + 1
  PROVE  Trim(s) \in Seq(S) /\ Len(Trim(s)) <= RingSize
<1>1. RingSize \in Nat \ {0} /\ Len(s) \in Nat
  BY LogAssumption
<1>2. CASE Len(s) > RingSize
  <2>1. Trim(s) = SubSeq(s, 2, Len(s))
    BY <1>1, <1>2 DEF Trim, LastN
  <2>2. SubSeq(s, 2, Len(s)) \in Seq(S) /\ Len(SubSeq(s, 2, Len(s))) = Len(s) - 1
    BY <1>1, <1>2, SubSeqProperties
  <2> QED BY <1>1, <2>1, <2>2
<1>3. CASE ~(Len(s) > RingSize)
  BY <1>1, <1>3 DEF Trim
<1> QED BY <1>2, <1>3

\* Every step keeps the types.
LEMMA LogTypes == ASSUME LogTypeOK, [LogNext]_logVars PROVE LogTypeOK'
<1> USE DEF pool, monitor, At
<1>1. ASSUME NEW r \in Requests, GetEntry(r) PROVE LogTypeOK'
  <2>1. UNCHANGED <<chan, content, hand, worker, scratch, count, items, log, lost>>
        /\ held' \in [Requests -> Entries \cup {NoEntry}] /\ fresh' \subseteq Entries
    BY <1>1 DEF GetEntry, LogTypeOK
  <2>2. pooled' \in [Entries -> Nat]
    <3>1. ASSUME NEW e \in Entries, pooled[e] > 0 PROVE pooled[e] - 1 \in Nat
      BY <3>1 DEF LogTypeOK
    <3>2. \/ pooled' = pooled
          \/ \E e \in Entries : pooled[e] > 0 /\ pooled' = [pooled EXCEPT ![e] = pooled[e] - 1]
      BY <1>1 DEF GetEntry
    <3> QED BY <3>1, <3>2 DEF LogTypeOK
  <2> QED BY <2>1, <2>2 DEF LogTypeOK
<1>2. ASSUME NEW r \in Requests, NEW l \in Lines, Fill(r, l) PROVE LogTypeOK'
  BY <1>2 DEF Fill, LogTypeOK
<1>3. ASSUME NEW r \in Requests, Send(r) PROVE LogTypeOK'
  <2>1. held[r] \in Entries /\ Len(chan) + 1 <= BufferSize
    BY <1>3, LogAssumption DEF Send, LogTypeOK
  <2>2. chan' \in Seq(Entries) /\ Len(chan') <= BufferSize
    BY <1>3, <2>1, LogAssumption DEF Send, LogTypeOK
  <2> QED BY <1>3, <2>2 DEF Send, LogTypeOK
<1>4. ASSUME NEW r \in Requests, Drop(r) PROVE LogTypeOK'
  <2>1. held[r] \in Entries /\ content[held[r]] \in Lines \cup {Blank}
    BY <1>4 DEF Drop, LogTypeOK
  <2>2. pooled' \in [Entries -> Nat] /\ content' \in [Entries -> Lines \cup {Blank}]
    BY <1>4, <2>1, PutEntryTypes DEF Drop
  <2>3. lost' \in Seq(Lines \cup {Blank})
    BY <1>4, <2>1 DEF Drop, LogTypeOK
  <2> QED BY <1>4, <2>2, <2>3 DEF Drop, LogTypeOK
<1>5. CASE Receive
  <2>1. chan' \in Seq(Entries) /\ Len(chan') <= BufferSize /\ hand' \in Entries
    BY <1>5, HeadTailProperties, LogAssumption DEF Receive, LogTypeOK
  <2> QED BY <1>5, <2>1, LogAssumption DEF Receive, LogTypeOK
<1>6. CASE BuildFields
  BY <1>6 DEF BuildFields, LogTypeOK
<1>7. CASE WriteLine
  <2>1. log' \in Seq(Lines \cup {Blank})
    BY <1>7 DEF WriteLine, LogTypeOK
  <2> QED BY <1>7, <2>1 DEF WriteLine, LogTypeOK
<1>8. CASE CountRequest
  BY <1>8 DEF CountRequest, LogTypeOK
<1>9. CASE AppendItem
  <2>1. Append(items, scratch) \in Seq(Lines \cup {Blank}) /\ Len(Append(items, scratch)) <= RingSize + 1
    BY LogAssumption DEF LogTypeOK
  <2>2. items' \in Seq(Lines \cup {Blank}) /\ Len(items') <= RingSize
    BY <1>9, <2>1, TrimTypes DEF AppendItem
  <2> QED BY <1>9, <2>2 DEF AppendItem, LogTypeOK
<1>10. CASE Return
  <2>1. hand \in Entries
    BY <1>10 DEF Return, LogTypeOK
  <2>2. pooled' \in [Entries -> Nat] /\ content' \in [Entries -> Lines \cup {Blank}]
    BY <1>10, <2>1, PutEntryTypes DEF Return
  <2> QED BY <1>10, <2>2 DEF Return, LogTypeOK
<1>11. CASE UNCHANGED logVars
  BY <1>11 DEF logVars, LogTypeOK
<1> QED BY <1>1, <1>2, <1>3, <1>4, <1>5, <1>6, <1>7, <1>8, <1>9, <1>10, <1>11
        DEF LogNext, Worker

----------------------------------------------------------------------------
(* One place at a time *)

\* The first states.
LEMMA LogInitExclusive == ASSUME LogInit PROVE Exclusive
  BY LogAssumption DEF LogInit, Exclusive, Queued, pool

\* Every step moves an entry from one place to another.
LEMMA LogExclusive == ASSUME LogInv, [LogNext]_logVars PROVE Exclusive'
<1> USE DEF pool, monitor, At, LogInv
<1>0. /\ NoEntry \notin Entries /\ Len(chan) \in Nat
      /\ \A i \in 1..Len(chan) : chan[i] \in Entries
  BY LogAssumption DEF LogTypeOK
<1>1. ASSUME NEW r \in Requests, GetEntry(r) PROVE Exclusive'
  <2>1. PICK e \in Entries :
          /\ held' = [held EXCEPT ![r] = e]
          /\ \/ e \in fresh /\ fresh' = fresh \ {e} /\ UNCHANGED pooled
             \/ pooled[e] > 0 /\ pooled' = [pooled EXCEPT ![e] = @ - 1] /\ UNCHANGED fresh
    BY <1>1 DEF GetEntry
  <2>2. UNCHANGED <<chan, hand>> /\ \A f \in Entries : Queued(f)' = Queued(f)
    BY <1>1 DEF GetEntry, Queued
  <2>3. ~Queued(e) /\ hand # e /\ \A s \in Requests : held[s] # e
    BY <2>1 DEF Exclusive, LogTypeOK
  <2>4. pooled'[e] = 0 /\ e \notin fresh'
    BY <2>1 DEF Exclusive, LogTypeOK
  <2>5. \A f \in Entries \ {e} : pooled'[f] = pooled[f] /\ (f \in fresh' <=> f \in fresh)
    BY <2>1 DEF LogTypeOK
  <2>6. \A s \in Requests : held'[s] = IF s = r THEN e ELSE held[s]
    BY <2>1 DEF LogTypeOK
  <2> QED BY <2>2, <2>3, <2>4, <2>5, <2>6 DEF Exclusive
<1>2. ASSUME NEW r \in Requests, NEW l \in Lines, Fill(r, l) PROVE Exclusive'
  BY <1>2 DEF Fill, Exclusive, Queued
<1>3. ASSUME NEW r \in Requests, Send(r) PROVE Exclusive'
  <2>1. PICK e \in Entries : e = held[r]
    BY <1>3 DEF Send, LogTypeOK
  <2>2. pooled[e] = 0 /\ e \notin fresh /\ ~Queued(e) /\ hand # e
        /\ \A s \in Requests \ {r} : held[s] # e
    BY <2>1, <1>0 DEF Exclusive
  <2>3. /\ Len(chan') = Len(chan) + 1 /\ chan'[Len(chan) + 1] = e
        /\ \A i \in 1..Len(chan) : chan'[i] = chan[i]
    BY <1>3, <2>1 DEF Send, LogTypeOK
  <2>4. \A f \in Entries : Queued(f)' <=> Queued(f) \/ f = e
    BY <1>0, <2>3 DEF Queued
  <2>5. \A s \in Requests : held'[s] = IF s = r THEN NoEntry ELSE held[s]
    BY <1>3 DEF Send, LogTypeOK
  <2>6. \A i, j \in 1..Len(chan') : chan'[i] = chan'[j] => i = j
    BY <1>0, <2>2, <2>3 DEF Exclusive, Queued
  <2>7. UNCHANGED <<pooled, fresh, hand>>
    BY <1>3 DEF Send
  <2> QED BY <1>0, <2>2, <2>4, <2>5, <2>6, <2>7 DEF Exclusive
<1>4. ASSUME NEW r \in Requests, Drop(r) PROVE Exclusive'
  <2>1. PICK e \in Entries : e = held[r]
    BY <1>4 DEF Drop, LogTypeOK
  <2>2. pooled[e] = 0 /\ e \notin fresh /\ ~Queued(e) /\ hand # e
        /\ \A s \in Requests \ {r} : held[s] # e
    BY <2>1, <1>0 DEF Exclusive
  <2>3. UNCHANGED <<chan, hand, fresh>> /\ \A f \in Entries : Queued(f)' = Queued(f)
    BY <1>4 DEF Drop, Queued
  <2>4. pooled'[e] = 1 /\ \A f \in Entries \ {e} : pooled'[f] = pooled[f]
    BY <1>4, <2>1, <2>2 DEF Drop, PutEntry, LogTypeOK
  <2>5. \A s \in Requests : held'[s] = IF s = r THEN NoEntry ELSE held[s]
    BY <1>4 DEF Drop, LogTypeOK
  <2> QED BY <1>0, <2>2, <2>3, <2>4, <2>5 DEF Exclusive
<1>5. CASE Receive
  <2>1. PICK e \in Entries : e = Head(chan)
    BY <1>5, <1>0 DEF Receive
  <2>2. /\ Len(chan') = Len(chan) - 1 /\ Len(chan) >= 1 /\ e = chan[1]
        /\ \A i \in 1..Len(chan') : chan'[i] = chan[i + 1]
    BY <1>5, <2>1 DEF Receive, LogTypeOK
  <2>3. \A f \in Entries : Queued(f)' <=> Queued(f) /\ f # e
    <3> SUFFICES ASSUME NEW f \in Entries PROVE Queued(f)' <=> Queued(f) /\ f # e
      OBVIOUS
    <3>1. ASSUME Queued(f)' PROVE Queued(f) /\ f # e
      <4>1. PICK i \in 1..Len(chan') : chan'[i] = f
        BY <3>1 DEF Queued
      <4>2. i + 1 \in 1..Len(chan) /\ i + 1 # 1 /\ chan[i + 1] = f
        BY <1>0, <2>2, <4>1
      <4> QED BY <1>0, <2>2, <4>2 DEF Queued, Exclusive
    <3>2. ASSUME Queued(f), f # e PROVE Queued(f)'
      <4>1. PICK i \in 1..Len(chan) : chan[i] = f
        BY <3>2 DEF Queued
      <4>2. i - 1 \in 1..Len(chan') /\ chan'[i - 1] = f
        BY <1>0, <2>2, <3>2, <4>1
      <4> QED BY <4>2 DEF Queued
    <3> QED BY <3>1, <3>2
  <2>4. \A i, j \in 1..Len(chan') : chan'[i] = chan'[j] => i = j
    <3> SUFFICES ASSUME NEW i \in 1..Len(chan'), NEW j \in 1..Len(chan'), chan'[i] = chan'[j]
                 PROVE  i = j
      OBVIOUS
    <3>1. i + 1 \in 1..Len(chan) /\ j + 1 \in 1..Len(chan) /\ chan[i + 1] = chan[j + 1]
      BY <1>0, <2>2
    <3> QED BY <3>1 DEF Exclusive
  <2>5. Queued(e)
    BY <1>0, <2>2 DEF Queued
  <2>6. UNCHANGED <<held, pooled, fresh>> /\ hand' = e /\ hand = NoEntry
    BY <1>5, <2>1 DEF Receive, LogTypeOK
  <2> QED BY <1>0, <2>3, <2>4, <2>5, <2>6 DEF Exclusive
<1>6. CASE BuildFields \/ WriteLine \/ CountRequest \/ AppendItem \/ UNCHANGED logVars
  BY <1>6 DEF BuildFields, WriteLine, CountRequest, AppendItem, logVars, Exclusive, Queued
<1>7. CASE Return
  <2>1. PICK e \in Entries : e = hand
    BY <1>7 DEF Return, LogTypeOK
  <2>2. pooled[e] = 0 /\ e \notin fresh /\ ~Queued(e) /\ \A s \in Requests : held[s] # e
    BY <2>1 DEF Exclusive
  <2>3. UNCHANGED <<chan, held, fresh>> /\ \A f \in Entries : Queued(f)' = Queued(f)
    BY <1>7 DEF Return, Queued
  <2>4. pooled'[e] = 1 /\ \A f \in Entries \ {e} : pooled'[f] = pooled[f]
    BY <1>7, <2>1, <2>2 DEF Return, PutEntry, LogTypeOK
  <2>5. hand' = NoEntry
    BY <1>7 DEF Return
  <2> QED BY <1>0, <2>2, <2>3, <2>4, <2>5 DEF Exclusive
<1> QED BY <1>1, <1>2, <1>3, <1>4, <1>5, <1>6, <1>7 DEF LogNext, Worker

\* An entry of the pool is in one place at a time (async_logger.go:61-75, 97).
THEOREM EntriesExclusive == LogSafety => []Exclusive
<1>1. LogInit => LogInv
  BY LogInitTypes, LogInitExclusive DEF LogInv
<1>2. LogInv /\ [LogNext]_logVars => LogInv'
  <2>1. ASSUME LogInv, [LogNext]_logVars PROVE LogTypeOK' /\ Exclusive'
    BY <2>1, LogTypes, LogExclusive DEF LogInv
  <2> QED BY <2>1 DEF LogInv
<1>3. LogInv => Exclusive
  BY DEF LogInv
<1> QED BY <1>1, <1>2, <1>3, PTL DEF LogSafety

----------------------------------------------------------------------------
(* The monitor *)

\* The last lines of s, at most n of them.
Tailed(s, n) == IF Len(s) > n THEN LastN(s, n) ELSE s

\* What MonitorFollowsLog rests on: the ring is the tail of what is shown, and
\* the line the worker is busy with is the last of the log.
RingInv ==
  /\ count = Len(log) - Behind({"count"})
  /\ items = Tailed(Shown, RingSize)
  /\ worker \in {"count", "append"} => log # <<>> /\ log[Len(log)] = scratch

\* The end of a sequence is a sequence.
LEMMA LastNProperties ==
  ASSUME NEW S, NEW s \in Seq(S), NEW n \in 0..Len(s)
  PROVE  /\ LastN(s, n) \in Seq(S) /\ Len(LastN(s, n)) = n
         /\ \A i \in 1..n : LastN(s, n)[i] = s[Len(s) - n + i]
<1>1. Len(s) \in Nat /\ n \in Nat /\ n <= Len(s)
  OBVIOUS
<1>2. CASE n = 0
  BY <1>1, <1>2, SubSeqProperties DEF LastN
<1>3. CASE n > 0
  <2>1. Len(s) - n + 1 \in 1..Len(s) /\ Len(s) \in 1..Len(s)
    BY <1>1, <1>3
  <2>2. /\ LastN(s, n) \in Seq(S)
        /\ Len(LastN(s, n)) = IF Len(s) - n + 1 <= Len(s) THEN Len(s) - (Len(s) - n + 1) + 1 ELSE 0
        /\ \A i \in 1..(Len(s) - (Len(s) - n + 1) + 1) : LastN(s, n)[i] = s[(Len(s) - n + 1) + i - 1]
    BY <2>1, SubSeqProperties DEF LastN
  <2> QED BY <1>1, <1>3, <2>2
<1> QED BY <1>1, <1>2, <1>3

\* The end of the end is the end.
LEMMA LastNLastN ==
  ASSUME NEW S, NEW s \in Seq(S), NEW n \in 0..Len(s), NEW k \in 0..n
  PROVE  LastN(LastN(s, n), k) = LastN(s, k)
<1>1. k \in 0..Len(s) /\ Len(s) \in Nat /\ n \in Nat /\ k \in Nat
  OBVIOUS
<1>2. LastN(s, n) \in Seq(S) /\ Len(LastN(s, n)) = n
      /\ \A i \in 1..n : LastN(s, n)[i] = s[Len(s) - n + i]
  BY LastNProperties
<1>3. LastN(s, k) \in Seq(S) /\ Len(LastN(s, k)) = k
      /\ \A i \in 1..k : LastN(s, k)[i] = s[Len(s) - k + i]
  BY <1>1, LastNProperties
<1>4. LastN(LastN(s, n), k) \in Seq(S) /\ Len(LastN(LastN(s, n), k)) = k
      /\ \A i \in 1..k : LastN(LastN(s, n), k)[i] = LastN(s, n)[n - k + i]
  <2> DEFINE t == LastN(s, n)
  <2>1. t \in Seq(S) /\ Len(t) = n /\ k \in 0..Len(t)
    BY <1>2
  <2> HIDE DEF t
  <2>2. LastN(t, k) \in Seq(S) /\ Len(LastN(t, k)) = k
        /\ \A i \in 1..k : LastN(t, k)[i] = t[Len(t) - k + i]
    BY <2>1, LastNProperties
  <2>3. LastN(t, k) \in Seq(S) /\ Len(LastN(t, k)) = k
        /\ \A i \in 1..k : LastN(t, k)[i] = t[n - k + i]
    BY <2>1, <2>2
  <2> QED BY <2>3 DEF t
<1>5. \A i \in 1..k : LastN(LastN(s, n), k)[i] = LastN(s, k)[i]
  <2> SUFFICES ASSUME NEW i \in 1..k
               PROVE  LastN(LastN(s, n), k)[i] = LastN(s, k)[i]
    OBVIOUS
  <2>1. n - k + i \in 1..n /\ Len(s) - n + (n - k + i) = Len(s) - k + i
    BY <1>1
  <2> QED BY <1>2, <1>3, <1>4, <2>1
<1> QED BY <1>3, <1>4, <1>5, SeqEqual

\* All of it is the end of it.
LEMMA LastNAll ==
  ASSUME NEW S, NEW s \in Seq(S)
  PROVE  LastN(s, Len(s)) = s
<1>1. Len(s) \in Nat /\ Len(s) \in 0..Len(s)
  OBVIOUS
<1>2. LastN(s, Len(s)) \in Seq(S) /\ Len(LastN(s, Len(s))) = Len(s)
      /\ \A i \in 1..Len(s) : LastN(s, Len(s))[i] = s[Len(s) - Len(s) + i]
  BY <1>1, LastNProperties
<1> QED BY <1>1, <1>2, SeqEqual

\* A line more in the ring is a line more of what is shown.
LEMMA TrimTailed ==
  ASSUME NEW S, NEW s \in Seq(S), NEW l \in S
  PROVE  Trim(Append(Tailed(s, RingSize), l)) = Tailed(Append(s, l), RingSize)
<1> DEFINE N == RingSize
           a == Append(s, l)
           t == Append(Tailed(s, N), l)
<1>1. N \in Nat \ {0} /\ Len(s) \in Nat
  BY LogAssumption
<1>2. a \in Seq(S) /\ Len(a) = Len(s) + 1 /\ a[Len(s) + 1] = l
      /\ \A i \in 1..Len(s) : a[i] = s[i]
  OBVIOUS
<1>3. CASE Len(s) > N
  <2>1. Tailed(s, N) \in Seq(S) /\ Len(Tailed(s, N)) = N
        /\ \A i \in 1..N : Tailed(s, N)[i] = s[Len(s) - N + i]
    BY <1>1, <1>3, LastNProperties DEF Tailed
  <2>2. t \in Seq(S) /\ Len(t) = N + 1 /\ t[N + 1] = l
        /\ \A i \in 1..N : t[i] = s[Len(s) - N + i]
    BY <1>1, <2>1
  <2>3. Trim(t) = LastN(t, N) /\ Tailed(a, N) = LastN(a, N)
    BY <1>1, <1>2, <1>3, <2>2 DEF Trim, Tailed
  <2>4. LastN(t, N) \in Seq(S) /\ Len(LastN(t, N)) = N
        /\ \A i \in 1..N : LastN(t, N)[i] = t[1 + i]
    <3>1. t \in Seq(S) /\ N \in 0..Len(t) /\ \A i \in 1..N : Len(t) - N + i = 1 + i
      BY <1>1, <2>2
    <3> HIDE DEF t, N
    <3>2. LastN(t, N) \in Seq(S) /\ Len(LastN(t, N)) = N
          /\ \A i \in 1..N : LastN(t, N)[i] = t[Len(t) - N + i]
      BY <3>1, LastNProperties
    <3> QED BY <3>1, <3>2
  <2>5. LastN(a, N) \in Seq(S) /\ Len(LastN(a, N)) = N
        /\ \A i \in 1..N : LastN(a, N)[i] = a[Len(s) + 1 - N + i]
    <3>1. a \in Seq(S) /\ N \in 0..Len(a)
      BY <1>1, <1>2, <1>3
    <3> HIDE DEF a, N
    <3>2. LastN(a, N) \in Seq(S) /\ Len(LastN(a, N)) = N
          /\ \A i \in 1..N : LastN(a, N)[i] = a[Len(a) - N + i]
      BY <3>1, LastNProperties
    <3> QED BY <1>2, <3>2
  <2>6. \A i \in 1..N : LastN(t, N)[i] = LastN(a, N)[i]
    <3> SUFFICES ASSUME NEW i \in 1..N PROVE LastN(t, N)[i] = LastN(a, N)[i]
      OBVIOUS
    <3> HIDE DEF t, a
    <3>1. CASE i = N
      <4>1. 1 + i = N + 1 /\ Len(s) + 1 - N + i = Len(s) + 1
        BY <1>1, <3>1
      <4> QED BY <1>2, <2>2, <2>4, <2>5, <4>1
    <3>2. CASE i # N
      <4>1. 1 + i \in 1..N /\ Len(s) + 1 - N + i \in 1..Len(s)
            /\ Len(s) - N + (1 + i) = Len(s) + 1 - N + i
        BY <1>1, <1>3, <3>2
      <4> QED BY <1>2, <2>2, <2>4, <2>5, <4>1
    <3> QED BY <3>1, <3>2
  <2>7. LastN(t, N) = LastN(a, N)
    <3> HIDE DEF t, a, N
    <3> QED BY <2>4, <2>5, <2>6, SeqEqual
  <2> QED BY <2>3, <2>7
<1>4. CASE ~(Len(s) > N)
  BY <1>1, <1>2, <1>4 DEF Trim, Tailed
<1> QED BY <1>3, <1>4

\* What is shown is the log, or all of it but the line that is not shown yet.
LEMMA ShownIs ==
  ASSUME LogTypeOK, RingInv
  PROVE  /\ Shown \in Seq(Lines \cup {Blank})
         /\ worker \notin {"count", "append"} => Shown = log
         /\ worker \in {"count", "append"} => log = Append(Shown, scratch)
<1> DEFINE S == Lines \cup {Blank}
<1>1. log \in Seq(S) /\ Len(log) \in Nat /\ scratch \in S
  BY DEF LogTypeOK
<1>2. CASE worker \notin {"count", "append"}
  <2>1. Shown = LastN(log, Len(log))
    BY <1>1, <1>2 DEF Shown, Behind, LastN
  <2>2. Shown = log
    BY <1>1, <2>1, LastNAll
  <2> QED BY <1>1, <1>2, <2>2
<1>3. CASE worker \in {"count", "append"}
  <2>1. log # <<>> /\ log[Len(log)] = scratch /\ Len(log) >= 1
    BY <1>1, <1>3 DEF RingInv
  <2>2. Shown = SubSeq(log, 1, Len(log) - 1)
    BY <1>3 DEF Shown, Behind
  <2>3. Shown \in Seq(S) /\ Len(Shown) = Len(log) - 1
        /\ \A i \in 1..(Len(log) - 1) : Shown[i] = log[i]
    <3>1. \A i \in 1..(Len(log) - 1) : log[i] \in S
      BY <1>1, <2>1
    <3>2. /\ SubSeq(log, 1, Len(log) - 1) \in Seq(S)
          /\ Len(SubSeq(log, 1, Len(log) - 1)) =
               IF 1 <= Len(log) - 1 THEN (Len(log) - 1) - 1 + 1 ELSE 0
          /\ \A i \in 1..((Len(log) - 1) - 1 + 1) :
               SubSeq(log, 1, Len(log) - 1)[i] = log[1 + i - 1]
      <4> HIDE DEF S
      <4> QED BY <1>1, <3>1, SubSeqProperties
    <3>3. (Len(log) - 1) - 1 + 1 = Len(log) - 1 /\ \A i \in 1..(Len(log) - 1) : 1 + i - 1 = i
      BY <1>1
    <3> QED BY <1>1, <2>1, <2>2, <3>2, <3>3
  <2> HIDE DEF S
  <2>4. Append(Shown, scratch) \in Seq(S) /\ Len(Append(Shown, scratch)) = Len(log)
        /\ \A i \in 1..Len(log) : Append(Shown, scratch)[i] = log[i]
    BY <1>1, <2>1, <2>3
  <2>5. log = Append(Shown, scratch)
    BY <1>1, <2>4, SeqEqual
  <2> QED BY <1>3, <2>3, <2>5 DEF S
<1> QED BY <1>2, <1>3

\* Every step preserves RingInv.
LEMMA Rings ==
  ASSUME LogTypeOK, RingInv, [LogNext]_logVars
  PROVE  RingInv'
<1> USE DEF pool, monitor, At
<1>0. /\ LogTypeOK' /\ Len(log) \in Nat /\ count \in Nat
      /\ log \in Seq(Lines \cup {Blank}) /\ scratch \in Lines \cup {Blank}
  BY LogTypes DEF LogTypeOK
<1>1. ASSUME UNCHANGED <<count, items, log>>,
             worker \notin {"count", "append"}, worker' \notin {"count", "append"}
      PROVE  RingInv'
  BY <1>1 DEF RingInv, Behind, Shown
<1>2. ASSUME UNCHANGED <<count, items, log, worker, scratch>> PROVE RingInv'
  BY <1>2 DEF RingInv, Behind, Shown
<1>3. ASSUME NEW r \in Requests,
             GetEntry(r) \/ Send(r) \/ Drop(r) \/ (\E l \in Lines : Fill(r, l))
      PROVE  RingInv'
  BY <1>2, <1>3 DEF GetEntry, Send, Drop, Fill
<1>4. CASE Receive \/ BuildFields \/ Return
  BY <1>1, <1>4 DEF Receive, BuildFields, Return
<1>5. CASE WriteLine
  <2>1. worker = "info" /\ worker' = "count" /\ log' = Append(log, scratch)
        /\ UNCHANGED <<count, items, scratch>>
    BY <1>5 DEF WriteLine
  <2>2. /\ Len(log') = Len(log) + 1 /\ log'[Len(log) + 1] = scratch
        /\ \A i \in 1..Len(log) : log'[i] = log[i]
    BY <1>0, <2>1
  <2>3. log' # <<>> /\ log'[Len(log')] = scratch'
    BY <1>0, <2>1, <2>2
  <2>4. Shown' = SubSeq(log', 1, Len(log))
    BY <1>0, <2>1, <2>2 DEF Shown, Behind
  <2>5. SubSeq(log', 1, Len(log)) = log
    <3>1. log' \in Seq(Lines \cup {Blank})
      BY <1>0 DEF LogTypeOK
    <3>2. \A i \in 1..Len(log) : log'[i] \in Lines \cup {Blank}
      BY <1>0, <2>2
    <3>3. /\ SubSeq(log', 1, Len(log)) \in Seq(Lines \cup {Blank})
          /\ Len(SubSeq(log', 1, Len(log))) = Len(log)
          /\ \A i \in 1..Len(log) : SubSeq(log', 1, Len(log))[i] = log'[i]
      BY <1>0, <3>1, <3>2, SubSeqProperties
    <3> QED BY <1>0, <2>2, <3>3, SeqEqual
  <2>6. Shown = log
    BY <2>1, ShownIs
  <2>7. count' = Len(log') - Behind({"count"})'
    BY <1>0, <2>1, <2>2 DEF RingInv, Behind
  <2> QED BY <2>1, <2>3, <2>4, <2>5, <2>6, <2>7 DEF RingInv
<1>6. CASE CountRequest
  <2>1. /\ worker = "count" /\ worker' = "append" /\ count' = count + 1
        /\ UNCHANGED <<items, log, scratch>>
    BY <1>6 DEF CountRequest
  <2>2. Shown' = Shown
    BY <2>1 DEF Shown, Behind
  <2>3. count' = Len(log') - Behind({"count"})'
    BY <1>0, <2>1 DEF RingInv, Behind
  <2> QED BY <2>1, <2>2, <2>3 DEF RingInv
<1>7. CASE AppendItem
  <2>1. /\ worker = "append" /\ worker' = "put" /\ items' = Trim(Append(items, scratch))
        /\ UNCHANGED <<count, log, scratch>>
    BY <1>7 DEF AppendItem
  <2>2. Shown \in Seq(Lines \cup {Blank}) /\ log = Append(Shown, scratch)
    BY <2>1, ShownIs
  <2>3. items' = Tailed(log, RingSize)
    BY <1>0, <2>1, <2>2, TrimTailed DEF RingInv
  <2>4. Shown' = LastN(log, Len(log))
    BY <1>0, <2>1 DEF Shown, Behind, LastN
  <2>5. Shown' = log
    BY <1>0, <2>4, LastNAll
  <2>6. count' = Len(log') - Behind({"count"})'
    BY <1>0, <2>1 DEF RingInv, Behind
  <2> QED BY <2>1, <2>3, <2>5, <2>6 DEF RingInv
<1>8. CASE UNCHANGED logVars
  BY <1>2, <1>8 DEF logVars
<1> QED BY <1>3, <1>4, <1>5, <1>6, <1>7, <1>8 DEF LogNext, Worker

\* The monitor shows the end of the log.
LEMMA RingShows == ASSUME LogTypeOK, RingInv PROVE MonitorFollowsLog
<1> DEFINE s == Shown
<1>1. s \in Seq(Lines \cup {Blank}) /\ Len(s) \in Nat /\ RingSize \in Nat
  BY ShownIs, LogAssumption
<1>2. items = Tailed(s, RingSize)
  BY DEF RingInv
<1>3. ASSUME NEW n \in 1..RingSize
      PROVE  Recent(n) = IF n < Len(s) THEN LastN(s, n) ELSE s
  <2> HIDE DEF s
  <2>1. CASE Len(s) > RingSize
    <3>1. RingSize \in 0..Len(s) /\ n \in 0..RingSize
      BY <1>1, <2>1
    <3>2. items = LastN(s, RingSize) /\ Len(items) = RingSize
      BY <1>1, <1>2, <2>1, <3>1, LastNProperties DEF Tailed
    <3>3. Recent(n) = LastN(LastN(s, RingSize), n)
      BY <1>1, <3>2 DEF Recent
    <3>4. LastN(LastN(s, RingSize), n) = LastN(s, n)
      BY <1>1, <3>1, LastNLastN
    <3> QED BY <1>1, <2>1, <3>3, <3>4
  <2>2. CASE ~(Len(s) > RingSize)
    <3>1. items = s
      BY <1>2, <2>2 DEF Tailed
    <3>2. LastN(s, Len(s)) = s
      BY <1>1, LastNAll
    <3> QED BY <1>1, <3>1, <3>2 DEF Recent
  <2> QED BY <2>1, <2>2
<1> QED BY <1>3 DEF MonitorFollowsLog, RingInv

\* The monitor follows the log (monitor.go:30-62): whatever the requests do, the
\* ring has the last lines of the log and the counter their number, short of
\* the line the worker is busy with.
THEOREM MonitorFollows == LogSafety => []MonitorFollowsLog
<1>1. LogInit => LogTypeOK /\ RingInv
  <2> SUFFICES ASSUME LogInit PROVE LogTypeOK /\ RingInv
    OBVIOUS
  <2>1. LogTypeOK
    BY LogInitTypes
  <2>2. worker = "receive" /\ log = <<>> /\ items = <<>> /\ count = 0 /\ Len(log) = 0
    BY DEF LogInit, monitor
  <2>3. Shown = LastN(log, Len(log))
    BY <2>2 DEF Shown, Behind, LastN
  <2>4. Shown = <<>>
    BY <2>1, <2>2, <2>3, LastNAll DEF LogTypeOK
  <2> QED BY <2>1, <2>2, <2>4, LogAssumption DEF RingInv, Tailed, Behind
<1>2. LogTypeOK /\ RingInv /\ [LogNext]_logVars => (LogTypeOK /\ RingInv)'
  BY LogTypes, Rings
<1>3. LogTypeOK /\ RingInv => MonitorFollowsLog
  BY RingShows
<1> QED BY <1>1, <1>2, <1>3, PTL DEF LogSafety

----------------------------------------------------------------------------
(* The log implements LossyLog *)

\* The lines in the channel.
InChan == [i \in 1..Len(chan) |-> content[chan[i]]]

\* What waits is the line in the worker's hand and those in the channel.
LEMMA WaitingIs ==
  ASSUME LogTypeOK
  PROVE  /\ InChan \in Seq(Lines \cup {Blank}) /\ Len(InChan) = Len(chan)
         /\ \A i \in 1..Len(chan) : InChan[i] = content[chan[i]]
         /\ InHand \in Seq(Lines \cup {Blank})
         /\ Waiting = InHand \o InChan
         /\ worker \notin {"fields", "info"} => Waiting = InChan
         /\ Len(InHand) \in {0, 1}
         /\ Waiting \in Seq(Lines \cup {Blank})
         /\ Len(Waiting) = Len(InHand) + Len(chan)
<1> DEFINE S == Lines \cup {Blank}
<1>1. chan \in Seq(Entries) /\ Len(chan) \in Nat /\ \A i \in 1..Len(chan) : content[chan[i]] \in S
  BY DEF LogTypeOK
<1>2. InChan \in Seq(S) /\ Len(InChan) = Len(chan) /\ \A i \in 1..Len(chan) : InChan[i] = content[chan[i]]
  <2> HIDE DEF S
  <2> QED BY <1>1 DEF InChan
<1>3. hand \in Entries => content[hand] \in S
  BY DEF LogTypeOK
<1>4. CASE worker = "fields"
  BY <1>2, <1>3, <1>4 DEF InHand, Waiting, InChan, LogTypeOK
<1>5. CASE worker = "info"
  BY <1>2, <1>5 DEF InHand, Waiting, InChan, LogTypeOK
<1>6. CASE worker \notin {"fields", "info"}
  <2>1. InHand = <<>>
    BY <1>6 DEF InHand
  <2>2. <<>> \o InChan = InChan
    BY <1>2, ConcatEmptySeq
  <2> QED BY <1>2, <1>6, <2>1, <2>2 DEF Waiting, InChan
<1>7. /\ InHand \in Seq(S) /\ Len(InHand) \in {0, 1} /\ Waiting = InHand \o InChan
      /\ worker \notin {"fields", "info"} => Waiting = InChan
  BY <1>4, <1>5, <1>6
<1>8. Waiting \in Seq(S) /\ Len(Waiting) = Len(InHand) + Len(InChan)
  <2> HIDE DEF S
  <2> QED BY <1>2, <1>7, ConcatProperties
<1> QED BY <1>2, <1>7, <1>8

\* The lines that wait stay the same when neither the channel nor the hand nor
\* the contents of the entries there change.
LEMMA WaitingStays ==
  ASSUME LogTypeOK, UNCHANGED chan,
         \A i \in 1..Len(chan) : content'[chan[i]] = content[chan[i]],
         InHand' = InHand
  PROVE  Waiting' = Waiting
<1>1. Len(chan') = Len(chan) /\ \A i \in 1..Len(chan) : content'[chan'[i]] = content[chan[i]]
  OBVIOUS
<1> QED BY <1>1 DEF Waiting

\* What each step does to the lines: a line is accepted at the end of those that
\* wait, or lost, or written from their front; every other step leaves them.
Still == UNCHANGED <<Waiting, log, lost>>
Accepts(l) == Len(Waiting) <= BufferSize /\ Waiting' = Append(Waiting, l) /\ UNCHANGED <<log, lost>>
Loses(l) == Len(Waiting) >= BufferSize /\ lost' = Append(lost, l) /\ UNCHANGED <<Waiting, log>>
Writes ==
  /\ Waiting # <<>> /\ log' = Append(log, Head(Waiting)) /\ Waiting' = Tail(Waiting)
  /\ UNCHANGED lost

\* Of the steps of the log only these move lines.
LEMMA LineMoves ==
  ASSUME LogInv, [LogNext]_logVars
  PROVE  /\ \A r \in Requests :
              /\ GetEntry(r) \/ (\E l \in Lines : Fill(r, l)) => Still
              /\ Send(r) => Accepts(content[held[r]])
              /\ Drop(r) => Loses(content[held[r]])
         /\ WriteLine => Writes
         /\ Receive \/ BuildFields \/ CountRequest \/ AppendItem \/ Return => Still
<1> USE DEF pool, monitor, At
<1> DEFINE S == Lines \cup {Blank}
<1>0. /\ LogTypeOK /\ LogTypeOK' /\ Exclusive /\ NoEntry \notin Entries
      /\ BufferSize \in Nat /\ Len(chan) \in Nat /\ Len(chan) <= BufferSize
      /\ \A i \in 1..Len(chan) : chan[i] \in Entries /\ Queued(chan[i])
  <2>1. LogTypeOK /\ LogTypeOK' /\ Exclusive
    BY LogTypes DEF LogInv
  <2>2. NoEntry \notin Entries /\ BufferSize \in Nat
    BY LogAssumption
  <2>3. Len(chan) \in Nat /\ Len(chan) <= BufferSize /\ \A i \in 1..Len(chan) : chan[i] \in Entries
    BY <2>1 DEF LogTypeOK
  <2> QED BY <2>1, <2>2, <2>3 DEF Queued
<1>1. ASSUME Waiting' = Waiting, UNCHANGED <<log, lost>> PROVE Still
  BY <1>1 DEF Still
<1>2. ASSUME NEW r \in Requests, GetEntry(r) PROVE Still
  <2>1. UNCHANGED <<chan, content, hand, worker, scratch, log, lost>>
    BY <1>2 DEF GetEntry
  <2>2. Waiting' = Waiting
    BY <2>1 DEF Waiting, InHand
  <2> QED BY <1>1, <2>1, <2>2
<1>3. ASSUME NEW r \in Requests, NEW l \in Lines, Fill(r, l) PROVE Still
  <2>1. UNCHANGED <<chan, hand, worker, scratch, log, lost>> /\ held[r] \in Entries
        /\ \A e \in Entries \ {held[r]} : content'[e] = content[e]
    BY <1>0, <1>3 DEF Fill, LogTypeOK
  <2>2. ~Queued(held[r]) /\ hand # held[r]
    BY <1>0, <2>1 DEF Exclusive
  <2>3. worker = "fields" => hand \in Entries /\ content'[hand] = content[hand]
    BY <1>0, <2>1, <2>2 DEF LogTypeOK
  <2>4. InHand' = InHand
    BY <2>1, <2>3 DEF InHand
  <2>5. Waiting' = Waiting
    BY <1>0, <2>1, <2>2, <2>4, WaitingStays
  <2> QED BY <1>1, <2>1, <2>5
<1>4. ASSUME NEW r \in Requests, Send(r) PROVE Accepts(content[held[r]])
  <2> DEFINE e == held[r]
  <2>1. /\ e \in Entries /\ Len(chan) < BufferSize /\ chan' = Append(chan, e)
        /\ UNCHANGED <<content, hand, worker, scratch, log, lost>> /\ content[e] \in S
    BY <1>0, <1>4 DEF Send, LogTypeOK
  <2>2. InHand' = InHand /\ InHand \in Seq(S) /\ Len(InHand) \in {0, 1}
    BY <1>0, <2>1, WaitingIs DEF InHand
  <2>3. InChan' = Append(InChan, content[e])
    <3>1. InChan \in Seq(S) /\ InChan' \in Seq(S) /\ Len(InChan) = Len(chan)
          /\ Len(InChan') = Len(chan')
          /\ (\A i \in 1..Len(chan) : InChan[i] = content[chan[i]])
          /\ (\A i \in 1..Len(chan') : InChan'[i] = content'[chan'[i]])
      <4>1. (/\ InChan \in Seq(S) /\ Len(InChan) = Len(chan)
             /\ \A i \in 1..Len(chan) : InChan[i] = content[chan[i]])'
        BY <1>0, WaitingIs, PTL
      <4> QED BY <1>0, <4>1, WaitingIs
    <3>2. Len(chan') = Len(chan) + 1 /\ chan'[Len(chan) + 1] = e
          /\ \A i \in 1..Len(chan) : chan'[i] = chan[i]
      BY <1>0, <2>1 DEF LogTypeOK
    <3> DEFINE a == Append(InChan, content[e])
    <3>3. a \in Seq(S) /\ Len(a) = Len(chan) + 1 /\ a[Len(chan) + 1] = content[e]
          /\ \A i \in 1..Len(chan) : a[i] = content[chan[i]]
      <4> HIDE DEF S, e
      <4> QED BY <1>0, <2>1, <3>1
    <3>4. \A i \in 1..(Len(chan) + 1) : InChan'[i] = a[i]
      <4> HIDE DEF a, e
      <4> QED BY <1>0, <2>1, <3>1, <3>2, <3>3
    <3>5. Len(InChan') = Len(a) /\ \A i \in 1..Len(InChan') : InChan'[i] = a[i]
      BY <3>1, <3>2, <3>3, <3>4
    <3> HIDE DEF a, S
    <3>6. InChan' = a
      BY <3>1, <3>3, <3>5, SeqEqual
    <3> QED BY <3>6 DEF a
  <2>4. Waiting = InHand \o InChan /\ Waiting' = InHand' \o InChan' /\ InChan \in Seq(S)
        /\ Len(Waiting) = Len(InHand) + Len(chan)
    BY <1>0, WaitingIs DEF Waiting, InChan
  <2>5. InHand \o Append(InChan, content[e]) = Append(InHand \o InChan, content[e])
    <3> DEFINE c == content[e]
    <3>1. c \in S /\ <<c>> \in Seq(S)
      BY <2>1
    <3> HIDE DEF S, c
    <3>2. InHand \o InChan \in Seq(S)
      BY <2>2, <2>4, ConcatProperties
    <3>3. Append(InChan, c) = InChan \o <<c>>
      BY <2>4, <3>1, AppendIsConcat
    <3>4. Append(InHand \o InChan, c) = (InHand \o InChan) \o <<c>>
      BY <3>1, <3>2, AppendIsConcat
    <3>5. (InHand \o InChan) \o <<c>> = InHand \o (InChan \o <<c>>)
      BY <2>2, <2>4, <3>1, ConcatAssociative
    <3> QED BY <3>3, <3>4, <3>5 DEF c
  <2>6. Waiting' = Append(Waiting, content[e]) /\ Len(Waiting) <= BufferSize
    <3>1. Waiting' = InHand \o Append(InChan, content[e])
      BY Zenon, <2>2, <2>3, <2>4
    <3>2. Waiting' = Append(Waiting, content[e])
      BY Zenon, <2>4, <2>5, <3>1
    <3>3. Len(Waiting) <= BufferSize
      <4>1. Len(InHand) = 0 \/ Len(InHand) = 1
        BY <2>2
      <4>2. Len(Waiting) = Len(InHand) + Len(chan)
        BY <2>4
      <4>3. Len(chan) < BufferSize /\ Len(chan) \in Nat /\ BufferSize \in Nat
        BY <1>0, <2>1
      <4> DEFINE h == Len(InHand)
                 n == Len(chan)
                 w == Len(Waiting)
      <4>4. (h = 0 \/ h = 1) /\ w = h + n /\ n < BufferSize /\ n \in Nat /\ BufferSize \in Nat
        BY <4>1, <4>2, <4>3
      <4> HIDE DEF h, n, w
      <4>5. w <= BufferSize
        BY <4>4
      <4> QED BY <4>5 DEF w
    <3> QED BY <3>2, <3>3
  <2> QED BY <2>1, <2>6 DEF Accepts
<1>5. ASSUME NEW r \in Requests, Drop(r) PROVE Loses(content[held[r]])
  <2> DEFINE e == held[r]
  <2>1. /\ e \in Entries /\ Len(chan) = BufferSize /\ lost' = Append(lost, content[e])
        /\ UNCHANGED <<chan, hand, worker, scratch, log>> /\ content[e] \in S
        /\ \A f \in Entries \ {e} : content'[f] = content[f]
    BY <1>0, <1>5 DEF Drop, PutEntry, LogTypeOK
  <2>2. ~Queued(e) /\ hand # e
    BY <1>0, <2>1 DEF Exclusive
  <2>3. worker = "fields" => hand \in Entries /\ content'[hand] = content[hand]
    BY <1>0, <2>1, <2>2 DEF LogTypeOK
  <2>4. InHand' = InHand
    BY <2>1, <2>3 DEF InHand
  <2>5. Waiting' = Waiting
    BY <1>0, <2>1, <2>2, <2>4, WaitingStays
  <2>6. Len(Waiting) >= BufferSize
    BY <1>0, <2>1, WaitingIs
  <2> QED BY <2>1, <2>5, <2>6 DEF Loses
<1>6. ASSUME Receive PROVE Still
  <2>1. /\ worker = "receive" /\ worker' = "fields" /\ chan # <<>> /\ hand' = Head(chan)
        /\ chan' = Tail(chan) /\ UNCHANGED <<content, scratch, log, lost>>
    BY <1>6 DEF Receive
  <2>2. /\ Len(chan) >= 1 /\ Len(chan') = Len(chan) - 1 /\ hand' = chan[1]
        /\ \A i \in 1..Len(chan') : chan'[i] = chan[i + 1]
    BY <1>0, <2>1 DEF LogTypeOK
  <2>3. /\ Waiting = InChan /\ InChan \in Seq(S) /\ Len(InChan) = Len(chan)
        /\ \A i \in 1..Len(chan) : InChan[i] = content[chan[i]]
    BY <1>0, <2>1, WaitingIs
  <2>4. /\ InChan' \in Seq(S) /\ Len(InChan') = Len(chan')
        /\ \A i \in 1..Len(chan') : InChan'[i] = content'[chan'[i]]
    <3>1. (/\ InChan \in Seq(S) /\ Len(InChan) = Len(chan)
           /\ \A i \in 1..Len(chan) : InChan[i] = content[chan[i]])'
      BY <1>0, WaitingIs, PTL
    <3> QED BY <3>1
  <2>5. Waiting' = <<content[chan[1]]>> \o InChan' /\ content[chan[1]] \in S
    BY <1>0, <2>1, <2>2 DEF Waiting, InHand, InChan, LogTypeOK
  <2> HIDE DEF S
  <2>6. /\ Waiting' \in Seq(S) /\ Len(Waiting') = Len(chan)
        /\ \A i \in 1..Len(chan) : Waiting'[i] = content[chan[i]]
    <3>1. Waiting' \in Seq(S) /\ Len(Waiting') = Len(chan) /\ Waiting'[1] = content[chan[1]]
          /\ \A i \in 1..Len(chan') : Waiting'[i + 1] = InChan'[i]
      BY <1>0, <2>2, <2>4, <2>5
    <3>2. ASSUME NEW i \in 1..Len(chan), i # 1 PROVE Waiting'[i] = content[chan[i]]
      <4>1. i - 1 \in 1..Len(chan') /\ (i - 1) + 1 = i
        BY <1>0, <2>2, <3>2
      <4>2. Waiting'[i] = InChan'[i - 1] /\ chan'[i - 1] = chan[i] /\ InChan'[i - 1] = content'[chan'[i - 1]]
        BY <2>2, <2>4, <3>1, <4>1
      <4> QED BY <2>1, <4>2
    <3> QED BY <3>1, <3>2
  <2>7. Waiting' = Waiting
    BY <1>0, <2>3, <2>6, SeqEqual
  <2> QED BY <1>1, <2>1, <2>7
<1>7. ASSUME BuildFields PROVE Still
  <2>1. worker = "fields" /\ worker' = "info" /\ scratch' = content[hand]
        /\ UNCHANGED <<chan, content, hand, log, lost>>
    BY <1>7 DEF BuildFields
  <2>2. InHand' = InHand
    BY <2>1 DEF InHand
  <2>3. Waiting' = Waiting
    BY <1>0, <2>1, <2>2, WaitingStays
  <2> QED BY <1>1, <2>1, <2>3
<1>8. ASSUME WriteLine PROVE Writes
  <2>1. worker = "info" /\ worker' = "count" /\ log' = Append(log, scratch)
        /\ UNCHANGED <<chan, content, scratch, lost>>
    BY <1>8 DEF WriteLine
  <2>2. /\ Waiting = InHand \o InChan /\ InHand = <<scratch>>
        /\ InChan \in Seq(S) /\ scratch \in S
    BY <1>0, <2>1, WaitingIs DEF InHand, LogTypeOK
  <2>3. Waiting' = InChan
    <3>1. InChan' = InChan /\ InHand' = <<>>
      BY <2>1 DEF InChan, InHand
    <3>2. Waiting' = InHand' \o InChan'
      BY DEF Waiting, InChan
    <3> QED BY <2>2, <3>1, <3>2, ConcatEmptySeq
  <2>4. Head(Waiting) = scratch /\ Tail(Waiting) = InChan /\ Waiting # <<>>
    <3> HIDE DEF S
    <3> DEFINE w == <<scratch>> \o InChan
    <3>1. w \in Seq(S) /\ Len(w) = Len(InChan) + 1 /\ Len(InChan) \in Nat /\ w[1] = scratch
          /\ \A i \in 1..Len(InChan) : w[i + 1] = InChan[i]
      BY <2>2
    <3> HIDE DEF w
    <3>2. w # <<>> /\ Head(w) = scratch
      BY <3>1
    <3>3. Tail(w) \in Seq(S) /\ Len(Tail(w)) = Len(InChan)
          /\ \A i \in 1..Len(InChan) : Tail(w)[i] = w[i + 1]
      BY <3>1, <3>2
    <3>4. Tail(w) = InChan
      BY <2>2, <3>1, <3>3, SeqEqual
    <3> QED BY <2>2, <3>2, <3>4 DEF w
  <2> QED BY <2>1, <2>3, <2>4 DEF Writes
<1>9. ASSUME CountRequest \/ AppendItem PROVE Still
  <2>1. worker \notin {"fields", "info"} /\ worker' \notin {"fields", "info"}
        /\ UNCHANGED <<chan, content, log, lost>>
    BY <1>9 DEF CountRequest, AppendItem
  <2>2. InHand' = InHand
    BY <2>1 DEF InHand
  <2>3. Waiting' = Waiting
    BY <1>0, <2>1, <2>2, WaitingStays
  <2> QED BY <1>1, <2>1, <2>3
<1>10. ASSUME Return PROVE Still
  <2>1. /\ worker = "put" /\ worker' = "receive" /\ hand \in Entries
        /\ UNCHANGED <<chan, log, lost>> /\ \A f \in Entries \ {hand} : content'[f] = content[f]
    BY <1>0, <1>10 DEF Return, PutEntry, LogTypeOK
  <2>2. InHand' = InHand /\ ~Queued(hand)
    BY <1>0, <2>1 DEF InHand, Exclusive
  <2>3. Waiting' = Waiting
    BY <1>0, <2>1, <2>2, WaitingStays
  <2> QED BY <1>1, <2>1, <2>3
<1> QED BY <1>2, <1>3, <1>4, <1>5, <1>6, <1>7, <1>8, <1>9, <1>10

\* Every step is a step of LossyLog, or none.
LEMMA LogSteps ==
  ASSUME LogInv, [LogNext]_logVars
  PROVE  [Abstract!Next]_<<Waiting, log, lost>>
<1>1. ASSUME Still PROVE [Abstract!Next]_<<Waiting, log, lost>>
  BY <1>1 DEF Still
<1>2. ASSUME NEW r \in Requests, Send(r) \/ Drop(r)
      PROVE  [Abstract!Next]_<<Waiting, log, lost>>
  <2>1. content[held[r]] \in Lines \cup {Blank}
    BY <1>2, LogAssumption DEF LogInv, LogTypeOK, Send, Drop
  <2>2. CASE Send(r)
    <3>1. Accepts(content[held[r]])
      BY <2>2, LineMoves
    <3>2. Abstract!Accept(content[held[r]])
      BY <3>1 DEF Accepts, Abstract!Accept
    <3> QED BY <2>1, <3>2 DEF Abstract!Next
  <2>3. CASE Drop(r)
    <3>1. Loses(content[held[r]])
      BY <2>3, LineMoves
    <3>2. Abstract!Lose(content[held[r]])
      BY <3>1 DEF Loses, Abstract!Lose
    <3> QED BY <2>1, <3>2 DEF Abstract!Next
  <2> QED BY <1>2, <2>2, <2>3
<1>3. CASE WriteLine
  <2>1. Writes
    BY <1>3, LineMoves
  <2>2. Abstract!Write
    BY <2>1 DEF Writes, Abstract!Write
  <2> QED BY <2>2 DEF Abstract!Next
<1>4. CASE UNCHANGED logVars
  BY <1>1, <1>4 DEF logVars, Waiting, InHand, Still
<1> QED BY <1>1, <1>2, <1>3, <1>4, LineMoves DEF LogNext, Worker

\* The safety part of ImplementsLossyLog: the pool of pointers and the channel
\* implement a queue of values that loses a line only when it is full
\* (async_logger.go:53-99).
THEOREM LogIsLossyQueue == LogSafety => Abstract!Safety
<1>1. LogInit => Abstract!Init
  <2> SUFFICES ASSUME LogInit PROVE Abstract!Init
    OBVIOUS
  <2>1. chan = <<>> /\ worker = "receive" /\ log = <<>> /\ lost = <<>>
    BY DEF LogInit
  <2>2. LogTypeOK
    BY LogInitTypes
  <2>3. Waiting = InChan /\ InChan \in Seq(Lines \cup {Blank}) /\ Len(InChan) = 0
    BY <2>1, <2>2, WaitingIs
  <2>4. Waiting = <<>>
    BY <2>3
  <2> QED BY <2>1, <2>4 DEF Abstract!Init
<1>2. LogInit => LogInv
  BY LogInitTypes, LogInitExclusive DEF LogInv
<1>3. LogInv /\ [LogNext]_logVars => LogInv'
  <2>1. ASSUME LogInv, [LogNext]_logVars PROVE LogTypeOK' /\ Exclusive'
    BY <2>1, LogTypes, LogExclusive DEF LogInv
  <2> QED BY <2>1 DEF LogInv
<1>4. LogInv /\ [LogNext]_logVars => [Abstract!Next]_<<Waiting, log, lost>>
  BY LogSteps
<1> QED BY <1>1, <1>2, <1>3, <1>4, PTL DEF LogSafety, Abstract!Safety, Abstract!vars

----------------------------------------------------------------------------
(* The log inside of the pipeline *)

\* The status that is logged is one of the codes.
StatusOK == status \in [Requests -> Codes]

\* Every step keeps it so.
LEMMA StatusKept == ASSUME StatusOK, [Next]_vars PROVE StatusOK'
<1> USE DEF StatusOK, reply, plugs, wire, Codes
<1>1. ASSUME NEW r \in Requests, UNCHANGED status PROVE StatusOK'
  BY <1>1
<1>2. ASSUME NEW r \in Requests, Arrive(r) \/ Edge(r) \/ PluginStep(r) \/ Cap(r) \/ Logging(r)
      PROVE  UNCHANGED status
  BY <1>2 DEF Arrive, Edge, ForceHTTPS, IPFilter, RateLimit, CORS, LeaveEdge, Refuse, Pass,
              PluginStep, PluginHandles, PluginAborts, PluginsPass, PluginSpoils, LeavePlugins,
              Cap, Acquire, Saturated, Release, Logging, LogGet, LogFill, LogSend, SkipLogging
<1>3. ASSUME NEW r \in Requests, Finish(r) \/ Wrapper(r) PROVE StatusOK'
  BY <1>3 DEF Finish, Wrapper, WrapGzip, CloseGzip, WrapLogging
<1>4. ASSUME NEW r \in Requests, Site(r) PROVE StatusOK'
  <2>1. ASSUME NEW code \in Codes, SetStatus(r, code) PROVE StatusOK'
    BY <2>1 DEF SetStatus
  <2>2. ASSUME NEW a \in Responses[r], WriteHeader(r, a.code, a.coded, a.text) PROVE StatusOK'
    <3>1. a.code \in Codes
      BY PipelineAssumption DEF Response
    <3> QED BY <2>1, <2>2, <3>1 DEF WriteHeader
  <2>3. ASSUME NEW a \in Responses[r], Inform(r, a.coded, a.text) PROVE StatusOK'
    <3>1. SetStatus(r, 103)
      BY <2>3 DEF Inform
    <3> QED BY <2>1, <3>1
  <2>4. CASE Write(r) \/ Hijack(r) \/ SiteReturns(r) \/ SitePanics(r)
    BY <2>4 DEF Write, Hijack, SiteReturns, SitePanics
  <2> QED BY <1>4, <2>2, <2>3, <2>4 DEF Site
<1>5. CASE WorkerStep
  BY <1>5 DEF WorkerStep
<1>6. CASE UNCHANGED vars
  BY <1>6 DEF vars
<1> QED BY <1>1, <1>2, <1>3, <1>4, <1>5, <1>6 DEF Next

\* Every step of the pipeline is a step of the log, or none.
LEMMA PipelineLogs == ASSUME StatusOK, [Next]_vars PROVE [LogNext]_logVars
<1>1. ASSUME NEW r \in Requests,
             Arrive(r) \/ Finish(r) \/ Edge(r) \/ PluginStep(r) \/ Cap(r) \/ Wrapper(r) \/ Site(r)
      PROVE  UNCHANGED logVars
  <2>1. CASE Arrive(r) \/ Finish(r) \/ Edge(r)
    BY <2>1 DEF Arrive, Finish, Edge, ForceHTTPS, IPFilter, RateLimit, CORS, LeaveEdge, Refuse, Pass
  <2>2. CASE PluginStep(r)
    BY <2>2 DEF PluginStep, PluginHandles, PluginAborts, PluginsPass, PluginSpoils, LeavePlugins
  <2>3. CASE Cap(r)
    BY <2>3 DEF Cap, Acquire, Saturated, Release, Refuse
  <2>4. CASE Wrapper(r)
    BY <2>4 DEF Wrapper, WrapGzip, CloseGzip, WrapLogging
  <2>5. CASE Site(r)
    BY <2>5 DEF Site, WriteHeader, Inform, Write, Hijack, SiteReturns, SitePanics
  <2> QED BY <1>1, <2>1, <2>2, <2>3, <2>4, <2>5
<1>2. ASSUME NEW r \in Requests, Logging(r) PROVE LogNext \/ UNCHANGED logVars
  <2>1. CASE LogGet(r)
    BY <2>1 DEF LogGet, LogNext
  <2>2. CASE LogFill(r)
    <3>1. Line(r) \in Lines
      BY PipelineAssumption DEF StatusOK, Line
    <3>2. Fill(r, Line(r))
      BY <2>2 DEF LogFill
    <3> QED BY <3>1, <3>2 DEF LogNext
  <2>3. CASE LogSend(r)
    BY <2>3 DEF LogSend, LogNext
  <2>4. CASE SkipLogging(r)
    BY <2>4 DEF SkipLogging
  <2> QED BY <1>2, <2>1, <2>2, <2>3, <2>4 DEF Logging
<1>3. CASE WorkerStep
  BY <1>3 DEF WorkerStep, LogNext
<1>4. CASE UNCHANGED vars
  BY <1>4 DEF vars
<1> QED BY <1>1, <1>2, <1>3, <1>4 DEF Next

\* Seen from its log, the pipeline is AccessLog: its requests use the log as
\* LogNext allows (middleware.go:47-60).
THEOREM PipelineUsesLog == Spec => LogSafety
<1>1. Init => LogInit /\ StatusOK
  BY DEF Init, StatusOK, Codes
<1>2. StatusOK /\ [Next]_vars => StatusOK' /\ [LogNext]_logVars
  BY StatusKept, PipelineLogs
<1> QED BY <1>1, <1>2, PTL DEF Spec, LogSafety

\* No entry of the pool is in two places, whatever requests do and however the
\* handlers fail (async_logger.go:61-75, 97).
THEOREM PipelineExclusive == Spec => []Exclusive
  BY PipelineUsesLog, EntriesExclusive, PTL

\* The monitor shows the end of the log (monitor.go:30-62).
THEOREM PipelineMonitor == Spec => []MonitorFollowsLog
  BY PipelineUsesLog, MonitorFollows, PTL

\* The log is a lossy queue: the safety part of ImplementsLossyLog.
THEOREM PipelineIsLossy == Spec => Abstract!Safety
  BY PipelineUsesLog, LogIsLossyQueue, PTL

----------------------------------------------------------------------------
(* The cap *)

EdgeNames == {"https", "ips", "rate", "cors"}
Handlers  == EdgeNames \cup {"plugins", "cap", "gzip", "logging", "site"}

\* The order in which createHandler nests the handlers, and which are there.
Rank(name) ==
  CASE name = "https"   -> 1 [] name = "ips"  -> 2 [] name = "rate" -> 3
    [] name = "cors"    -> 4 [] name = "plugins" -> 5 [] name = "cap"  -> 6
    [] name = "gzip"    -> 7 [] name = "logging" -> 8 [] name = "site" -> 9
Present(c) ==
  {"plugins", "gzip", "site"}
  \cup (IF c.https THEN {"https"} ELSE {}) \cup (IF c.ips THEN {"ips"} ELSE {})
  \cup (IF c.rate THEN {"rate"} ELSE {}) \cup (IF c.cors THEN {"cors"} ELSE {})
  \cup (IF c.max > 0 THEN {"cap"} ELSE {}) \cup (IF c.logging THEN {"logging"} ELSE {})

\* The order, name by name.
LEMMA Ranks ==
  /\ Rank("https") = 1 /\ Rank("ips") = 2 /\ Rank("rate") = 3 /\ Rank("cors") = 4
  /\ Rank("plugins") = 5 /\ Rank("cap") = 6 /\ Rank("gzip") = 7 /\ Rank("logging") = 8
  /\ Rank("site") = 9
  BY DEF Rank

\* There is no other rank, and the site's handler is the last.
LEMMA RankRange == \A n \in Handlers : Rank(n) \in 1..9 /\ (Rank(n) = 9 => n = "site")
  BY Ranks DEF Handlers, EdgeNames

\* A chain s of the handlers in N, in their order.
InOrder(s, N) ==
  /\ s \in Seq(Handlers)
  /\ \A i \in 1..Len(s) : s[i] \in N
  /\ \A n \in N : \E i \in 1..Len(s) : s[i] = n
  /\ \A i, j \in 1..Len(s) : i < j => Rank(s[i]) < Rank(s[j])

\* A later handler at the end, or an earlier one in front, keeps the order.
LEMMA Extended ==
  ASSUME NEW s, NEW N, InOrder(s, N), NEW n \in Handlers
  PROVE  /\ (\A m \in N : Rank(m) < Rank(n)) => InOrder(Append(s, n), N \cup {n})
         /\ (\A m \in N : Rank(n) < Rank(m)) => InOrder(<<n>> \o s, {n} \cup N)
<1>1. s \in Seq(Handlers) /\ Len(s) \in Nat
  BY DEF InOrder
<1>2. ASSUME \A m \in N : Rank(m) < Rank(n) PROVE InOrder(Append(s, n), N \cup {n})
  <2> DEFINE t == Append(s, n)
  <2>1. /\ t \in Seq(Handlers) /\ Len(t) = Len(s) + 1
        /\ \A i \in 1..Len(s) : t[i] = s[i]
        /\ t[Len(s) + 1] = n
    BY <1>1, AppendProperties
  <2> HIDE DEF t
  <2>2. \A m \in N \cup {n} : \E i \in 1..Len(t) : t[i] = m
    <3>1. Len(s) + 1 \in 1..Len(t) /\ \A i \in 1..Len(s) : i \in 1..Len(t)
      BY <1>1, <2>1
    <3> QED BY <2>1, <3>1 DEF InOrder
  <2>3. \A i \in 1..Len(t) : i \in 1..Len(s) \/ i = Len(s) + 1
    BY <1>1, <2>1
  <2>4. \A i \in 1..Len(t) : t[i] \in N \cup {n}
    BY <2>1, <2>3 DEF InOrder
  <2>5. ASSUME NEW i \in 1..Len(t), NEW j \in 1..Len(t), i < j PROVE Rank(t[i]) < Rank(t[j])
    <3>1. i \in 1..Len(s)
      BY <1>1, <2>1, <2>5
    <3>2. CASE j \in 1..Len(s)
      BY <2>1, <2>5, <3>1, <3>2 DEF InOrder
    <3>3. CASE j = Len(s) + 1
      BY <1>2, <2>1, <3>1, <3>3 DEF InOrder
    <3> QED BY <2>3, <3>2, <3>3
  <2> QED BY <2>1, <2>2, <2>4, <2>5 DEF InOrder, t
<1>3. ASSUME \A m \in N : Rank(n) < Rank(m) PROVE InOrder(<<n>> \o s, {n} \cup N)
  <2> DEFINE t == <<n>> \o s
  <2>1. /\ t \in Seq(Handlers) /\ Len(t) = Len(s) + 1
        /\ \A i \in 1..Len(s) : t[i + 1] = s[i]
        /\ t[1] = n
    <3>1. <<n>> \in Seq(Handlers) /\ Len(<<n>>) = 1 /\ <<n>>[1] = n
      OBVIOUS
    <3>2. /\ t \in Seq(Handlers) /\ Len(t) = Len(<<n>>) + Len(s)
          /\ \A i \in 1..(Len(<<n>>) + Len(s)) :
               t[i] = IF i <= Len(<<n>>) THEN <<n>>[i] ELSE s[i - Len(<<n>>)]
      BY <1>1, <3>1, ConcatProperties
    <3> HIDE DEF t
    <3> QED BY <1>1, <3>1, <3>2
  <2> HIDE DEF t
  <2>2. \A m \in {n} \cup N : \E i \in 1..Len(t) : t[i] = m
    <3>1. 1 \in 1..Len(t) /\ \A i \in 1..Len(s) : i + 1 \in 1..Len(t)
      BY <1>1, <2>1
    <3> QED BY <2>1, <3>1 DEF InOrder
  <2>3. \A i \in 1..Len(t) : i = 1 \/ (i - 1 \in 1..Len(s) /\ t[i] = s[i - 1])
    BY <1>1, <2>1
  <2>4. \A i \in 1..Len(t) : t[i] \in {n} \cup N
    BY <2>1, <2>3 DEF InOrder
  <2>5. ASSUME NEW i \in 1..Len(t), NEW j \in 1..Len(t), i < j PROVE Rank(t[i]) < Rank(t[j])
    <3>1. j - 1 \in 1..Len(s) /\ t[j] = s[j - 1]
      BY <1>1, <2>1, <2>3, <2>5
    <3>2. CASE i = 1
      BY <1>3, <2>1, <3>1, <3>2 DEF InOrder
    <3>3. CASE i - 1 \in 1..Len(s) /\ t[i] = s[i - 1]
      <4>1. i - 1 < j - 1
        BY <2>5
      <4> QED BY <3>1, <3>3, <4>1 DEF InOrder
    <3> QED BY <2>3, <3>2, <3>3
  <2> QED BY <2>1, <2>2, <2>4, <2>5 DEF InOrder, t
<1> QED BY <1>2, <1>3

\* Whatever is configured, the handlers are nested in their order, each once.
LEMMA ChainOrder == ASSUME NEW c \in Config PROVE InOrder(Chain(c), Present(c))
<1> DEFINE m0 == {"plugins"}
           m1 == m0 \cup (IF c.max > 0 THEN {"cap"} ELSE {})
           m2 == m1 \cup {"gzip"}
           m3 == m2 \cup (IF c.logging THEN {"logging"} ELSE {})
           n0 == m3 \cup {"site"}
           n1 == (IF c.cors THEN {"cors"} ELSE {}) \cup n0
           n2 == (IF c.rate THEN {"rate"} ELSE {}) \cup n1
           n3 == (IF c.ips THEN {"ips"} ELSE {}) \cup n2
           n4 == (IF c.https THEN {"https"} ELSE {}) \cup n3
<1>1. ASSUME NEW s, NEW N, InOrder(s, N), NEW n \in Handlers, NEW cond,
             \A m \in N : Rank(m) < Rank(n)
      PROVE  InOrder(Use(s, cond, n), N \cup (IF cond THEN {n} ELSE {}))
  <2>1. CASE cond
    <3>1. InOrder(Append(s, n), N \cup {n})
      BY <1>1, Extended
    <3> QED BY <2>1, <3>1 DEF Use
  <2>2. CASE ~cond
    <3>1. N \cup {} = N
      OBVIOUS
    <3> QED BY <1>1, <2>2, <3>1 DEF Use
  <2> QED BY <2>1, <2>2
<1>2. ASSUME NEW s, NEW N, InOrder(s, N), NEW n \in Handlers, NEW cond,
             \A m \in N : Rank(n) < Rank(m)
      PROVE  InOrder(Wrap(cond, n, s), (IF cond THEN {n} ELSE {}) \cup N)
  <2>1. CASE cond
    <3>1. InOrder(<<n>> \o s, {n} \cup N)
      BY <1>2, Extended
    <3> QED BY <2>1, <3>1 DEF Wrap
  <2>2. CASE ~cond
    <3>1. {} \cup N = N
      OBVIOUS
    <3> QED BY <1>2, <2>2, <3>1 DEF Wrap
  <2> QED BY <2>1, <2>2
<1>3. \A n \in EdgeNames \cup {"plugins", "cap", "gzip", "logging", "site"} : n \in Handlers
  BY DEF Handlers
<1>4. InOrder(<<"plugins">>, m0)
  <2>1. <<"plugins">> \in Seq(Handlers) /\ Len(<<"plugins">>) = 1 /\ <<"plugins">>[1] = "plugins"
    BY DEF Handlers
  <2> QED BY <2>1 DEF InOrder
<1> DEFINE u1 == Use(<<"plugins">>, c.max > 0, "cap")
           u2 == Use(u1, TRUE, "gzip")
<1>5. InOrder(u1, m1)
  <2>1. \A m \in m0 : Rank(m) < Rank("cap")
    BY Ranks
  <2> QED BY <1>1, <1>3, <1>4, <2>1
<1>6. InOrder(u2, m2)
  <2>1. \A m \in m1 : Rank(m) < Rank("gzip")
    BY Ranks
  <2>2. InOrder(u2, m1 \cup (IF TRUE THEN {"gzip"} ELSE {}))
    BY <1>1, <1>3, <1>5, <2>1
  <2> QED BY <2>2
<1>7. InOrder(Manager(c), m3)
  <2>1. \A m \in m2 : Rank(m) < Rank("logging")
    BY Ranks
  <2> QED BY <1>1, <1>3, <1>6, <2>1 DEF Manager
<1>8. InOrder(Manager(c) \o <<"site">>, n0)
  <2>1. \A m \in m3 : Rank(m) < Rank("site")
    BY Ranks
  <2>2. InOrder(Append(Manager(c), "site"), n0)
    BY <1>3, <1>7, <2>1, Extended
  <2>3. Append(Manager(c), "site") = Manager(c) \o <<"site">>
    BY <1>3, <1>7, AppendIsConcat DEF InOrder
  <2> QED BY <2>2, <2>3
<1> DEFINE a == Wrap(c.cors, "cors", Manager(c) \o <<"site">>)
           b == Wrap(c.rate, "rate", a)
           d == Wrap(c.ips, "ips", b)
           e == Wrap(c.https, "https", d)
<1>9. InOrder(a, n1)
  <2>1. \A m \in n0 : Rank("cors") < Rank(m)
    BY Ranks
  <2> QED BY <1>2, <1>3, <1>8, <2>1 DEF EdgeNames
<1>10. InOrder(b, n2)
  <2>1. \A m \in n1 : Rank("rate") < Rank(m)
    BY Ranks
  <2> QED BY <1>2, <1>3, <1>9, <2>1 DEF EdgeNames
<1>11. InOrder(d, n3)
  <2>1. \A m \in n2 : Rank("ips") < Rank(m)
    BY Ranks
  <2> QED BY <1>2, <1>3, <1>10, <2>1 DEF EdgeNames
<1>12. InOrder(e, n4)
  <2>1. \A m \in n3 : Rank("https") < Rank(m)
    BY Ranks
  <2> QED BY <1>2, <1>3, <1>11, <2>1 DEF EdgeNames
<1>13. e = Chain(c)
  BY DEF Chain, Apply
<1>14. n4 = Present(c)
  BY DEF Present
<1> QED BY <1>12, <1>13, <1>14

\* What follows for the places in a chain: the site's handler is the last, the
\* cap is there once if at all, and the edge comes before it.
LEMMA ChainShape ==
  ASSUME NEW c \in Config
  PROVE  /\ Len(Chain(c)) \in Nat \ {0} /\ Chain(c)[Len(Chain(c))] = "site"
         /\ \A i, j \in 1..Len(Chain(c)) :
              /\ Chain(c)[i] = "cap" /\ Chain(c)[j] = "cap" => i = j
              /\ Chain(c)[i] \in EdgeNames /\ Chain(c)[j] = "cap" => i < j
<1> DEFINE ch == Chain(c)
<1>1. InOrder(ch, Present(c))
  BY ChainOrder
<1> HIDE DEF ch
<1>2. Len(ch) \in Nat /\ \A i \in 1..Len(ch) : ch[i] \in Handlers
  BY <1>1 DEF InOrder
<1>3. \A i \in 1..Len(ch) : Rank(ch[i]) \in 1..9 /\ (Rank(ch[i]) = 9 => ch[i] = "site")
  BY <1>2, RankRange
<1>4. PICK i \in 1..Len(ch) : ch[i] = "site"
  BY <1>1 DEF InOrder, Present
<1>5. Len(ch) # 0 /\ Len(ch) \in 1..Len(ch)
  BY <1>2, <1>4
<1>6. i = Len(ch)
  <2>1. i < Len(ch) => Rank(ch[i]) < Rank(ch[Len(ch)])
    BY <1>1, <1>5 DEF InOrder
  <2>2. Rank(ch[i]) = 9 /\ Rank(ch[Len(ch)]) \in 1..9
    BY <1>3, <1>4, <1>5, Ranks
  <2> QED BY <1>2, <2>1, <2>2
<1>7. ASSUME NEW k \in 1..Len(ch), NEW j \in 1..Len(ch), ch[j] = "cap"
      PROVE  /\ ch[k] = "cap" => k = j
             /\ ch[k] \in EdgeNames => k < j
  <2>1. ch[k] \in EdgeNames => Rank(ch[k]) < 6
    BY Ranks DEF EdgeNames
  <2>2. k < j \/ k = j \/ j < k
    BY <1>2
  <2> QED BY <1>1, <1>7, <2>1, <2>2, Ranks DEF InOrder, EdgeNames
<1> QED BY <1>2, <1>4, <1>5, <1>6, <1>7 DEF ch

\* Where the requests are, and the tokens. A request that has not come or is
\* over is at no handler, one that writes its line is at the logging middleware.
Where ==
  /\ conf \in Configs
  /\ dir \in [Requests -> {"idle", "in", "out", "panic", "fill", "log"} \cup Ended]
  /\ pos \in [Requests -> Nat]
  /\ \A r \in Requests :
       /\ pos[r] <= Len(Chain(conf))
       /\ dir[r] \in {"idle"} \cup Ended => pos[r] = 0
       /\ dir[r] \in {"fill", "log"} => pos[r] > 0 /\ Chain(conf)[pos[r]] = "logging"
Admitted == {r \in Requests : Inside(r)}
CapInv == Where /\ permits = Cardinality(Admitted)

\* What one request does to its place in the chain, at a handler that is not
\* the cap.
NotAtCap(r) == pos[r] > 0 /\ Chain(conf)[pos[r]] # "cap"
Onward(r) ==
  /\ NotAtCap(r) /\ dir[r] = "in" /\ Chain(conf)[pos[r]] # "site" /\ Forward(r)
Backward(r) == NotAtCap(r) /\ \E d \in {"out", "panic"} : Move(r, d)
Turn(r) ==
  /\ NotAtCap(r) /\ UNCHANGED pos
  /\ \/ \E d \in {"out", "panic"} : dir' = [dir EXCEPT ![r] = d]
     \/ Chain(conf)[pos[r]] = "logging" /\ \E d \in {"fill", "log"} : dir' = [dir EXCEPT ![r] = d]
Motion(r) == Onward(r) \/ Backward(r) \/ Turn(r) \/ UNCHANGED <<dir, pos>>

\* A request that does not move stays inside or outside.
LEMMA InsideKept ==
  ASSUME conf' = conf, NEW s \in Requests, pos'[s] = pos[s], dir'[s] = dir[s]
  PROVE  Inside(s)' <=> Inside(s)
<1>1. Chain(conf)' = Chain(conf)
  BY DEF Chain, Apply, Manager, Use, Wrap
<1> QED BY <1>1 DEF Inside

\* Moving at another handler than the cap takes no request in or out.
LEMMA MotionKeeps ==
  ASSUME Where, UNCHANGED conf, NEW r \in Requests, Motion(r)
  PROVE  Where' /\ Admitted' = Admitted
<1> DEFINE ch == Chain(conf)
<1>1. ch' = ch
  BY DEF Chain, Apply, Manager, Use, Wrap
<1>2. /\ Len(ch) \in Nat /\ ch[Len(ch)] = "site"
  BY ChainShape, PipelineAssumption DEF Where
<1> HIDE DEF ch
<1> DEFINE Here(p, d) ==
             /\ d \in [Requests -> {"idle", "in", "out", "panic", "fill", "log"} \cup Ended]
             /\ p \in [Requests -> Nat]
             /\ \A s \in Requests :
                  /\ p[s] <= Len(ch)
                  /\ d[s] \in {"idle"} \cup Ended => p[s] = 0
                  /\ d[s] \in {"fill", "log"} => p[s] > 0 /\ ch[p[s]] = "logging"
           Within(s, p, d) ==
             \E i \in 1..Len(ch) : ch[i] = "cap" /\ (i < p[s] \/ (i = p[s] /\ d[s] \in {"out", "panic"}))
<1>3. /\ Here(pos, dir) /\ (Here(pos', dir') => Where')
      /\ \A s \in Requests : Inside(s) <=> Within(s, pos, dir)
      /\ \A s \in Requests : Inside(s)' <=> Within(s, pos', dir')
  BY <1>1 DEF Where, Inside, ch
<1>4. CASE Onward(r)
  <2>1. /\ pos' = [pos EXCEPT ![r] = @ + 1] /\ dir' = dir /\ dir[r] = "in"
        /\ pos[r] > 0 /\ ch[pos[r]] # "cap" /\ ch[pos[r]] # "site"
    BY <1>4 DEF Onward, Forward, NotAtCap, ch
  <2>2. pos[r] + 1 <= Len(ch)
    BY <1>2, <1>3, <2>1
  <2>3. Here(pos', dir')
    BY <1>3, <2>1, <2>2 DEF Ended
  <2>4. \A s \in Requests : Within(s, pos, dir) <=> Within(s, pos', dir')
    BY <1>2, <1>3, <2>1
  <2> QED BY <1>3, <2>3, <2>4 DEF Admitted
<1>5. CASE Backward(r)
  <2>1. PICK d \in {"out", "panic"} : pos' = [pos EXCEPT ![r] = @ - 1] /\ dir' = [dir EXCEPT ![r] = d]
    BY <1>5 DEF Backward, Move
  <2>2. pos[r] > 0 /\ ch[pos[r]] # "cap"
    BY <1>5 DEF Backward, NotAtCap, ch
  <2>3. Here(pos', dir')
    BY <1>2, <1>3, <2>1, <2>2 DEF Ended
  <2>4. \A s \in Requests : Within(s, pos, dir) <=> Within(s, pos', dir')
    <3>1. ASSUME NEW s \in Requests, s # r PROVE Within(s, pos, dir) <=> Within(s, pos', dir')
      BY <1>3, <2>1, <3>1
    <3>2. Within(r, pos, dir) <=> Within(r, pos', dir')
      BY <1>2, <1>3, <2>1, <2>2
    <3> QED BY <3>1, <3>2
  <2> QED BY <1>3, <2>3, <2>4 DEF Admitted
<1>6. CASE Turn(r)
  <2>1. pos' = pos /\ pos[r] > 0 /\ ch[pos[r]] # "cap"
    BY <1>6 DEF Turn, NotAtCap, ch
  <2>2. \/ \E d \in {"out", "panic"} : dir' = [dir EXCEPT ![r] = d]
        \/ ch[pos[r]] = "logging" /\ \E d \in {"fill", "log"} : dir' = [dir EXCEPT ![r] = d]
    BY <1>6 DEF Turn, ch
  <2>3. Here(pos', dir')
    BY <1>3, <2>1, <2>2 DEF Ended
  <2>4. \A s \in Requests : Within(s, pos, dir) <=> Within(s, pos', dir')
    BY <1>2, <1>3, <2>1, <2>2
  <2> QED BY <1>3, <2>3, <2>4 DEF Admitted
<1>7. CASE UNCHANGED <<dir, pos>>
  BY <1>3, <1>7 DEF Admitted
<1> QED BY <1>4, <1>5, <1>6, <1>7 DEF Motion

\* Arriving, ending, leaving the edge or being turned away at the cap: the
\* request is outside before and after.
Outside(r) ==
  \/ Arrive(r) \/ Finish(r) \/ LeaveEdge(r)
  \/ In(r, "cap") /\ Refuse(r, 503)

\* Such a step changes neither who is inside nor the tokens.
LEMMA OutsideKeeps ==
  ASSUME Where, NEW r \in Requests, Outside(r)
  PROVE  Where' /\ Admitted' = Admitted /\ UNCHANGED <<conf, permits>>
<1> DEFINE ch == Chain(conf)
<1>1. /\ Len(ch) \in Nat \ {0} /\ ch[Len(ch)] = "site"
      /\ \A i, j \in 1..Len(ch) :
           /\ ch[i] = "cap" /\ ch[j] = "cap" => i = j
           /\ ch[i] \in EdgeNames /\ ch[j] = "cap" => i < j
  BY ChainShape, PipelineAssumption DEF Where
<1>2. UNCHANGED <<conf, permits>>
  BY DEF Outside, Arrive, Finish, LeaveEdge, Refuse
<1>3. ch' = ch
  BY <1>2 DEF Chain, Apply, Manager, Use, Wrap
<1> HIDE DEF ch
<1>4. /\ ~Inside(r) /\ ~Inside(r)' /\ Where'
      /\ \A s \in Requests \ {r} : pos'[s] = pos[s] /\ dir'[s] = dir[s]
  <2>1. CASE Arrive(r)
    <3>1. dir[r] = "idle" /\ pos[r] = 0 /\ dir' = [dir EXCEPT ![r] = "in"] /\ pos' = [pos EXCEPT ![r] = 1]
      BY <2>1 DEF Arrive, Where
    <3>2. ~Inside(r) /\ ~Inside(r)'
      BY <1>1, <1>3, <3>1 DEF Inside, ch, Where
    <3> QED BY <1>1, <1>2, <1>3, <3>1, <3>2 DEF Where, ch, Ended
  <2>2. CASE Finish(r)
    <3>1. PICK d \in Ended : dir' = [dir EXCEPT ![r] = d]
      BY <2>2 DEF Finish, Ended
    <3>2. pos[r] = 0 /\ pos' = [pos EXCEPT ![r] = 0]
      BY <2>2 DEF Finish, Where
    <3>3. ~Inside(r) /\ ~Inside(r)'
      BY <1>1, <1>3, <3>1, <3>2 DEF Inside, ch, Where
    <3> QED BY <1>1, <1>2, <1>3, <3>1, <3>2, <3>3 DEF Where, ch, Ended
  <2>3. CASE LeaveEdge(r)
    <3>1. /\ dir[r] \in {"out", "panic"} /\ pos[r] > 0 /\ ch[pos[r]] \in EdgeNames
          /\ pos' = [pos EXCEPT ![r] = 0] /\ dir' = dir
      BY <2>3 DEF LeaveEdge, Leaving, Reached, EdgeNames, ch
    <3>2. pos[r] \in 1..Len(ch) /\ dir' = [dir EXCEPT ![r] = dir[r]]
      BY <3>1 DEF Where, ch
    <3>3. ~Inside(r)
      BY <1>1, <3>1, <3>2 DEF Inside, ch, EdgeNames
    <3>4. ~Inside(r)'
      BY <1>1, <1>3, <3>1 DEF Inside, ch, Where
    <3> QED BY <1>1, <1>2, <1>3, <3>1, <3>2, <3>3, <3>4 DEF Where, ch, Ended
  <2>4. CASE In(r, "cap") /\ Refuse(r, 503)
    <3>1. /\ dir[r] = "in" /\ pos[r] > 0 /\ ch[pos[r]] = "cap"
          /\ pos' = [pos EXCEPT ![r] = pos[r] - 1] /\ dir' = [dir EXCEPT ![r] = "out"]
      BY <2>4 DEF In, Reached, Refuse, Move, ch
    <3>2. pos[r] \in 1..Len(ch)
      BY <3>1 DEF Where, ch
    <3>3. ~Inside(r)
      BY <1>1, <3>1, <3>2 DEF Inside, ch
    <3>4. ~Inside(r)'
      BY <1>1, <1>3, <3>1, <3>2 DEF Inside, ch, Where
    <3> QED BY <1>1, <1>2, <1>3, <3>1, <3>2, <3>3, <3>4 DEF Where, ch, Ended
  <2> QED BY <2>1, <2>2, <2>3, <2>4 DEF Outside
<1>5. ASSUME NEW s \in Requests, s # r PROVE Inside(s)' <=> Inside(s)
  BY <1>2, <1>4, <1>5, InsideKept
<1> QED BY <1>2, <1>4, <1>5 DEF Admitted

\* Taking a token takes the request inside.
LEMMA AcquireEnters ==
  ASSUME Where, NEW r \in Requests, Acquire(r)
  PROVE  Where' /\ r \notin Admitted /\ Admitted' = Admitted \cup {r} /\ permits' = permits + 1
<1> DEFINE ch == Chain(conf)
<1>1. /\ Len(ch) \in Nat \ {0} /\ ch[Len(ch)] = "site"
      /\ \A i, j \in 1..Len(ch) : ch[i] = "cap" /\ ch[j] = "cap" => i = j
  BY ChainShape, PipelineAssumption DEF Where
<1>2. conf' = conf /\ permits' = permits + 1
  BY DEF Acquire
<1>3. ch' = ch
  BY <1>2 DEF Chain, Apply, Manager, Use, Wrap
<1> HIDE DEF ch
<1>4. /\ dir[r] = "in" /\ pos[r] > 0 /\ ch[pos[r]] = "cap"
      /\ pos' = [pos EXCEPT ![r] = pos[r] + 1] /\ dir' = dir
  BY DEF Acquire, In, Reached, Forward, ch
<1>5. pos[r] \in 1..Len(ch) /\ pos[r] # Len(ch)
  BY <1>1, <1>4 DEF Where, ch
<1>6. ~Inside(r)
  BY <1>1, <1>4, <1>5 DEF Inside, ch
<1>7. Inside(r)'
  BY <1>1, <1>3, <1>4, <1>5 DEF Inside, ch, Where
<1>8. Where'
  BY <1>1, <1>2, <1>3, <1>4, <1>5 DEF Where, ch, Ended
<1>9. ASSUME NEW s \in Requests, s # r PROVE Inside(s)' <=> Inside(s)
  <2>1. pos'[s] = pos[s] /\ dir'[s] = dir[s]
    BY <1>4, <1>9 DEF Where
  <2> QED BY <1>2, <2>1, InsideKept
<1> QED BY <1>2, <1>6, <1>7, <1>8, <1>9 DEF Admitted

\* Giving it back, after a return or a panic, takes it outside.
LEMMA ReleaseLeaves ==
  ASSUME Where, NEW r \in Requests, Release(r)
  PROVE  Where' /\ r \in Admitted /\ Admitted' = Admitted \ {r} /\ permits' = permits - 1
<1> DEFINE ch == Chain(conf)
<1>1. /\ Len(ch) \in Nat \ {0}
      /\ \A i, j \in 1..Len(ch) : ch[i] = "cap" /\ ch[j] = "cap" => i = j
  BY ChainShape, PipelineAssumption DEF Where
<1>2. conf' = conf /\ permits' = permits - 1
  BY DEF Release, Released
<1>3. ch' = ch
  BY <1>2 DEF Chain, Apply, Manager, Use, Wrap
<1> HIDE DEF ch
<1>4. /\ dir[r] \in {"out", "panic"} /\ pos[r] > 0 /\ ch[pos[r]] = "cap"
      /\ pos' = [pos EXCEPT ![r] = pos[r] - 1] /\ dir' = [dir EXCEPT ![r] = dir[r]]
  BY DEF Release, Leaving, Reached, Back, Move, ch
<1>5. pos[r] \in 1..Len(ch)
  BY <1>4 DEF Where, ch
<1>6. Inside(r)
  BY <1>4, <1>5 DEF Inside, ch
<1>7. ~Inside(r)'
  BY <1>1, <1>3, <1>4, <1>5 DEF Inside, ch, Where
<1>8. Where'
  BY <1>1, <1>2, <1>3, <1>4, <1>5 DEF Where, ch, Ended
<1>9. ASSUME NEW s \in Requests, s # r PROVE Inside(s)' <=> Inside(s)
  <2>1. pos'[s] = pos[s] /\ dir'[s] = dir[s]
    BY <1>4, <1>9 DEF Where
  <2> QED BY <1>2, <2>1, InsideKept
<1> QED BY <1>2, <1>6, <1>7, <1>8, <1>9 DEF Admitted

\* Every other step of a request moves it along at a handler that is not the
\* cap, or not at all.
Other(r) ==
  \/ Edge(r) /\ ~LeaveEdge(r)
  \/ PluginStep(r) \/ Wrapper(r) \/ Site(r) \/ Logging(r)

\* Such a step takes and returns no token.
LEMMA OtherMoves ==
  ASSUME Where, NEW r \in Requests, Other(r)
  PROVE  Motion(r) /\ UNCHANGED <<conf, permits>>
<1>1. ASSUME NEW name, name # "cap", name # "site", In(r, name), Forward(r)
      PROVE  Motion(r)
  BY <1>1 DEF In, Reached, Motion, Onward, NotAtCap
<1>2. ASSUME NEW name, name # "cap", Reached(r, {"in", "out", "panic", "log"}, name),
             NEW d \in {"out", "panic"}, Move(r, d)
      PROVE  Motion(r)
  BY <1>2 DEF Reached, Motion, Backward, NotAtCap
<1>3. ASSUME NEW name, name # "cap", Leaving(r, name), Back(r)
      PROVE  Motion(r)
  <2>1. dir[r] \in {"out", "panic"} /\ Reached(r, {"in", "out", "panic", "log"}, name) /\ Move(r, dir[r])
    BY <1>3 DEF Leaving, Reached, Back
  <2> QED BY <1>2, <1>3, <2>1
<1>4. ASSUME NEW name, name # "cap", name # "site", In(r, name),
             NEW code, Pass(r) \/ Refuse(r, code)
      PROVE  Motion(r) /\ UNCHANGED <<conf, permits>>
  <2>1. Reached(r, {"in", "out", "panic", "log"}, name)
    BY <1>4 DEF In, Reached
  <2>2. CASE Pass(r)
    BY <1>1, <1>4, <2>2 DEF Pass
  <2>3. CASE Refuse(r, code)
    BY <1>2, <1>4, <2>1, <2>3 DEF Refuse
  <2> QED BY <1>4, <2>2, <2>3
<1>5. CASE Edge(r) /\ ~LeaveEdge(r)
  <2>1. CASE ForceHTTPS(r)
    BY <1>4, <2>1 DEF ForceHTTPS
  <2>2. CASE IPFilter(r)
    BY <1>4, <2>2 DEF IPFilter
  <2>3. CASE RateLimit(r)
    BY <1>4, <2>3 DEF RateLimit
  <2>4. CASE CORS(r)
    BY <1>4, <2>4 DEF CORS
  <2> QED BY <1>5, <2>1, <2>2, <2>3, <2>4 DEF Edge
<1>6. CASE PluginStep(r)
  <2>1. CASE PluginHandles(r) \/ PluginAborts(r)
    BY <2>1 DEF PluginHandles, PluginAborts, RunPlugins, In, Reached, Motion, Turn, NotAtCap
  <2>2. CASE PluginsPass(r) \/ PluginSpoils(r)
    BY <1>1, <2>2 DEF PluginsPass, PluginSpoils, RunPlugins
  <2>3. CASE LeavePlugins(r)
    BY <1>3, <2>3 DEF LeavePlugins
  <2> QED BY <1>6, <2>1, <2>2, <2>3 DEF PluginStep
<1>7. CASE Wrapper(r)
  BY <1>1, <1>3, <1>7 DEF Wrapper, WrapGzip, CloseGzip, WrapLogging
<1>8. CASE Site(r)
  <2>1. CASE Hijack(r) \/ SiteReturns(r) \/ SitePanics(r)
    <3>1. In(r, "site") /\ (Move(r, "out") \/ Move(r, "panic")) /\ UNCHANGED <<conf, permits>>
      BY <2>1 DEF Hijack, SiteReturns, SitePanics
    <3>2. Reached(r, {"in", "out", "panic", "log"}, "site")
      BY <3>1 DEF In, Reached
    <3> QED BY <1>2, <3>1, <3>2
  <2>2. ASSUME NEW a \in Responses[r],
               WriteHeader(r, a.code, a.coded, a.text) \/ Inform(r, a.coded, a.text)
        PROVE  UNCHANGED <<dir, pos, conf, permits>>
    BY <2>2 DEF WriteHeader, Inform
  <2>3. CASE Write(r)
    BY <2>3 DEF Write, Motion
  <2> QED BY <1>8, <2>1, <2>2, <2>3 DEF Site, Motion
<1>9. CASE Logging(r)
  <2>1. CASE LogGet(r)
    BY <2>1 DEF LogGet, Point, Out, Reached, Motion, Turn, NotAtCap
  <2>2. CASE LogFill(r)
    BY <2>2 DEF LogFill, Point, Where, Motion, Turn, NotAtCap
  <2>3. CASE LogSend(r)
    <3>1. Reached(r, {"in", "out", "panic", "log"}, "logging")
      BY <2>3 DEF LogSend, Where, Reached
    <3> QED BY <1>2, <2>3, <3>1 DEF LogSend
  <2>4. CASE SkipLogging(r)
    BY <1>3, <2>4 DEF SkipLogging, Leaving, Reached
  <2> QED BY <1>9, <2>1, <2>2, <2>3, <2>4 DEF Logging
<1> QED BY <1>5, <1>6, <1>7, <1>8, <1>9 DEF Other

\* The tokens stay those of the requests inside.
LEMMA CapKept == ASSUME CapInv, [Next]_vars PROVE CapInv'
<1> USE DEF CapInv
<1>1. IsFiniteSet(Admitted) /\ Cardinality(Admitted) \in Nat
  <2>1. IsFiniteSet(Admitted)
    BY LogAssumption, FS_Subset DEF Admitted
  <2> QED BY <2>1, FS_CardinalityType
<1>2. ASSUME NEW r \in Requests, Outside(r) PROVE CapInv'
  BY <1>2, OutsideKeeps
<1>3. ASSUME NEW r \in Requests, Acquire(r) PROVE CapInv'
  <2>1. Where' /\ r \notin Admitted /\ Admitted' = Admitted \cup {r} /\ permits' = permits + 1
    BY <1>3, AcquireEnters
  <2>2. Cardinality(Admitted \cup {r}) = Cardinality(Admitted) + 1
    BY <1>1, <2>1, FS_AddElement
  <2> QED BY <2>1, <2>2
<1>4. ASSUME NEW r \in Requests, Release(r) PROVE CapInv'
  <2>1. Where' /\ r \in Admitted /\ Admitted' = Admitted \ {r} /\ permits' = permits - 1
    BY <1>4, ReleaseLeaves
  <2>2. Cardinality(Admitted \ {r}) = Cardinality(Admitted) - 1
    BY <1>1, <2>1, FS_RemoveElement
  <2> QED BY <2>1, <2>2
<1>5. ASSUME NEW r \in Requests, Other(r) PROVE CapInv'
  BY <1>5, OtherMoves, MotionKeeps
<1>6. CASE WorkerStep \/ UNCHANGED vars
  <2>1. UNCHANGED <<conf, permits, dir, pos>>
    BY <1>6 DEF WorkerStep, vars
  <2>2. Chain(conf)' = Chain(conf)
    BY <2>1 DEF Chain, Apply, Manager, Use, Wrap
  <2>3. Where' /\ Admitted' = Admitted
    BY <2>1, <2>2 DEF Where, Admitted, Inside
  <2> QED BY <2>1, <2>3
<1>7. ASSUME NEW r \in Requests, Saturated(r) PROVE Outside(r)
  BY <1>7 DEF Saturated, Outside
<1> QED BY <1>2, <1>3, <1>4, <1>5, <1>6, <1>7 DEF Next, Outside, Other, Edge, Cap

\* The first states.
LEMMA CapInit == Init => CapInv
<1> SUFFICES ASSUME Init PROVE CapInv
  OBVIOUS
<1>1. Where
  <2>1. Len(Chain(conf)) \in Nat
    BY ChainShape, PipelineAssumption DEF Init
  <2> QED BY <2>1 DEF Init, Where, Ended
<1>2. Admitted = {}
  BY DEF Init, Admitted, Inside
<1> QED BY <1>1, <1>2, FS_EmptySet DEF Init, CapInv

\* The tokens taken are those of the requests inside the cap, whatever way
\* they leave (concurrency.go:8-25), for any number of requests and plugins.
THEOREM TokensMatch == Spec => []TokensMatchRequests
<1>1. Init => CapInv
  BY CapInit
<1>2. CapInv => TokensMatchRequests
  BY DEF CapInv, Admitted, TokensMatchRequests
<1>3. CapInv /\ [Next]_vars => CapInv'
  BY CapKept
<1> QED BY <1>1, <1>2, <1>3, PTL DEF Spec

----------------------------------------------------------------------------
(* Where a request is *)

\* The place of a request in the order of the handlers, 0 outside of them.
RankAt(s, i) == IF i = 0 THEN 0 ELSE Rank(s[i])
Stage(r) == RankAt(Chain(conf), pos[r])

\* Nothing that is there lies between two neighbours.
Between(j, k, N) == \E n \in N : j < Rank(n) /\ Rank(n) < k

\* From one handler to the next, every handler of the chain is behind or ahead.
LEMMA Neighbours ==
  ASSUME NEW s, NEW N, InOrder(s, N), NEW i \in 0..(Len(s) - 1)
  PROVE  RankAt(s, i) < RankAt(s, i + 1) /\ ~Between(RankAt(s, i), RankAt(s, i + 1), N)
<1>1. Len(s) \in Nat /\ i \in Nat /\ i + 1 \in 1..Len(s) /\ i + 1 # 0 /\ (i # 0 => i \in 1..Len(s))
  BY DEF InOrder
<1>2. \A j \in 1..Len(s) : Rank(s[j]) \in 1..9
  <2>1. \A j \in 1..Len(s) : s[j] \in Handlers
    BY DEF InOrder
  <2> QED BY <2>1, RankRange
<1>3. RankAt(s, i + 1) = Rank(s[i + 1]) /\ RankAt(s, i) = IF i = 0 THEN 0 ELSE Rank(s[i])
  BY <1>1 DEF RankAt
<1>4. RankAt(s, i) < RankAt(s, i + 1)
  BY <1>1, <1>2, <1>3 DEF InOrder
<1>5. ASSUME NEW n \in N PROVE Rank(n) <= RankAt(s, i) \/ RankAt(s, i + 1) <= Rank(n)
  <2>1. PICK j \in 1..Len(s) : s[j] = n
    BY DEF InOrder
  <2>2. CASE j <= i
    <3>1. i # 0 /\ i \in 1..Len(s) /\ RankAt(s, i) = Rank(s[i])
      BY <1>1, <1>3, <2>2
    <3>2. j = i \/ Rank(s[j]) < Rank(s[i])
      BY <2>2, <3>1 DEF InOrder
    <3> QED BY <1>2, <2>1, <3>1, <3>2
  <2>3. CASE j > i
    <3>1. j = i + 1 \/ Rank(s[i + 1]) < Rank(s[j])
      BY <1>1, <2>3 DEF InOrder
    <3> QED BY <1>1, <1>2, <1>3, <2>1, <3>1
  <2> QED BY <1>1, <2>2, <2>3
<1>6. \A n \in N : Rank(n) \in 1..9
  BY <1>2 DEF InOrder
<1>7. RankAt(s, i) \in 0..9 /\ RankAt(s, i + 1) \in 1..9
  BY <1>1, <1>2, <1>3
<1> QED BY <1>4, <1>5, <1>6, <1>7 DEF Between

\* A stage is the rank of a handler that is there, and a handler is reached at
\* its rank.
Placed(r) ==
  /\ Stage(r) \in 0..9 /\ (Stage(r) = 0 <=> pos[r] = 0)
  /\ \A name \in Handlers : \A d :
       Reached(r, d, name) <=> dir[r] \in d /\ Stage(r) = Rank(name)
  /\ Stage(r) = 1 => conf.https
  /\ Stage(r) = 2 => conf.ips
  /\ Stage(r) = 6 => conf.max > 0
  /\ Stage(r) = 8 => conf.logging
  /\ dir[r] \in {"idle"} \cup Ended => Stage(r) = 0
  /\ dir[r] \in {"fill", "log"} => Stage(r) = 8

\* The invariant of the positions, read as stages.
LEMMA Stages == Where => \A r \in Requests : Placed(r)
<1> SUFFICES ASSUME Where, NEW r \in Requests PROVE Placed(r)
  OBVIOUS
<1> DEFINE ch == Chain(conf)
<1>0. conf \in Config
  BY PipelineAssumption DEF Where
<1>1. InOrder(ch, Present(conf))
  BY <1>0, ChainOrder
<1>2. pos[r] \in Nat /\ Len(ch) \in Nat /\ pos[r] <= Len(ch)
  BY <1>1 DEF Where, InOrder
<1>3. Stage(r) = IF pos[r] = 0 THEN 0 ELSE Rank(ch[pos[r]])
  BY DEF Stage, RankAt
<1>4. pos[r] # 0 => ch[pos[r]] \in Handlers /\ ch[pos[r]] \in Present(conf)
  BY <1>1, <1>2 DEF InOrder
<1> HIDE DEF ch
<1>5. Stage(r) \in 0..9 /\ (Stage(r) = 0 <=> pos[r] = 0)
  BY <1>3, <1>4, Ranks DEF Handlers, EdgeNames
<1>6. ASSUME NEW name \in Handlers, NEW d
      PROVE  Reached(r, d, name) <=> dir[r] \in d /\ Stage(r) = Rank(name)
  <2>1. Reached(r, d, name) <=> dir[r] \in d /\ pos[r] > 0 /\ ch[pos[r]] = name
    BY DEF Reached, ch
  <2>2. Rank(name) # 0 /\ (pos[r] # 0 => (Rank(ch[pos[r]]) = Rank(name) <=> ch[pos[r]] = name))
    BY <1>4, Ranks DEF Handlers, EdgeNames
  <2> QED BY <1>2, <1>3, <2>1, <2>2
<1>7. /\ Stage(r) = 1 => conf.https
      /\ Stage(r) = 2 => conf.ips
      /\ Stage(r) = 6 => conf.max > 0
      /\ Stage(r) = 8 => conf.logging
  BY <1>3, <1>4, Ranks DEF Handlers, EdgeNames, Present
<1>8. dir[r] \in {"idle"} \cup Ended => Stage(r) = 0
  BY <1>3 DEF Where
<1>9. dir[r] \in {"fill", "log"} => Stage(r) = 8
  BY <1>3, Ranks DEF Where, ch
<1> QED BY <1>5, <1>6, <1>7, <1>8, <1>9 DEF Placed

\* The same after a step.
LEMMA StagesAfter == Where' => \A r \in Requests : Placed(r)'
<1>1. Where' => (\A r \in Requests : Placed(r))'
  BY Stages, PTL
<1> QED BY <1>1

\* A call goes on to the next handler that is there, a return to the one before.
LEMMA StageMoves ==
  ASSUME Where, conf' = conf, NEW r \in Requests
  PROVE  /\ pos'[r] = pos[r] => Stage(r)' = Stage(r)
         /\ pos'[r] = pos[r] + 1 /\ Stage(r) # 9 =>
              Stage(r) < Stage(r)' /\ ~Between(Stage(r), Stage(r)', Present(conf))
         /\ pos'[r] = pos[r] - 1 /\ Stage(r) # 0 =>
              Stage(r)' < Stage(r) /\ ~Between(Stage(r)', Stage(r), Present(conf))
         /\ pos'[r] = 0 => Stage(r)' = 0
<1> DEFINE ch == Chain(conf)
<1>0. conf \in Config
  BY PipelineAssumption DEF Where
<1>1. InOrder(ch, Present(conf)) /\ Len(ch) \in Nat /\ ch[Len(ch)] = "site" /\ Len(ch) # 0
  BY <1>0, ChainOrder, ChainShape
<1>2. pos[r] \in Nat /\ pos[r] <= Len(ch)
  BY DEF Where
<1>3. Chain(conf)' = ch
  BY DEF Chain, Apply, Manager, Use, Wrap
<1>4. Stage(r) = RankAt(ch, pos[r]) /\ Stage(r)' = RankAt(ch, pos'[r])
  BY <1>3 DEF Stage, RankAt
<1> HIDE DEF ch
<1>5. pos'[r] = pos[r] => Stage(r)' = Stage(r)
  BY <1>4
<1>6. ASSUME pos'[r] = pos[r] + 1, Stage(r) # 9
      PROVE  Stage(r) < Stage(r)' /\ ~Between(Stage(r), Stage(r)', Present(conf))
  <2>1. pos[r] # Len(ch)
    BY <1>1, <1>4, <1>6, Ranks DEF RankAt
  <2>2. pos[r] \in 0..(Len(ch) - 1)
    BY <1>1, <1>2, <2>1
  <2> QED BY <1>1, <1>4, <1>6, <2>2, Neighbours
<1>7. ASSUME pos'[r] = pos[r] - 1, Stage(r) # 0
      PROVE  Stage(r)' < Stage(r) /\ ~Between(Stage(r)', Stage(r), Present(conf))
  <2>1. pos[r] # 0
    BY <1>4, <1>7 DEF RankAt
  <2> DEFINE i == pos[r] - 1
  <2>2. i \in 0..(Len(ch) - 1) /\ i + 1 = pos[r] /\ pos'[r] = i
    BY <1>1, <1>2, <1>7, <2>1
  <2> HIDE DEF i
  <2> QED BY <1>1, <1>4, <2>2, Neighbours
<1>8. pos'[r] = 0 => Stage(r)' = 0
  BY <1>4 DEF RankAt
<1> QED BY <1>5, <1>6, <1>7, <1>8

\* A call from stage j reaches stage k, or a return from k stage j: no handler
\* that is always there, and none that is configured, is left out.
Passes(j, k) ==
  /\ j \in 0..9 /\ k \in 0..9 /\ j < k
  /\ j >= 5 \/ k <= 5
  /\ j >= 7 \/ k <= 7
  /\ conf.https => j >= 1 \/ k <= 1
  /\ conf.ips => j >= 2 \/ k <= 2
  /\ conf.logging => j >= 8 \/ k <= 8

\* Whoever passes no handler that is there passes none of these.
LEMMA PassesIs ==
  ASSUME NEW j \in 0..9, NEW k \in 0..9, j < k, ~Between(j, k, Present(conf))
  PROVE  Passes(j, k)
<1>1. ASSUME NEW n \in Present(conf), Rank(n) \in 0..9 PROVE j >= Rank(n) \/ k <= Rank(n)
  BY <1>1 DEF Between
<1>2. "plugins" \in Present(conf) /\ "gzip" \in Present(conf)
      /\ (conf.https => "https" \in Present(conf)) /\ (conf.ips => "ips" \in Present(conf))
      /\ (conf.logging => "logging" \in Present(conf))
  BY DEF Present
<1> QED BY <1>1, <1>2, Ranks DEF Passes

\* Calling the next handler and returning to the one before, seen by the stage.
LEMMA Forwards ==
  ASSUME Where, Where', conf' = conf, NEW r \in Requests, Stage(r) # 9, Forward(r)
  PROVE  Passes(Stage(r), Stage(r)') /\ dir'[r] = dir[r]
<1>1. pos'[r] = pos[r] + 1 /\ dir'[r] = dir[r]
  BY DEF Forward, Where
<1>2. Stage(r) \in 0..9 /\ Stage(r)' \in 0..9
  BY Stages, StagesAfter DEF Placed
<1> QED BY <1>1, <1>2, StageMoves, PassesIs

\* A return, with the direction the request goes on in.
LEMMA Returns ==
  ASSUME Where, Where', conf' = conf, NEW r \in Requests, Stage(r) # 0, NEW d, Move(r, d)
  PROVE  Passes(Stage(r)', Stage(r)) /\ dir'[r] = d
<1>1. pos'[r] = pos[r] - 1 /\ dir'[r] = d
  BY DEF Move, Where
<1>2. Stage(r) \in 0..9 /\ Stage(r)' \in 0..9
  BY Stages, StagesAfter DEF Placed
<1> QED BY <1>1, <1>2, StageMoves, PassesIs

----------------------------------------------------------------------------
(* The types of the pipeline, and what a step leaves alone *)

\* The rest of TypeOK, with what a request is like as a function.
Writers == [on : BOOLEAN, checked : BOOLEAN, compress : BOOLEAN, status : Codes]
Typed ==
  /\ kind \in [Requests -> Kind] /\ \A r \in Requests : kind[r] \in Kinds[r]
  /\ hooks \in [Requests -> 0..Plugins] /\ asked \in [Requests -> 0..Plugins]
  /\ spoilt \in [Requests -> BOOLEAN]
  /\ site \in [Requests -> {"new", "informed", "none", "own"}]
  /\ status \in [Requests -> Codes]
  /\ gzip \in [Requests -> Writers]
  /\ sent \in [Requests -> Codes] /\ coding \in [Requests -> {"none", "own", "gzip"}]
  /\ body \in [Requests -> SUBSET {"none", "own", "gzip"}]

\* What a step of another request leaves alone.
Same(s) ==
  UNCHANGED <<dir[s], pos[s], kind[s], hooks[s], asked[s], spoilt[s], site[s],
              status[s], gzip[s], sent[s], coding[s], body[s]>>
Aside(r) == conf' = conf /\ \A s \in Requests \ {r} : Same(s)

Step(r) ==
  \/ Arrive(r) \/ Finish(r) \/ Edge(r) \/ PluginStep(r) \/ Cap(r) \/ Wrapper(r)
  \/ Site(r) \/ Logging(r)

\* An answer is one of the codes.
LEMMA Answers ==
  ASSUME Typed, NEW r \in Requests, NEW code \in Codes, Answer(r, code)
  PROVE  /\ sent' \in [Requests -> Codes] /\ \A s \in Requests \ {r} : sent'[s] = sent[s]
         /\ sent'[r] = IF sent[r] = 0 THEN code ELSE sent[r]
  BY DEF Answer, Typed

\* What the compressor decides has its type.
LEMMA Checks ==
  ASSUME Typed, NEW r \in Requests, NEW code \in Codes, NEW coded, NEW text \in BOOLEAN
  PROVE  Check(gzip[r], r, code, coded, text) \in Writers
<1>1. gzip[r] \in Writers /\ kind[r].range \in BOOLEAN
  BY DEF Typed, Kind, Flags
<1> QED BY <1>1 DEF Check, Writers

\* What the site's handler may answer.
LEMMA ResponseType ==
  ASSUME NEW r \in Requests, NEW a \in Responses[r]
  PROVE  /\ a.code \in {200, 304, 502} /\ a.code \in Codes
         /\ a.coded \in {"none", "own"} /\ a.text \in BOOLEAN
<1>1. a \in Response
  BY PipelineAssumption
<1>2. a.code \in {200, 304, 502} /\ a.coded \in {"none", "own"}
  BY <1>1 DEF Response
<1>3. a.text \in BOOLEAN
  <2>1. Flags = BOOLEAN
    BY DEF Flags
  <2>2. a.text \in Flags
    BY <1>1 DEF Response
  <2> QED BY Zenon, <2>1, <2>2
<1>4. a.code \in Codes
  BY <1>2 DEF Codes
<1> QED BY Zenon, <1>2, <1>3, <1>4

\* A step of a request keeps the types and leaves the others aside.
LEMMA StepTypes ==
  ASSUME Typed, Where, NEW r \in Requests, Step(r)
  PROVE  Typed' /\ Aside(r)
<1> USE DEF plugs, reply, wire
<1>0. /\ \A code \in {0, 101, 103, 200, 204, 301, 304, 403, 429, 500, 502, 503} : code \in Codes
      /\ Plugins \in Nat /\ 0 \in 0..Plugins /\ Plugins \in 0..Plugins
      /\ dir \in [Requests -> {"idle", "in", "out", "panic", "fill", "log"} \cup Ended]
      /\ pos \in [Requests -> Nat]
  BY PipelineAssumption DEF Codes, Where
<1>1. ASSUME NEW d, Move(r, d)
      PROVE  \A s \in Requests \ {r} : UNCHANGED <<dir[s], pos[s]>>
  BY <1>0, <1>1 DEF Move
<1>2. ASSUME Forward(r)
      PROVE  \A s \in Requests \ {r} : UNCHANGED <<dir[s], pos[s]>>
  BY <1>0, <1>2 DEF Forward
<1>3. ASSUME Pass(r) PROVE Typed' /\ Aside(r)
  BY <1>2, <1>3 DEF Pass, Typed, Aside, Same
<1>4. ASSUME NEW code \in Codes, Refuse(r, code) PROVE Typed' /\ Aside(r)
  BY <1>1, <1>4, Answers DEF Refuse, Typed, Aside, Same
<1>5. CASE Arrive(r)
  <2>1. PICK k \in Kinds[r] : kind' = [kind EXCEPT ![r] = k]
    BY <1>5 DEF Arrive
  <2>2. k \in Kind
    BY PipelineAssumption
  <2> QED BY <1>0, <1>5, <2>1, <2>2 DEF Arrive, Typed, Aside, Same
<1>6. CASE Finish(r)
  <2>1. PICK k \in Kinds[r] : k = CHOOSE j \in Kinds[r] : TRUE
    BY PipelineAssumption
  <2>2. k \in Kind /\ kind' = [kind EXCEPT ![r] = k]
    BY <1>6, <2>1, PipelineAssumption DEF Finish
  <2> QED BY <1>0, <1>6, <2>1, <2>2 DEF Finish, Typed, Aside, Same, Unwrapped, Writers
<1>7. CASE Edge(r)
  <2>1. CASE LeaveEdge(r)
    BY <1>0, <2>1 DEF LeaveEdge, Typed, Aside, Same
  <2> QED BY <1>0, <1>3, <1>4, <1>7, <2>1 DEF Edge, ForceHTTPS, IPFilter, RateLimit, CORS
<1>8. CASE PluginStep(r)
  <2>1. ASSUME NEW n \in 0..Plugins, RunPlugins(r, n)
        PROVE  /\ hooks' \in [Requests -> 0..Plugins] /\ asked' \in [Requests -> 0..Plugins]
               /\ \A s \in Requests \ {r} : UNCHANGED <<hooks[s], asked[s]>>
    BY <1>0, <2>1 DEF RunPlugins, Typed
  <2>2. CASE PluginHandles(r)
    <3>1. PICK n \in 0..Plugins : RunPlugins(r, n)
      BY <1>0, <2>2 DEF PluginHandles
    <3>2. Answer(r, 200) \/ Answer(r, 101)
      BY <2>2 DEF PluginHandles
    <3>3. sent' \in [Requests -> Codes] /\ \A s \in Requests \ {r} : sent'[s] = sent[s]
      BY <1>0, <3>2, Answers
    <3>4. /\ dir' = [dir EXCEPT ![r] = "out"]
          /\ UNCHANGED <<conf, kind, pos, spoilt, site, status, gzip, coding, body>>
      BY <2>2 DEF PluginHandles
    <3> QED BY <1>0, <2>1, <3>1, <3>3, <3>4 DEF Typed, Aside, Same
  <2>2a. CASE PluginAborts(r)
    <3>1. PICK n \in 0..Plugins : RunPlugins(r, n)
      BY <1>0, <2>2a DEF PluginAborts
    <3> QED BY <1>0, <2>1, <2>2a, <3>1, Answers DEF PluginAborts, Typed, Aside, Same
  <2>3. CASE PluginsPass(r)
    BY <1>0, <1>2, <2>1, <2>3 DEF PluginsPass, Typed, Aside, Same
  <2>4. CASE PluginSpoils(r)
    BY <1>0, <1>2, <2>1, <2>4, Answers DEF PluginSpoils, Typed, Aside, Same
  <2>5. CASE LeavePlugins(r)
    BY <1>0, <1>1, <2>5 DEF LeavePlugins, Back, Typed, Aside, Same
  <2> QED BY <1>8, <2>2, <2>2a, <2>3, <2>4, <2>5 DEF PluginStep
<1>9. CASE Cap(r)
  <2>1. CASE Acquire(r)
    BY <1>2, <2>1 DEF Acquire, Typed, Aside, Same
  <2>2. CASE Release(r)
    BY <1>1, <2>2 DEF Release, Back, Typed, Aside, Same
  <2> QED BY <1>0, <1>4, <1>9, <2>1, <2>2 DEF Cap, Saturated
<1>10. CASE Wrapper(r)
  <2>1. CASE WrapGzip(r)
    <3>1. kind[r].gzip \in BOOLEAN
      BY DEF Typed, Kind, Flags
    <3> QED BY <1>2, <2>1, <3>1 DEF WrapGzip, Typed, Aside, Same, Writers
  <2>2. CASE CloseGzip(r)
    <3>1. sent' \in [Requests -> Codes] /\ \A s \in Requests \ {r} : sent'[s] = sent[s]
      BY <1>0, <2>2, Answers DEF CloseGzip, Typed
    <3> QED BY <1>1, <2>2, <3>1 DEF CloseGzip, Back, Typed, Aside, Same
  <2>3. CASE WrapLogging(r)
    BY <1>0, <1>2, <2>3 DEF WrapLogging, Typed, Aside, Same
  <2> QED BY <1>10, <2>1, <2>2, <2>3 DEF Wrapper
<1>11. CASE Site(r)
  <2>1. ASSUME NEW code \in Codes, SetStatus(r, code)
        PROVE  status' \in [Requests -> Codes] /\ \A s \in Requests \ {r} : status'[s] = status[s]
    BY <2>1 DEF SetStatus, Typed
  <2>2. ASSUME NEW code \in Codes, NEW coded, NEW text \in BOOLEAN,
               gzip' = [gzip EXCEPT ![r] = Check(@, r, code, coded, text)]
        PROVE  gzip' \in [Requests -> Writers] /\ \A s \in Requests \ {r} : gzip'[s] = gzip[s]
    BY <2>2, Checks DEF Typed
  <2>3. ASSUME NEW a \in Responses[r], Inform(r, a.coded, a.text)
        PROVE  Typed' /\ Aside(r)
    <3>1. SetStatus(r, 103) /\ gzip' = [gzip EXCEPT ![r] = Check(@, r, 103, a.coded, a.text)]
      BY <2>3 DEF Inform
    <3>2. status' \in [Requests -> Codes] /\ \A s \in Requests \ {r} : status'[s] = status[s]
      BY <1>0, <2>1, <3>1
    <3>3. a.text \in BOOLEAN
      BY ResponseType
    <3>3a. 103 \in Codes
      BY <1>0
    <3>4. gzip' \in [Requests -> Writers] /\ \A s \in Requests \ {r} : gzip'[s] = gzip[s]
      BY <2>2, <3>1, <3>3, <3>3a
    <3> QED BY <2>3, <3>2, <3>4 DEF Inform, Typed, Aside, Same
  <2>4. ASSUME NEW a \in Responses[r], WriteHeader(r, a.code, a.coded, a.text)
        PROVE  Typed' /\ Aside(r)
    <3>1. a.code \in Codes /\ a.coded \in {"none", "own"} /\ a.text \in BOOLEAN
      BY ResponseType
    <3>2. /\ SetStatus(r, a.code) /\ Answer(r, a.code)
          /\ gzip' = [gzip EXCEPT ![r] = Check(@, r, a.code, a.coded, a.text)]
      BY <2>4 DEF WriteHeader
    <3>3. /\ status' \in [Requests -> Codes] /\ \A s \in Requests \ {r} : status'[s] = status[s]
          /\ sent' \in [Requests -> Codes] /\ \A s \in Requests \ {r} : sent'[s] = sent[s]
      BY <2>1, <3>1, <3>2, Answers
    <3>4. gzip' \in [Requests -> Writers] /\ \A s \in Requests \ {r} : gzip'[s] = gzip[s]
      BY <2>2, <3>1, <3>2
    <3>5. /\ coding' \in [Requests -> {"none", "own", "gzip"}]
          /\ \A s \in Requests \ {r} : coding'[s] = coding[s]
      BY <2>4, <3>1 DEF WriteHeader, Typed
    <3> QED BY <2>4, <3>1, <3>3, <3>4, <3>5 DEF WriteHeader, Typed, Aside, Same
  <2>5. CASE Write(r)
    BY <2>5 DEF Write, Typed, Aside, Same
  <2>6. CASE Hijack(r)
    BY <1>0, <1>1, <2>6, Answers DEF Hijack, Typed, Aside, Same
  <2>7. CASE SiteReturns(r) \/ SitePanics(r)
    BY <1>1, <2>7 DEF SiteReturns, SitePanics, Typed, Aside, Same
  <2> QED BY <1>11, <2>3, <2>4, <2>5, <2>6, <2>7 DEF Site
<1>12. CASE Logging(r)
  <2>1. CASE LogGet(r) \/ LogFill(r)
    BY <1>0, <2>1 DEF LogGet, LogFill, Point, Typed, Aside, Same
  <2>2. CASE LogSend(r) \/ SkipLogging(r)
    BY <1>1, <2>2 DEF LogSend, SkipLogging, Back, Typed, Aside, Same
  <2> QED BY <1>12, <2>1, <2>2 DEF Logging
<1> QED BY <1>5, <1>6, <1>7, <1>8, <1>9, <1>10, <1>11, <1>12 DEF Step

\* The steps of the log's worker and stuttering leave every request aside.
Unmoved == UNCHANGED <<conf, kind, dir, pos, plugs, reply, wire>>

\* Every step is one of a request, or leaves all of them aside.
LEMMA NextIs ==
  /\ [Next]_vars => Unmoved \/ \E r \in Requests : Step(r)
  /\ Unmoved => conf' = conf /\ \A s \in Requests : Same(s)
<1>1. WorkerStep \/ UNCHANGED vars => Unmoved
  BY DEF Unmoved, WorkerStep, vars
<1>2. Next => WorkerStep \/ \E r \in Requests : Step(r)
  BY DEF Next, Step
<1>3. Unmoved => conf' = conf /\ \A s \in Requests : Same(s)
  BY DEF Unmoved, Same, plugs, reply, wire
<1> QED BY <1>1, <1>2, <1>3

----------------------------------------------------------------------------
(* The edge refuses before anything costs *)

\* A request on its way in through the edge has caused nothing yet; one that
\* the redirect or the address lists refuse does not get past them; one over
\* its rate is on its way out; and a hook is open only while the request is
\* inside of the plugins, or after a panic.
EdgeInv(r) ==
  /\ dir[r] = "idle" \/ (dir[r] = "in" /\ Stage(r) <= 5) =>
       sent[r] = 0 /\ asked[r] = 0 /\ hooks[r] = 0
  /\ Stage(r) > 0 /\ conf.https /\ ~kind[r].tls =>
       Stage(r) = 1 /\ asked[r] = 0 /\ sent[r] \in {0, 301}
  /\ Stage(r) > 0 /\ conf.ips /\ kind[r].nets # {"allow"} =>
       Stage(r) <= 2 /\ asked[r] = 0 /\ sent[r] \in {0, 301, 403}
  /\ sent[r] = 429 => Stage(r) <= 2 /\ asked[r] = 0 /\ dir[r] \in {"out", "done"}
  /\ hooks[r] # 0 => Stage(r) >= 5 \/ dir[r] \in {"panic", "aborted"}

\* A step of another request does not matter.
LEMMA EdgeAside ==
  ASSUME Where, NEW r \in Requests, conf' = conf, Same(r), EdgeInv(r)
  PROVE  EdgeInv(r)'
<1>1. Stage(r)' = Stage(r)
  BY StageMoves DEF Same
<1> QED BY <1>1 DEF EdgeInv, Same

\* Nor does what happens inside of the plugins: there the edge has let the
\* request pass.
Within(r) ==
  /\ Stage(r) >= 6 /\ Stage(r)' >= 5 /\ (dir'[r] = "in" => Stage(r)' > 5) /\ dir'[r] # "idle"
  /\ kind'[r] = kind[r] /\ sent'[r] \in {sent[r]} \cup (Codes \ {429})

\* Such a step keeps what the edge guarantees.
LEMMA EdgeWithin ==
  ASSUME Where, Where', NEW r \in Requests, conf' = conf, Within(r), EdgeInv(r)
  PROVE  EdgeInv(r)'
<1>1. Stage(r) \in 0..9 /\ Stage(r)' \in 0..9
  BY Stages, StagesAfter DEF Placed
<1> QED BY <1>1 DEF EdgeInv, Within

\* The steps inside of the plugins.
Inner(r) == Cap(r) \/ Wrapper(r) \/ Site(r) \/ Logging(r)

\* They are such steps.
LEMMA InnerWithin ==
  ASSUME Typed, Where, Where', NEW r \in Requests, Inner(r)
  PROVE  Within(r) /\ conf' = conf
<1> USE DEF plugs, reply, wire
<1>1. conf' = conf /\ UNCHANGED kind
  BY DEF Inner, Cap, Acquire, Saturated, Release, Refuse, Wrapper, WrapGzip, CloseGzip, WrapLogging,
         Site, Inform, WriteHeader, Write, Hijack, SiteReturns, SitePanics,
         Logging, LogGet, LogFill, LogSend, SkipLogging
<1>2. sent'[r] \in {sent[r]} \cup (Codes \ {429})
  <2>0. \A code \in {101, 200, 304, 502, 503} : code \in Codes \ {429}
    BY DEF Codes
  <2>1. ASSUME NEW code \in Codes \ {429}, Answer(r, code) PROVE sent'[r] \in {sent[r]} \cup (Codes \ {429})
    BY <2>1, Answers
  <2>2. CASE Cap(r)
    BY <2>0, <2>1, <2>2 DEF Cap, Acquire, Saturated, Release, Refuse
  <2>3. CASE Wrapper(r) \/ Logging(r)
    <3>1. CASE CloseGzip(r)
      BY <2>0, <2>1, <3>1 DEF CloseGzip
    <3> QED BY <2>3, <3>1 DEF Wrapper, WrapGzip, WrapLogging, Logging, LogGet, LogFill, LogSend, SkipLogging
  <2>4. CASE Site(r)
    <3>1. ASSUME NEW a \in Responses[r], WriteHeader(r, a.code, a.coded, a.text)
          PROVE  sent'[r] \in {sent[r]} \cup (Codes \ {429})
      BY <2>0, <2>1, <3>1, ResponseType DEF WriteHeader
    <3>2. CASE Hijack(r)
      BY <2>0, <2>1, <3>2 DEF Hijack
    <3>3. ASSUME UNCHANGED sent PROVE sent'[r] \in {sent[r]} \cup (Codes \ {429})
      BY <3>3
    <3>4. (\E a \in Responses[r] : Inform(r, a.coded, a.text))
            \/ Write(r) \/ SiteReturns(r) \/ SitePanics(r) => UNCHANGED sent
      BY DEF Inform, Write, SiteReturns, SitePanics
    <3> QED BY <2>4, <3>1, <3>2, <3>3, <3>4 DEF Site
  <2> QED BY <2>2, <2>3, <2>4 DEF Inner
<1>3. Placed(r) /\ Placed(r)'
  BY Stages, StagesAfter
<1>4. /\ "cap" \in Handlers /\ "gzip" \in Handlers /\ "logging" \in Handlers /\ "site" \in Handlers
      /\ Stage(r) \in 0..9 /\ Stage(r)' \in 0..9
  BY <1>3 DEF Placed, Handlers
<1>5. ASSUME Forward(r), Stage(r) \in {6, 7, 8}, dir[r] = "in"
      PROVE  Stage(r)' >= 5 /\ Stage(r)' > 5 /\ dir'[r] # "idle"
  BY <1>1, <1>4, <1>5, Forwards DEF Passes
<1>6. ASSUME NEW d \in {"out", "panic"}, Move(r, d), Stage(r) >= 6
      PROVE  Stage(r)' >= 5 /\ dir'[r] # "in" /\ dir'[r] # "idle"
  <2>1. Stage(r) # 0
    BY <1>4, <1>6
  <2> QED BY <1>1, <1>4, <1>6, <2>1, Returns DEF Passes
<1>7. ASSUME Back(r), dir[r] \in {"out", "panic"}, Stage(r) >= 6
      PROVE  Stage(r)' >= 5 /\ dir'[r] # "in" /\ dir'[r] # "idle"
  BY <1>6, <1>7 DEF Back
<1>8. ASSUME UNCHANGED pos, dir'[r] # "idle", Stage(r) >= 6
      PROVE  Stage(r)' >= 5 /\ (dir'[r] = "in" => Stage(r)' > 5) /\ dir'[r] # "idle"
  BY <1>1, <1>4, <1>8, StageMoves
<1>9. \A name \in {"cap", "gzip", "logging", "site"} : \A d :
        Reached(r, d, name) => dir[r] \in d /\ Stage(r) = Rank(name)
  BY <1>3, <1>4 DEF Placed
<1>10. /\ In(r, "cap") \/ Leaving(r, "cap") => Stage(r) = 6
       /\ In(r, "gzip") \/ Leaving(r, "gzip") => Stage(r) = 7
       /\ In(r, "logging") \/ Out(r, "logging") \/ Reached(r, {"panic"}, "logging") => Stage(r) = 8
       /\ In(r, "site") => Stage(r) = 9
       /\ \A name \in {"cap", "gzip", "logging", "site"} :
            (In(r, name) => dir[r] = "in") /\ (Leaving(r, name) => dir[r] \in {"out", "panic"})
       /\ dir[r] \in {"fill", "log"} => Stage(r) = 8
  BY <1>3, <1>9, Ranks DEF In, Out, Leaving, Placed
<1>11. Stage(r) >= 6 /\ Stage(r)' >= 5 /\ (dir'[r] = "in" => Stage(r)' > 5) /\ dir'[r] # "idle"
  <2>1. CASE Cap(r)
    BY <1>5, <1>6, <1>7, <1>10, <2>1 DEF Cap, Acquire, Saturated, Release, Refuse
  <2>2. CASE Wrapper(r)
    BY <1>5, <1>7, <1>10, <2>2 DEF Wrapper, WrapGzip, CloseGzip, WrapLogging
  <2>3. CASE Site(r)
    <3>1. CASE Hijack(r) \/ SiteReturns(r) \/ SitePanics(r)
      <4>1. In(r, "site") /\ \E d \in {"out", "panic"} : Move(r, d)
        BY <3>1 DEF Hijack, SiteReturns, SitePanics
      <4> QED BY <1>6, <1>10, <4>1
    <3>2. ASSUME NEW a \in Responses[r],
                 WriteHeader(r, a.code, a.coded, a.text) \/ Inform(r, a.coded, a.text)
          PROVE  Stage(r) >= 6 /\ Stage(r)' >= 5 /\ (dir'[r] = "in" => Stage(r)' > 5) /\ dir'[r] # "idle"
      <4>1. UNCHANGED <<dir, pos>> /\ In(r, "site")
        BY <3>2 DEF WriteHeader, Inform
      <4> QED BY <1>8, <1>10, <4>1
    <3>3. CASE Write(r)
      <4>1. UNCHANGED <<dir, pos>> /\ In(r, "site")
        BY <3>3 DEF Write
      <4> QED BY <1>8, <1>10, <4>1
    <3> QED BY <1>10, <2>3, <3>1, <3>2, <3>3 DEF Site
  <2>4. CASE Logging(r)
    <3>1. CASE LogGet(r) \/ LogFill(r)
      <4>1. UNCHANGED pos /\ dir'[r] # "idle" /\ Stage(r) >= 6
        BY <1>10, <3>1 DEF LogGet, LogFill, Point, Where, Out, Reached
      <4> QED BY <1>8, <4>1
    <3>2. CASE LogSend(r)
      BY <1>6, <1>10, <3>2 DEF LogSend
    <3>3. CASE SkipLogging(r)
      <4>1. dir[r] = "panic"
        BY <3>3 DEF SkipLogging, Reached
      <4> QED BY <1>7, <1>10, <3>3, <4>1 DEF SkipLogging
    <3> QED BY <2>4, <3>1, <3>2, <3>3 DEF Logging
  <2> QED BY <2>1, <2>2, <2>3, <2>4 DEF Inner
<1> QED BY <1>1, <1>2, <1>11 DEF Within

\* What one step of a request does to it, seen by the stage, on the edge and in
\* the plugins.
LEMMA EdgeKept ==
  ASSUME Typed, Where, Where', NEW r \in Requests, Step(r), EdgeInv(r)
  PROVE  EdgeInv(r)'
<1> USE DEF plugs, reply, wire
<1>0. /\ conf' = conf /\ Typed' /\ Placed(r) /\ Placed(r)' /\ Stage(r) \in 0..9 /\ Stage(r)' \in 0..9
      /\ dir \in [Requests -> {"idle", "in", "out", "panic", "fill", "log"} \cup Ended]
      /\ pos \in [Requests -> Nat]
  BY StepTypes, Stages, StagesAfter DEF Aside, Placed, Where
<1>1. \A name \in EdgeNames \cup {"plugins"} :
        /\ In(r, name) => dir[r] = "in" /\ Stage(r) = Rank(name)
        /\ Leaving(r, name) => dir[r] \in {"out", "panic"} /\ Stage(r) = Rank(name)
  BY <1>0 DEF Placed, Handlers, In, Leaving
<1>2. ASSUME NEW name \in EdgeNames, In(r, name), Pass(r),
             name = "https" => kind[r].tls, name = "ips" => kind[r].nets = {"allow"}
      PROVE  EdgeInv(r)'
  <2>1. dir[r] = "in" /\ Stage(r) = Rank(name) /\ Stage(r) \in 1..4
        /\ (name = "https" <=> Stage(r) = 1) /\ (name = "ips" <=> Stage(r) = 2)
    BY <1>1, <1>2, Ranks DEF EdgeNames
  <2>2. Passes(Stage(r), Stage(r)') /\ dir'[r] = "in"
    BY <1>0, <1>2, <2>1, Forwards DEF Pass
  <2>3. UNCHANGED <<kind, sent, asked, hooks>>
    BY <1>2 DEF Pass
  <2> QED BY <1>0, <1>2, <2>1, <2>2, <2>3 DEF EdgeInv, Passes
<1>3. ASSUME NEW name \in EdgeNames, In(r, name), NEW code \in Codes \ {0}, Refuse(r, code),
             name = "https" => code = 301, name = "ips" => code = 403, code = 429 => name = "rate"
      PROVE  EdgeInv(r)'
  <2>1. dir[r] = "in" /\ Stage(r) = Rank(name) /\ Stage(r) \in 1..4
        /\ (name = "https" <=> Stage(r) = 1) /\ (name = "ips" <=> Stage(r) = 2)
        /\ (name = "rate" <=> Stage(r) = 3)
    BY <1>1, <1>3, Ranks DEF EdgeNames
  <2>2. Passes(Stage(r)', Stage(r)) /\ dir'[r] = "out"
    BY <1>0, <1>3, <2>1, Returns DEF Refuse
  <2>3. UNCHANGED <<kind, asked, hooks>> /\ sent'[r] = IF sent[r] = 0 THEN code ELSE sent[r]
    BY <1>3, Answers DEF Refuse
  <2> QED BY <1>0, <1>3, <2>1, <2>2, <2>3 DEF EdgeInv, Passes
<1>4. CASE Arrive(r)
  <2>1. /\ dir[r] = "idle" /\ Stage(r) = 0 /\ pos[r] = 0 /\ pos'[r] = pos[r] + 1 /\ dir'[r] = "in"
        /\ UNCHANGED <<sent, asked, hooks>>
    BY <1>0, <1>4 DEF Arrive, Placed
  <2>2. Passes(Stage(r), Stage(r)')
    BY <1>0, <2>1, StageMoves, PassesIs
  <2> QED BY <1>0, <2>1, <2>2 DEF EdgeInv, Passes
<1>5. CASE Finish(r)
  <2>1. /\ pos[r] = 0 /\ Stage(r) = 0 /\ Stage(r)' = 0 /\ dir[r] \in {"out", "panic"}
        /\ dir'[r] = (IF dir[r] = "out" THEN "done" ELSE "aborted")
        /\ UNCHANGED hooks
    BY <1>0, <1>5, StageMoves DEF Finish, Placed
  <2>2. asked'[r] = 0 /\ sent'[r] = IF sent[r] = 0 /\ dir[r] = "out" THEN 200 ELSE sent[r]
    BY <1>5 DEF Finish, Typed
  <2> QED BY <1>0, <2>1, <2>2 DEF EdgeInv
<1>6. CASE Edge(r)
  <2>1. CASE ForceHTTPS(r)
    BY <1>2, <1>3, <2>1 DEF ForceHTTPS, EdgeNames, Codes
  <2>2. CASE IPFilter(r)
    <3>1. kind[r].nets \subseteq {"allow", "deny", "bad"}
      BY DEF Typed, Kind
    <3>2. CASE kind[r].nets = {"allow"}
      BY <1>2, <2>2, <3>2 DEF IPFilter, EdgeNames
    <3>3. CASE kind[r].nets # {"allow"}
      <4>1. "bad" \in kind[r].nets \/ "deny" \in kind[r].nets \/ "allow" \notin kind[r].nets
        BY <3>1, <3>3
      <4> QED BY <1>3, <2>2, <4>1 DEF IPFilter, EdgeNames, Codes
    <3> QED BY <3>2, <3>3
  <2>3. CASE RateLimit(r)
    BY <1>2, <1>3, <2>3 DEF RateLimit, EdgeNames, Codes
  <2>4. CASE CORS(r)
    BY <1>2, <1>3, <2>4 DEF CORS, EdgeNames, Codes
  <2>5. CASE LeaveEdge(r)
    <3>1. dir[r] \in {"out", "panic"} /\ Stage(r) \in 1..4
      BY <1>1, <2>5, Ranks DEF LeaveEdge, EdgeNames
    <3>2. Stage(r)' = 0 /\ UNCHANGED <<dir, kind, sent, asked, hooks>>
      BY <1>0, <2>5, StageMoves DEF LeaveEdge
    <3> QED BY <1>0, <3>1, <3>2 DEF EdgeInv
  <2> QED BY <1>6, <2>1, <2>2, <2>3, <2>4, <2>5 DEF Edge
<1>7. CASE PluginStep(r)
  <2>1. (In(r, "plugins") => dir[r] = "in" /\ Stage(r) = 5)
        /\ (Leaving(r, "plugins") => dir[r] \in {"out", "panic"} /\ Stage(r) = 5)
    BY <1>1, Ranks
  <2>2. CASE PluginHandles(r) \/ PluginAborts(r)
    <3>1. Stage(r) = 5 /\ Stage(r)' = 5 /\ dir[r] = "in" /\ dir'[r] \in {"out", "panic"} /\ UNCHANGED kind
      BY <1>0, <2>1, <2>2, StageMoves DEF PluginHandles, PluginAborts, RunPlugins
    <3>2. 200 \in Codes /\ 101 \in Codes /\ (Answer(r, 200) \/ Answer(r, 101))
      BY <2>2 DEF PluginHandles, PluginAborts, Codes
    <3>3. sent'[r] \in {sent[r], 101, 200}
      BY <3>2, Answers
    <3> QED BY <1>0, <3>1, <3>3 DEF EdgeInv
  <2>3. CASE PluginsPass(r) \/ PluginSpoils(r)
    <3>1. Stage(r) = 5 /\ dir[r] = "in" /\ Forward(r) /\ UNCHANGED kind
      BY <2>1, <2>3 DEF PluginsPass, PluginSpoils, RunPlugins
    <3>2. Passes(Stage(r), Stage(r)') /\ dir'[r] = "in"
      BY <1>0, <3>1, Forwards
    <3>3. 500 \in Codes /\ (UNCHANGED sent \/ Answer(r, 500))
      BY <2>3 DEF PluginsPass, PluginSpoils, Codes
    <3>4. sent'[r] \in {sent[r], 500}
      BY <3>3, Answers
    <3> QED BY <1>0, <3>1, <3>2, <3>4 DEF EdgeInv, Passes
  <2>4. CASE LeavePlugins(r)
    <3>1. /\ dir[r] \in {"out", "panic"} /\ Stage(r) = 5 /\ Move(r, dir[r])
          /\ UNCHANGED <<kind, asked, sent>>
          /\ hooks' = IF dir[r] = "out" THEN [hooks EXCEPT ![r] = 0] ELSE hooks
      BY <2>1, <2>4 DEF LeavePlugins, Back
    <3>2. Passes(Stage(r)', Stage(r)) /\ dir'[r] = dir[r]
      BY <1>0, <3>1, Returns
    <3>3. hooks'[r] = IF dir[r] = "out" THEN 0 ELSE hooks[r]
      BY <3>1 DEF Typed
    <3> QED BY <1>0, <3>1, <3>2, <3>3 DEF EdgeInv, Passes
  <2> QED BY <1>7, <2>2, <2>3, <2>4 DEF PluginStep
<1>8. CASE Inner(r)
  BY <1>0, <1>8, InnerWithin, EdgeWithin
<1> QED BY <1>4, <1>5, <1>6, <1>7, <1>8 DEF Step, Inner

\* Together with the places, the types and the tokens it is inductive.
PipeInv == CapInv /\ Typed /\ permits <= conf.max /\ \A r \in Requests : EdgeInv(r)

\* It holds of the first states.
LEMMA PipeInit == Init => PipeInv
<1> SUFFICES ASSUME Init PROVE PipeInv
  OBVIOUS
<1>1. CapInv
  BY CapInit
<1>2. Typed
  <2>1. ASSUME NEW r \in Requests
        PROVE  (CHOOSE k \in Kinds[r] : TRUE) \in Kinds[r] /\ (CHOOSE k \in Kinds[r] : TRUE) \in Kind
    <3>1. PICK k \in Kinds[r] : TRUE
      BY PipelineAssumption
    <3> QED BY <3>1, PipelineAssumption
  <2>2. kind \in [Requests -> Kind] /\ \A r \in Requests : kind[r] \in Kinds[r]
    BY <2>1 DEF Init
  <2>3. Plugins \in Nat
    BY PipelineAssumption
  <2> QED BY <2>2, <2>3 DEF Init, Typed, Writers, Unwrapped, Codes
<1>3. permits <= conf.max
  BY PipelineAssumption DEF Init, Config
<1>4. ASSUME NEW r \in Requests PROVE EdgeInv(r)
  <2>1. Stage(r) = 0
    BY DEF Init, Stage, RankAt
  <2> QED BY <2>1 DEF Init, EdgeInv
<1> QED BY <1>1, <1>2, <1>3, <1>4 DEF PipeInv

\* No step takes a token beyond the cap.
LEMMA PermitsKept ==
  ASSUME CapInv, permits <= conf.max, [Next]_vars
  PROVE  permits' <= conf'.max
<1> USE DEF plugs, reply, wire
<1>0. permits \in Nat /\ conf.max \in Nat
  <2>1. permits = Cardinality(Admitted) /\ IsFiniteSet(Admitted)
    BY LogAssumption, FS_Subset DEF CapInv, Admitted
  <2>2. conf \in Config
    BY PipelineAssumption DEF CapInv, Where
  <2>3. conf.max \in Nat
    BY <2>2 DEF Config
  <2> QED BY <2>1, <2>3, FS_CardinalityType
<1>1. CASE \E r \in Requests : Acquire(r)
  BY <1>0, <1>1 DEF Acquire
<1>2. CASE \E r \in Requests : Release(r)
  BY <1>0, <1>2 DEF Release
<1>3. ASSUME NEW r \in Requests, Outside(r) \/ Other(r) \/ Saturated(r) PROVE UNCHANGED <<conf, permits>>
  BY <1>3, OutsideKeeps, OtherMoves DEF CapInv, Saturated, Refuse
<1>4. CASE WorkerStep \/ UNCHANGED vars
  BY <1>4 DEF WorkerStep, vars
<1> QED BY <1>1, <1>2, <1>3, <1>4 DEF Next, Outside, Other, Edge, Cap

\* Every step keeps it.
LEMMA PipeKept == ASSUME PipeInv, [Next]_vars PROVE PipeInv'
<1>1. CapInv' /\ permits' <= conf'.max
  BY CapKept, PermitsKept DEF PipeInv
<1>2. Where /\ Where'
  BY <1>1 DEF PipeInv, CapInv
<1>3. ASSUME NEW r \in Requests, Step(r) PROVE Typed' /\ \A s \in Requests : EdgeInv(s)'
  <2>1. Typed' /\ conf' = conf /\ \A s \in Requests \ {r} : Same(s)
    BY <1>2, <1>3, StepTypes DEF PipeInv, Aside
  <2>2. EdgeInv(r)'
    BY <1>2, <1>3, EdgeKept DEF PipeInv
  <2>3. ASSUME NEW s \in Requests \ {r} PROVE EdgeInv(s)'
    BY <1>2, <2>1, EdgeAside DEF PipeInv
  <2> QED BY <2>1, <2>2, <2>3
<1>4. CASE Unmoved
  <2>1. ASSUME NEW s \in Requests PROVE EdgeInv(s)'
    BY <1>2, <1>4, NextIs, EdgeAside DEF PipeInv
  <2>2. Typed'
    BY <1>4 DEF PipeInv, Typed, Unmoved, plugs, reply, wire
  <2> QED BY <1>1, <2>1, <2>2 DEF PipeInv
<1> QED BY <1>1, <1>3, <1>4, NextIs DEF PipeInv

\* Every reachable state is well typed, for any requests, configurations and
\* number of plugins; the tokens never exceed the cap.
THEOREM PipelineTypeCorrect == Spec => []TypeOK
<1>1. PipeInv /\ LogTypeOK => TypeOK
  <2> SUFFICES ASSUME PipeInv, LogTypeOK PROVE TypeOK
    OBVIOUS
  <2>1. permits \in 0..conf.max
    <3>1. IsFiniteSet(Admitted) /\ permits = Cardinality(Admitted)
      BY LogAssumption, FS_Subset DEF PipeInv, CapInv, Admitted
    <3>2. conf \in Config
      BY PipelineAssumption DEF PipeInv, CapInv, Where
    <3>3. conf.max \in Nat
      BY <3>2 DEF Config
    <3> QED BY <3>1, <3>3, FS_CardinalityType DEF PipeInv
  <2>2. \A r \in Requests : pos[r] \in 0..Len(Chain(conf))
    <3>1. Len(Chain(conf)) \in Nat
      BY ChainShape, PipelineAssumption DEF PipeInv, CapInv, Where
    <3> QED BY <3>1 DEF PipeInv, CapInv, Where
  <2> QED BY <2>1, <2>2 DEF TypeOK, PipeInv, CapInv, Where, Typed, Writers
<1>2. LogSafety => []LogTypeOK
  <2>1. LogInit => LogTypeOK
    BY LogInitTypes
  <2>2. LogTypeOK /\ [LogNext]_logVars => LogTypeOK'
    BY LogTypes
  <2> QED BY <2>1, <2>2, PTL DEF LogSafety
<1>3. Init => PipeInv
  BY PipeInit
<1>4. PipeInv /\ [Next]_vars => PipeInv'
  BY PipeKept
<1> QED BY <1>1, <1>2, <1>3, <1>4, PipelineUsesLog, PTL DEF Spec

\* A plugin sees all of a request or nothing (handler.go:83-105,
\* plugin.go:162-196): whatever is configured, and whichever handlers answer or
\* panic, a request the edge refuses reaches no plugin and takes no token, and
\* AfterRequest follows BeforeRequest unless the handler panics.
THEOREM PluginsAllOrNothing == Spec => []PluginsSeeAllOrNothing
<1>1. PipeInv => PluginsSeeAllOrNothing
  <2> SUFFICES ASSUME PipeInv, NEW r \in Requests
               PROVE  /\ RefusedByEdge(r) => asked[r] = 0 /\ ~Inside(r) /\ sent[r] \in {0, 301, 403, 429}
                      /\ dir[r] = "done" => hooks[r] = 0
    BY DEF PluginsSeeAllOrNothing
  <2>1. Placed(r) /\ EdgeInv(r) /\ Stage(r) \in 0..9 /\ pos[r] \in Nat /\ conf \in Config
    BY Stages, PipelineAssumption DEF PipeInv, CapInv, Placed, Where
  <2>2. Stage(r) <= 2 => ~Inside(r)
    <3> SUFFICES ASSUME Inside(r) PROVE Stage(r) >= 6
      BY <2>1
    <3> DEFINE ch == Chain(conf)
    <3>1. PICK i \in 1..Len(ch) : ch[i] = "cap" /\ (i < pos[r] \/ i = pos[r])
      BY DEF Inside
    <3>2. InOrder(ch, Present(conf)) /\ pos[r] <= Len(ch) /\ Len(ch) \in Nat
      BY <2>1, ChainOrder, ChainShape DEF PipeInv, CapInv, Where
    <3>3. Stage(r) = Rank(ch[pos[r]])
      BY <2>1, <3>1 DEF Stage, RankAt
    <3>4. CASE i = pos[r]
      BY <3>1, <3>3, <3>4, Ranks
    <3>5. CASE i < pos[r]
      <4> HIDE DEF ch
      <4>1. pos[r] \in 1..Len(ch)
        BY <2>1, <3>1, <3>2, <3>5
      <4>2. Rank(ch[i]) < Rank(ch[pos[r]])
        BY <3>2, <3>5, <4>1 DEF InOrder
      <4> QED BY <2>1, <3>1, <3>3, <4>2, Ranks
    <3> QED BY <3>1, <3>4, <3>5
  <2>3. dir[r] = "done" => Stage(r) = 0
    BY <2>1 DEF Placed, Ended
  <2>4. pos[r] > 0 => Stage(r) > 0
    BY <2>1 DEF Placed
  <2> QED BY <2>1, <2>2, <2>3, <2>4 DEF RefusedByEdge, EdgeInv
<1>2. Init => PipeInv
  BY PipeInit
<1>3. PipeInv /\ [Next]_vars => PipeInv'
  BY PipeKept
<1> QED BY <1>1, <1>2, <1>3, PTL DEF Spec

----------------------------------------------------------------------------
(* What is sent, what it announces and what is logged of it *)

\* Until the site's handler sends its header nothing is sent or written, and the
\* compressor has not decided but for what was said in between; from then on
\* everything written is in the encoding announced, or all of it is compressed
\* because the compressor was misled.
BodyInv(r) ==
  /\ dir[r] \in {"idle", "in"} /\ site[r] \in {"new", "informed"} => sent[r] = 0 /\ body[r] = {}
  /\ gzip[r].compress => gzip[r].checked
  /\ site[r] = "new" => body[r] = {} /\ ~gzip[r].checked
  /\ site[r] = "informed" /\ gzip[r].checked => gzip[r].status = 103
  /\ site[r] \in {"none", "own"} =>
       Misled(r) \/ coding[r] = IF gzip[r].compress THEN "gzip" ELSE site[r]
  /\ body[r] \subseteq {IF Misled(r) THEN "gzip" ELSE coding[r]}

\* The status s says what was sent to r, and will whatever follows.
AsSent(s, r) ==
  \/ sent[r] # 0 /\ s = sent[r]
  \/ sent[r] = 101 /\ s \in {103, 200}
  \/ conf.serves = "balancer" /\ s = 103 /\ sent[r] \in {0, 200}

\* The status that the logging middleware keeps follows what is sent.
StatusInv(r) ==
  /\ dir[r] \in {"idle", "in"} /\ Stage(r) < 9 => site[r] = "new"
  /\ conf.logging /\ dir[r] = "in" /\ Stage(r) = 9 =>
       (site[r] = "new" => status[r] = 200) /\ (site[r] = "informed" => status[r] = 103)
  /\ conf.logging /\ ~spoilt[r] /\ dir[r] = "in" /\ site[r] \in {"none", "own"} =>
       sent[r] = status[r] /\ sent[r] \in {200, 304, 502}
  /\ ~spoilt[r] /\ Stage(r) = 8 /\ dir[r] \in {"out", "fill", "log"} => AsSent(status[r], r)

ReplyInv(r) == (spoilt[r] \/ BodyInv(r)) /\ StatusInv(r)

\* A step of another request does not matter.
LEMMA ReplyAside ==
  ASSUME Where, NEW r \in Requests, conf' = conf, Same(r), ReplyInv(r)
  PROVE  ReplyInv(r)'
<1>1. Stage(r)' = Stage(r)
  BY StageMoves DEF Same
<1> QED BY <1>1 DEF ReplyInv, BodyInv, Misled, StatusInv, AsSent, Same

\* On the way in to the logging middleware nothing happens to the reply, unless
\* a plugin spoils it.
Inward(r) ==
  /\ dir[r] \in {"idle", "in"} /\ dir'[r] = "in" /\ Stage(r) <= 7 /\ Passes(Stage(r), Stage(r)')
  /\ UNCHANGED <<site[r], coding[r], body[r], gzip[r].checked, gzip[r].compress, gzip[r].status>>
  /\ spoilt[r] => spoilt'[r]
  /\ sent'[r] = sent[r] \/ spoilt'[r]

\* Such a step keeps the invariant of the reply.
LEMMA InwardKeeps ==
  ASSUME conf' = conf, NEW r \in Requests, Inward(r), ReplyInv(r)
  PROVE  ReplyInv(r)'
<1>1. Stage(r) \in 0..9 /\ Stage(r)' \in 0..9 /\ Stage(r) < 9 /\ site[r] = "new"
  BY DEF Inward, Passes, ReplyInv, StatusInv
<1> QED BY <1>1 DEF Inward, Passes, ReplyInv, BodyInv, Misled, StatusInv

\* On the way out, but where the line is written, the compressor's end may
\* follow what was written.
Outward(r) ==
  /\ dir'[r] \in {"out", "panic"} /\ (Stage(r)' = 8 => dir'[r] = "panic")
  /\ UNCHANGED <<site[r], coding[r], gzip[r], spoilt[r]>>
  /\ body'[r] = body[r] \/ (gzip[r].compress /\ body'[r] = body[r] \cup {"gzip"})

\* So does such a step.
LEMMA OutwardKeeps ==
  ASSUME Typed, NEW r \in Requests, conf' = conf, Outward(r), ReplyInv(r)
  PROVE  ReplyInv(r)'
<1>1. site[r] \in {"new", "informed", "none", "own"}
  BY DEF Typed
<1>2. StatusInv(r)'
  BY DEF Outward, StatusInv
<1>3. BodyInv(r) => BodyInv(r)'
  BY <1>1 DEF Outward, BodyInv, Misled
<1> QED BY <1>2, <1>3 DEF ReplyInv, Outward

\* Where a request is when a handler runs for it.
LEMMA Reaches ==
  ASSUME Where, NEW r \in Requests
  PROVE  \A name \in Handlers :
           /\ In(r, name) => dir[r] = "in" /\ Stage(r) = Rank(name)
           /\ Out(r, name) => dir[r] = "out" /\ Stage(r) = Rank(name)
           /\ Leaving(r, name) => dir[r] \in {"out", "panic"} /\ Stage(r) = Rank(name)
           /\ Reached(r, {"panic"}, name) => dir[r] = "panic" /\ Stage(r) = Rank(name)
  BY Stages DEF Placed, In, Out, Leaving

\* The steps on the way in are inward ones.
LEMMA Inwards ==
  ASSUME Typed, Where, Where', NEW r \in Requests,
         \/ Arrive(r) \/ PluginsPass(r) \/ PluginSpoils(r) \/ Acquire(r) \/ WrapGzip(r)
         \/ Pass(r) /\ \E name \in EdgeNames : In(r, name)
  PROVE  Inward(r) /\ conf' = conf
<1> USE DEF plugs, reply, wire
<1>0. /\ Placed(r) /\ Stage(r) \in 0..9 /\ Stage(r)' \in 0..9
      /\ \A name \in EdgeNames \cup {"plugins", "cap", "gzip"} : name \in Handlers /\ Rank(name) \in 1..7
  BY Stages, StagesAfter, Ranks DEF Placed, Handlers, EdgeNames
<1>1. conf' = conf
  BY DEF Arrive, PluginsPass, PluginSpoils, Acquire, WrapGzip, Pass
<1>2. ASSUME NEW name \in EdgeNames \cup {"plugins", "cap", "gzip"}, In(r, name), Forward(r)
      PROVE  dir[r] = "in" /\ dir'[r] = "in" /\ Stage(r) <= 7 /\ Passes(Stage(r), Stage(r)')
  <2>1. name \in Handlers /\ dir[r] = "in" /\ Stage(r) = Rank(name) /\ Stage(r) # 9 /\ Stage(r) <= 7
    BY <1>0, <1>2, Reaches
  <2> QED BY <1>1, <1>2, <2>1, Forwards
<1>3. CASE Arrive(r)
  <2>1. dir[r] = "idle" /\ Stage(r) = 0 /\ pos[r] = 0 /\ pos'[r] = pos[r] + 1 /\ dir'[r] = "in"
    BY <1>0, <1>3 DEF Arrive, Placed, Where
  <2>2. Passes(Stage(r), Stage(r)')
    BY <1>0, <1>1, <2>1, StageMoves, PassesIs
  <2>3. UNCHANGED <<site, coding, body, gzip, spoilt, sent>>
    BY <1>3 DEF Arrive
  <2> QED BY <1>0, <1>1, <2>1, <2>2, <2>3 DEF Inward
<1>4. ASSUME NEW name \in EdgeNames, In(r, name), Pass(r) PROVE Inward(r)
  <2>1. Forward(r) /\ UNCHANGED <<site, coding, body, gzip, spoilt, sent>>
    BY <1>4 DEF Pass
  <2>2. dir[r] = "in" /\ dir'[r] = "in" /\ Stage(r) <= 7 /\ Passes(Stage(r), Stage(r)')
    BY <1>2, <1>4, <2>1
  <2> QED BY <1>1, <2>1, <2>2 DEF Inward
<1>5. CASE PluginsPass(r) \/ PluginSpoils(r)
  <2>1. In(r, "plugins") /\ Forward(r) /\ UNCHANGED <<site, coding, body, gzip>>
    BY <1>5 DEF PluginsPass, PluginSpoils, RunPlugins
  <2>2. (UNCHANGED <<spoilt, sent>>) \/ spoilt'[r] = TRUE
    BY <1>5 DEF PluginsPass, PluginSpoils, Typed
  <2>3. dir[r] = "in" /\ dir'[r] = "in" /\ Stage(r) <= 7 /\ Passes(Stage(r), Stage(r)')
    BY <1>2, <2>1
  <2> QED BY <1>1, <2>1, <2>2, <2>3 DEF Inward
<1>6. CASE Acquire(r)
  <2>1. In(r, "cap") /\ Forward(r) /\ UNCHANGED <<site, coding, body, gzip, spoilt, sent>>
    BY <1>6 DEF Acquire
  <2>2. dir[r] = "in" /\ dir'[r] = "in" /\ Stage(r) <= 7 /\ Passes(Stage(r), Stage(r)')
    BY <1>2, <2>1
  <2> QED BY <1>1, <2>1, <2>2 DEF Inward
<1>7. CASE WrapGzip(r)
  <2>1. In(r, "gzip") /\ Forward(r) /\ UNCHANGED <<site, coding, body, spoilt, sent>>
    BY <1>7 DEF WrapGzip
  <2>2. UNCHANGED <<gzip[r].checked, gzip[r].compress, gzip[r].status>>
    BY <1>7 DEF WrapGzip, Typed, Writers
  <2>3. dir[r] = "in" /\ dir'[r] = "in" /\ Stage(r) <= 7 /\ Passes(Stage(r), Stage(r)')
    BY <1>2, <2>1
  <2> QED BY <1>1, <2>1, <2>2, <2>3 DEF Inward
<1> QED BY <1>1, <1>3, <1>4, <1>5, <1>6, <1>7

\* The steps on the way out are outward ones, but for the site's handler that
\* returns to the logging middleware, and for what that does.
LEMMA Outwards ==
  ASSUME Typed, Where, Where', NEW r \in Requests,
         \/ LeaveEdge(r) \/ PluginHandles(r) \/ PluginAborts(r) \/ LeavePlugins(r)
         \/ Release(r) \/ CloseGzip(r) \/ SitePanics(r) \/ LogSend(r) \/ SkipLogging(r)
         \/ \E name \in EdgeNames \cup {"cap"}, code \in Codes : In(r, name) /\ Refuse(r, code)
  PROVE  Outward(r) /\ conf' = conf
<1> USE DEF plugs, reply, wire
<1>0. /\ Placed(r) /\ Stage(r) \in 0..9 /\ Stage(r)' \in 0..9
      /\ \A name \in EdgeNames \cup {"plugins", "cap", "gzip", "logging"} :
           name \in Handlers /\ Rank(name) \in 1..8
      /\ "site" \in Handlers /\ Rank("site") = 9 /\ Rank("logging") = 8 /\ Rank("plugins") = 5
  BY Stages, StagesAfter, Ranks DEF Placed, Handlers, EdgeNames
<1>1. conf' = conf
  BY DEF LeaveEdge, PluginHandles, PluginAborts, LeavePlugins, Release, CloseGzip, SitePanics,
         LogSend, SkipLogging, Refuse
<1>2. ASSUME NEW d \in {"out", "panic"}, Move(r, d), Stage(r) \in 1..8
      PROVE  dir'[r] \in {"out", "panic"} /\ Stage(r)' # 8
  <2>1. Stage(r) # 0
    BY <1>2
  <2>2. Passes(Stage(r)', Stage(r)) /\ dir'[r] = d
    BY <1>1, <1>2, <2>1, Returns
  <2> QED BY <1>0, <1>2, <2>2 DEF Passes
<1>3. ASSUME NEW name \in EdgeNames \cup {"plugins", "cap", "gzip", "logging"}, Leaving(r, name), Back(r)
      PROVE  dir'[r] \in {"out", "panic"} /\ Stage(r)' # 8
  <2>1. dir[r] \in {"out", "panic"} /\ Stage(r) \in 1..8
    BY <1>0, <1>3, Reaches
  <2> QED BY <1>2, <1>3, <2>1 DEF Back
<1>4. CASE LeaveEdge(r)
  <2>1. dir[r] \in {"out", "panic"}
    BY <1>0, <1>4, Reaches DEF LeaveEdge, EdgeNames
  <2>2. Stage(r)' = 0 /\ UNCHANGED <<dir, site, coding, gzip, spoilt, body>>
    BY <1>1, <1>4, StageMoves DEF LeaveEdge, Where
  <2> QED BY <1>1, <2>1, <2>2 DEF Outward
<1>5. CASE PluginHandles(r) \/ PluginAborts(r)
  <2>1. /\ Stage(r) = 5 /\ dir'[r] \in {"out", "panic"}
        /\ UNCHANGED <<pos, site, coding, gzip, spoilt, body>>
    BY <1>0, <1>5, Reaches DEF PluginHandles, PluginAborts, RunPlugins, Where
  <2>2. Stage(r)' = 5
    BY <1>1, <2>1, StageMoves
  <2> QED BY <1>1, <2>1, <2>2 DEF Outward
<1>6. CASE LeavePlugins(r)
  <2>1. Leaving(r, "plugins") /\ Back(r) /\ UNCHANGED <<site, coding, gzip, spoilt, body>>
    BY <1>6 DEF LeavePlugins
  <2>2. dir'[r] \in {"out", "panic"} /\ Stage(r)' # 8
    BY <1>3, <2>1
  <2> QED BY <1>1, <2>1, <2>2 DEF Outward
<1>7. CASE Release(r)
  <2>1. Leaving(r, "cap") /\ Back(r) /\ UNCHANGED <<site, coding, gzip, spoilt, body>>
    BY <1>7 DEF Release
  <2>2. dir'[r] \in {"out", "panic"} /\ Stage(r)' # 8
    BY <1>3, <2>1
  <2> QED BY <1>1, <2>1, <2>2 DEF Outward
<1>8. CASE CloseGzip(r)
  <2>1. Leaving(r, "gzip") /\ Back(r) /\ UNCHANGED <<site, coding, gzip, spoilt>>
        /\ \/ gzip[r].compress /\ body' = [body EXCEPT ![r] = @ \cup {"gzip"}]
           \/ body' = body
    BY <1>8 DEF CloseGzip
  <2>2. body'[r] = body[r] \/ (gzip[r].compress /\ body'[r] = body[r] \cup {"gzip"})
    BY <2>1 DEF Typed
  <2>3. dir'[r] \in {"out", "panic"} /\ Stage(r)' # 8
    BY <1>3, <2>1
  <2> QED BY <1>1, <2>1, <2>2, <2>3 DEF Outward
<1>9. CASE SitePanics(r)
  <2>1. Move(r, "panic") /\ UNCHANGED <<site, coding, gzip, spoilt, body>>
    BY <1>9 DEF SitePanics
  <2>2. dir'[r] = "panic"
    BY <2>1 DEF Move, Where
  <2> QED BY <1>1, <2>1, <2>2 DEF Outward
<1>10. CASE LogSend(r)
  <2>1. dir[r] = "log" /\ Move(r, "out") /\ UNCHANGED <<site, coding, gzip, spoilt, body>>
    BY <1>10 DEF LogSend
  <2>2. Stage(r) = 8
    BY <1>0, <2>1 DEF Placed
  <2>3. dir'[r] \in {"out", "panic"} /\ Stage(r)' # 8
    BY <1>2, <2>1, <2>2
  <2> QED BY <1>1, <2>1, <2>3 DEF Outward
<1>11. CASE SkipLogging(r)
  <2>1. Leaving(r, "logging") /\ Back(r) /\ UNCHANGED <<site, coding, gzip, spoilt, body>>
    BY <1>11 DEF SkipLogging, Leaving, Reached
  <2>2. dir'[r] \in {"out", "panic"} /\ Stage(r)' # 8
    BY <1>3, <2>1
  <2> QED BY <1>1, <2>1, <2>2 DEF Outward
<1>12. ASSUME NEW name \in EdgeNames \cup {"cap"}, NEW code \in Codes, In(r, name), Refuse(r, code)
       PROVE  Outward(r)
  <2>1. Stage(r) \in 1..8
    BY <1>0, <1>12, Reaches
  <2>2. Move(r, "out") /\ UNCHANGED <<site, coding, gzip, spoilt, body>>
    BY <1>12 DEF Refuse
  <2>3. dir'[r] \in {"out", "panic"} /\ Stage(r)' # 8
    BY <1>2, <2>1, <2>2
  <2> QED BY <2>2, <2>3 DEF Outward
<1> QED BY <1>1, <1>4, <1>5, <1>6, <1>7, <1>8, <1>9, <1>10, <1>11, <1>12

\* A step of a request keeps what holds of its reply.
LEMMA ReplyKept ==
  ASSUME Typed, Where, Where', NEW r \in Requests, Step(r), ReplyInv(r)
  PROVE  ReplyInv(r)'
<1> USE DEF plugs, reply, wire
<1>0. /\ conf' = conf /\ Placed(r) /\ Placed(r)' /\ Stage(r) \in 0..9 /\ Stage(r)' \in 0..9
      /\ dir \in [Requests -> {"idle", "in", "out", "panic", "fill", "log"} \cup Ended]
  BY StepTypes, Stages, StagesAfter DEF Aside, Placed, Where
<1>1. /\ In(r, "site") => dir[r] = "in" /\ Stage(r) = 9
      /\ In(r, "logging") => dir[r] = "in" /\ Stage(r) = 8
      /\ Out(r, "logging") => dir[r] = "out" /\ Stage(r) = 8
  BY Reaches, Ranks DEF Handlers
<1>2. CASE \/ Arrive(r) \/ PluginsPass(r) \/ PluginSpoils(r) \/ Acquire(r) \/ WrapGzip(r)
           \/ Pass(r) /\ \E name \in EdgeNames : In(r, name)
  BY <1>2, Inwards, InwardKeeps
<1>3. CASE \/ LeaveEdge(r) \/ PluginHandles(r) \/ PluginAborts(r) \/ LeavePlugins(r)
           \/ Release(r) \/ CloseGzip(r) \/ SitePanics(r) \/ LogSend(r) \/ SkipLogging(r)
           \/ \E name \in EdgeNames \cup {"cap"}, code \in Codes : In(r, name) /\ Refuse(r, code)
  BY <1>3, Outwards, OutwardKeeps
<1>4. CASE Finish(r)
  <2>1. /\ dir'[r] \in {"done", "aborted"} /\ site'[r] = "new" /\ body'[r] = {}
        /\ gzip'[r] = Unwrapped
    BY <1>0, <1>4 DEF Finish, Typed
  <2> QED BY <2>1 DEF ReplyInv, BodyInv, Misled, StatusInv, Unwrapped
<1>5. CASE WrapLogging(r)
  <2>1. dir[r] = "in" /\ Stage(r) = 8 /\ Forward(r) /\ UNCHANGED <<site, gzip, spoilt, sent, coding, body>>
    BY <1>1, <1>5 DEF WrapLogging
  <2>2. status'[r] = 200
    BY <1>5 DEF WrapLogging, Typed
  <2>3. dir'[r] = "in" /\ Stage(r)' = 9
    BY <1>0, <2>1, Forwards DEF Passes
  <2> QED BY <2>1, <2>2, <2>3 DEF ReplyInv, BodyInv, Misled, StatusInv
<1>6. ASSUME UNCHANGED <<dir, pos>> PROVE Stage(r)' = Stage(r)
  BY <1>0, <1>6, StageMoves
<1>7. ASSUME NEW a \in Responses[r], Inform(r, a.coded, a.text) PROVE ReplyInv(r)'
  <2>1. /\ dir[r] = "in" /\ Stage(r) = 9 /\ Stage(r)' = 9 /\ dir'[r] = "in"
        /\ site[r] \in {"new", "informed"} /\ UNCHANGED <<spoilt, sent, coding, body>>
    BY <1>1, <1>6, <1>7 DEF Inform
  <2>2. /\ site'[r] = "informed" /\ gzip'[r] = Check(gzip[r], r, 103, a.coded, a.text)
        /\ conf.logging => status'[r] = 103
    BY <1>7 DEF Inform, SetStatus, Typed
  <2>3. gzip[r] \in Writers /\ kind[r].range \in BOOLEAN /\ a.text \in BOOLEAN
    <3>1. gzip[r] \in Writers /\ kind[r].range \in BOOLEAN
      BY DEF Typed, Kind, Flags
    <3>2. a.text \in BOOLEAN
      BY Zenon, ResponseType
    <3> QED BY Zenon, <3>1, <3>2
  <2>4. \/ gzip'[r] = gzip[r]
        \/ gzip'[r].checked /\ gzip'[r].status = 103
    BY <2>2, <2>3 DEF Check, Writers
  <2>5. BodyInv(r) => BodyInv(r)'
    BY <2>1, <2>2, <2>4 DEF BodyInv, Misled
  <2>6. StatusInv(r)'
    BY <1>0, <2>1, <2>2 DEF StatusInv
  <2> QED BY <2>1, <2>5, <2>6 DEF ReplyInv
<1>8. ASSUME NEW a \in Responses[r], WriteHeader(r, a.code, a.coded, a.text) PROVE ReplyInv(r)'
  <2>1. /\ dir[r] = "in" /\ Stage(r) = 9 /\ Stage(r)' = 9 /\ dir'[r] = "in"
        /\ site[r] \in {"new", "informed"} /\ UNCHANGED <<spoilt, body>>
    BY <1>1, <1>6, <1>8 DEF WriteHeader
  <2>2. a.code \in {200, 304, 502} /\ a.coded \in {"none", "own"} /\ a.code \in Codes
    BY ResponseType
  <2>3. /\ site'[r] = a.coded /\ gzip'[r] = Check(gzip[r], r, a.code, a.coded, a.text)
        /\ conf.logging => status'[r] = a.code
    BY <1>8 DEF WriteHeader, SetStatus, Typed
  <2>4. sent'[r] = IF sent[r] = 0 THEN a.code ELSE sent[r]
    BY <1>8, <2>2, Answers DEF WriteHeader
  <2>5. StatusInv(r)'
    <3>1. ~spoilt[r] => sent[r] = 0
      BY <2>1 DEF ReplyInv, BodyInv
    <3> QED BY <1>0, <2>1, <2>2, <2>3, <2>4, <3>1 DEF StatusInv
  <2>6. ASSUME ~spoilt[r], BodyInv(r) PROVE BodyInv(r)'
    <3>1. sent[r] = 0 /\ body[r] = {}
      BY <2>1, <2>6 DEF BodyInv
    <3>2. coding'[r] = IF ~gzip[r].checked /\ gzip'[r].compress THEN "gzip" ELSE a.coded
      BY <1>8, <3>1 DEF WriteHeader, Typed
    <3>3. gzip[r] \in Writers /\ kind[r].range \in BOOLEAN /\ a.text \in BOOLEAN
      <4>1. gzip[r] \in Writers /\ kind[r].range \in BOOLEAN
        BY DEF Typed, Kind, Flags
      <4>2. a.text \in BOOLEAN
        BY Zenon, ResponseType
      <4> QED BY Zenon, <4>1, <4>2
    <3>4. /\ gzip[r].checked => gzip'[r] = gzip[r]
          /\ gzip'[r] = gzip[r] \/ gzip'[r].checked
      BY <2>3, <3>3 DEF Check, Writers
    <3>5. gzip[r].checked /\ gzip[r].compress => Misled(r)'
      BY <2>1, <2>6, <3>4 DEF BodyInv, Misled
    <3>6. Misled(r)' \/ coding'[r] = IF gzip'[r].compress THEN "gzip" ELSE a.coded
      BY <2>6, <3>2, <3>4, <3>5 DEF BodyInv
    <3> QED BY <2>1, <2>2, <2>3, <2>6, <3>1, <3>4, <3>6 DEF BodyInv
  <2> QED BY <2>1, <2>5, <2>6 DEF ReplyInv
<1>9. CASE Write(r)
  <2>1. /\ Stage(r)' = Stage(r) /\ site[r] \in {"none", "own"}
        /\ UNCHANGED <<dir, spoilt, sent, coding, site, status, gzip>>
    BY <1>6, <1>9 DEF Write
  <2>2. body'[r] = body[r] \cup {IF gzip[r].compress THEN "gzip" ELSE site[r]}
    BY <1>9 DEF Write, Typed
  <2>3. StatusInv(r)'
    BY <1>0, <2>1 DEF ReplyInv, StatusInv, AsSent
  <2>4. BodyInv(r) => BodyInv(r)'
    BY <2>1, <2>2 DEF BodyInv, Misled
  <2> QED BY <2>1, <2>3, <2>4 DEF ReplyInv
<1>10. ASSUME In(r, "site"), Move(r, "out")
       PROVE  dir'[r] = "out" /\ dir[r] = "in" /\ Stage(r) = 9 /\ (Stage(r)' = 8 => conf.logging)
  <2>1. dir[r] = "in" /\ Stage(r) = 9 /\ Stage(r) # 0
    BY <1>1, <1>10
  <2>2. dir'[r] = "out"
    BY <1>0, <1>10, <2>1, Returns
  <2> QED BY <1>0, <2>1, <2>2 DEF Placed
<1>11. CASE Hijack(r)
  <2>1. /\ In(r, "site") /\ Move(r, "out") /\ site[r] \in {"new", "informed"}
        /\ UNCHANGED <<spoilt, coding, body, site, status, gzip>>
    BY <1>11 DEF Hijack
  <2>2. 101 \in Codes /\ Answer(r, 101)
    BY <1>11 DEF Hijack, Codes
  <2>3. sent'[r] = IF sent[r] = 0 THEN 101 ELSE sent[r]
    BY <2>2, Answers
  <2>4. dir'[r] = "out" /\ dir[r] = "in" /\ Stage(r) = 9 /\ (Stage(r)' = 8 => conf.logging)
    BY <1>10, <2>1
  <2>5. StatusInv(r)'
    <3>1. ~spoilt[r] => sent[r] = 0
      BY <2>1, <2>4 DEF ReplyInv, BodyInv
    <3> QED BY <1>0, <2>1, <2>3, <2>4, <3>1 DEF ReplyInv, StatusInv, AsSent
  <2>6. BodyInv(r) => BodyInv(r)'
    BY <2>1, <2>4 DEF BodyInv, Misled
  <2> QED BY <2>1, <2>5, <2>6 DEF ReplyInv
<1>12. CASE SiteReturns(r)
  <2>1. /\ In(r, "site") /\ Move(r, "out")
        /\ site[r] \in {"none", "own"} \/ (site[r] = "informed" /\ conf.serves = "balancer")
        /\ UNCHANGED <<spoilt, sent, coding, body, site, status, gzip>>
    BY <1>12 DEF SiteReturns
  <2>2. dir'[r] = "out" /\ dir[r] = "in" /\ Stage(r) = 9 /\ (Stage(r)' = 8 => conf.logging)
    BY <1>10, <2>1
  <2>3. BodyInv(r) => BodyInv(r)'
    BY <2>1, <2>2 DEF BodyInv, Misled
  <2>4. StatusInv(r)'
    <3>1. CASE site[r] \in {"none", "own"}
      BY <1>0, <2>1, <2>2, <3>1 DEF ReplyInv, StatusInv, AsSent
    <3>2. CASE site[r] = "informed" /\ conf.serves = "balancer"
      <4>1. ~spoilt[r] => sent[r] = 0
        BY <2>2, <3>2 DEF ReplyInv, BodyInv
      <4> QED BY <1>0, <2>1, <2>2, <3>2, <4>1 DEF ReplyInv, StatusInv, AsSent
    <3> QED BY <2>1, <3>1, <3>2
  <2> QED BY <2>1, <2>3, <2>4 DEF ReplyInv
<1>13. CASE LogGet(r) \/ LogFill(r)
  <2>1. /\ UNCHANGED <<pos, spoilt, sent, coding, body, site, status, gzip>>
        /\ \E d \in {"fill", "log"} : dir' = [dir EXCEPT ![r] = d]
    BY <1>13 DEF LogGet, LogFill, Point
  <2>2. dir'[r] \in {"fill", "log"} /\ dir[r] \in {"out", "fill"} /\ Stage(r) = 8 /\ Stage(r)' = 8
    <3>1. dir'[r] \in {"fill", "log"} /\ Stage(r)' = Stage(r)
      BY <1>0, <2>1, StageMoves
    <3>2. dir[r] \in {"out", "fill"} /\ Stage(r) = 8
      BY <1>0, <1>1, <1>13 DEF LogGet, LogFill, Placed
    <3> QED BY <3>1, <3>2
  <2> QED BY <1>0, <2>1, <2>2 DEF ReplyInv, BodyInv, Misled, StatusInv, AsSent
<1>14. ASSUME NEW name \in EdgeNames \cup {"cap"}, NEW code, In(r, name), Pass(r) \/ Refuse(r, code),
              code \in Codes, name # "cap" \/ Refuse(r, code)
       PROVE  ReplyInv(r)'
  BY <1>2, <1>3, <1>14
<1>15. CASE Edge(r) \/ Saturated(r)
  <2>1. \A code \in {301, 403, 429, 204, 503} : code \in Codes
    BY DEF Codes
  <2>2. CASE ForceHTTPS(r) \/ IPFilter(r)
    BY <1>14, <2>1, <2>2 DEF ForceHTTPS, IPFilter, EdgeNames
  <2>3. CASE RateLimit(r) \/ CORS(r)
    BY <1>14, <2>1, <2>3 DEF RateLimit, CORS, EdgeNames
  <2>4. CASE Saturated(r)
    BY <1>14, <2>1, <2>4 DEF Saturated
  <2>5. CASE LeaveEdge(r)
    BY <1>3, <2>5
  <2> QED BY <1>15, <2>2, <2>3, <2>4, <2>5 DEF Edge
<1>16. CASE PluginStep(r) \/ Acquire(r) \/ Release(r) \/ Wrapper(r)
  BY <1>2, <1>3, <1>5, <1>16 DEF PluginStep, Wrapper
<1>17. CASE Site(r)
  BY <1>3, <1>7, <1>8, <1>9, <1>11, <1>12, <1>17 DEF Site
<1>18. CASE Logging(r)
  BY <1>3, <1>13, <1>18 DEF Logging
<1> QED BY <1>2, <1>4, <1>15, <1>16, <1>17, <1>18 DEF Step, Cap

\* With what was proved of the edge and the places it is inductive.
LEMMA ReplyInit == Init => \A r \in Requests : ReplyInv(r)
  BY DEF Init, ReplyInv, BodyInv, StatusInv, Unwrapped

ReplyInvs == PipeInv /\ \A r \in Requests : ReplyInv(r)

\* Every step keeps it.
LEMMA RepliesKept == ASSUME ReplyInvs, [Next]_vars PROVE ReplyInvs'
<1>1. PipeInv' /\ Typed /\ Where /\ Where'
  BY PipeKept DEF ReplyInvs, PipeInv, CapInv
<1>2. ASSUME NEW r \in Requests, Step(r) PROVE \A s \in Requests : ReplyInv(s)'
  <2>1. conf' = conf /\ \A s \in Requests \ {r} : Same(s)
    BY <1>1, <1>2, StepTypes DEF Aside
  <2>2. ReplyInv(r)'
    BY <1>1, <1>2, ReplyKept DEF ReplyInvs
  <2>3. ASSUME NEW s \in Requests \ {r} PROVE ReplyInv(s)'
    BY <1>1, <2>1, ReplyAside DEF ReplyInvs
  <2> QED BY <2>2, <2>3
<1>3. CASE Unmoved
  <2>1. ASSUME NEW s \in Requests PROVE ReplyInv(s)'
    BY <1>1, <1>3, NextIs, ReplyAside DEF ReplyInvs
  <2> QED BY <1>1, <2>1 DEF ReplyInvs
<1> QED BY <1>1, <1>2, <1>3, NextIs DEF ReplyInvs

\* What a client decodes is what the header announces (gzip.go:79-186), however
\* informational responses, ranges, encodings of the backend, panics and the
\* deferred Close mix, for any configuration and any kinds of requests; unless a
\* plugin had answered already, or the compressor took an informational response
\* for the final one: then all of the body is compressed.
THEOREM BodiesMatchHeaders == Spec => []BodyMatchesHeader
<1>1. Init => ReplyInvs
  BY PipeInit, ReplyInit DEF ReplyInvs
<1>2. ReplyInvs => BodyMatchesHeader
  BY DEF ReplyInvs, ReplyInv, BodyInv, BodyMatchesHeader
<1>3. ReplyInvs /\ [Next]_vars => ReplyInvs'
  BY RepliesKept
<1> QED BY <1>1, <1>2, <1>3, PTL DEF Spec

----------------------------------------------------------------------------
(* What is logged is what was sent *)

\* A request on its way out behind the logging middleware: its line is on its
\* way to the log, or there.
Settled(r) == dir[r] \in {"out", "done"} /\ Stage(r) < 8

\* The lines that say what was sent.
Told == {l \in Lines : Settled(l.req) /\ (spoilt[l.req] \/ AsSent(l.status, l.req))}

\* No request has two lines in s, or one in s and one in t, or a line as well
\* as l.
Single(s)   == \A i, j \in 1..Len(s) : s[i].req = s[j].req => i = j
Apart(s, t) == \A i \in 1..Len(s), j \in 1..Len(t) : s[i].req # t[j].req
Free(l, s)  == \A i \in 1..Len(s) : s[i].req # l.req

\* Between filling its entry and sending it the request's line is in the entry.
EntryInv == \A r \in Requests : dir[r] = "log" => held[r] # NoEntry /\ content[held[r]] = Line(r)

\* Whatever becomes of a line, it is one that was told, and the only one.
LedgerInv ==
  /\ \A s \in {log, lost, Waiting} : Single(s) /\ \A i \in 1..Len(s) : s[i] \in Told
  /\ Apart(log, lost) /\ Apart(log, Waiting) /\ Apart(lost, Waiting)

\* A line more, of a request that has none.
LEMMA LineMore ==
  ASSUME NEW S, NEW s \in Seq(S), NEW t \in Seq(S), NEW l \in S, Free(l, s)
  PROVE  /\ Single(s) => Single(Append(s, l))
         /\ Apart(s, t) /\ Free(l, t) => Apart(Append(s, l), t) /\ Apart(t, Append(s, l))
         /\ \A T : (\A i \in 1..Len(s) : s[i] \in T) /\ l \in T =>
                     \A i \in 1..Len(Append(s, l)) : Append(s, l)[i] \in T
<1> DEFINE a == Append(s, l)
<1>1. /\ Len(s) \in Nat /\ Len(a) = Len(s) + 1 /\ a[Len(s) + 1] = l
      /\ \A i \in 1..Len(s) : a[i] = s[i]
  BY AppendProperties
<1> HIDE DEF a
<1>2. \A i \in 1..Len(a) : i = Len(s) + 1 \/ i \in 1..Len(s)
  BY <1>1
<1>3. Single(s) => Single(a)
  BY <1>1, <1>2 DEF Single, Free
<1>4. Apart(s, t) /\ Free(l, t) => Apart(a, t) /\ Apart(t, a)
  BY <1>1, <1>2 DEF Apart, Free
<1>5. ASSUME NEW T, \A i \in 1..Len(s) : s[i] \in T, l \in T PROVE \A i \in 1..Len(a) : a[i] \in T
  BY <1>1, <1>2, <1>5
<1> QED BY <1>3, <1>4, <1>5 DEF a

\* A line fewer.
LEMMA LineLess ==
  ASSUME NEW S, NEW s \in Seq(S), NEW t \in Seq(S), s # <<>>
  PROVE  /\ Single(s) => Single(Tail(s)) /\ Free(Head(s), Tail(s))
         /\ Apart(t, s) => Apart(t, Tail(s)) /\ Free(Head(s), t)
         /\ \A T : (\A i \in 1..Len(s) : s[i] \in T) =>
                     Head(s) \in T /\ \A i \in 1..Len(Tail(s)) : Tail(s)[i] \in T
<1> DEFINE a == Tail(s)
<1>1. /\ Len(s) \in Nat /\ Len(s) >= 1 /\ Len(a) = Len(s) - 1 /\ Head(s) = s[1]
      /\ \A i \in 1..Len(a) : a[i] = s[i + 1]
  OBVIOUS
<1> HIDE DEF a
<1>2. 1 \in 1..Len(s) /\ \A i \in 1..Len(a) : i + 1 \in 1..Len(s) /\ i + 1 # 1
  BY <1>1
<1>3. ASSUME Single(s) PROVE Single(a) /\ Free(Head(s), a)
  <2>1. ASSUME NEW i \in 1..Len(a), NEW j \in 1..Len(a), a[i].req = a[j].req PROVE i = j
    <3>1. s[i + 1].req = s[j + 1].req
      BY <1>1, <2>1
    <3>2. i + 1 = j + 1
      BY <1>2, <1>3, <3>1 DEF Single
    <3> QED BY <3>2
  <2>2. ASSUME NEW i \in 1..Len(a) PROVE a[i].req # Head(s).req
    BY <1>1, <1>2, <1>3 DEF Single
  <2> QED BY <2>1, <2>2 DEF Single, Free
<1>4. Apart(t, s) => Apart(t, a) /\ Free(Head(s), t)
  BY <1>1, <1>2 DEF Apart, Free
<1>5. ASSUME NEW T, \A i \in 1..Len(s) : s[i] \in T PROVE Head(s) \in T /\ \A i \in 1..Len(a) : a[i] \in T
  BY <1>1, <1>2, <1>5
<1> QED BY <1>3, <1>4, <1>5 DEF a

\* Three sequences that are single and apart are single when joined.
LEMMA Joined ==
  ASSUME NEW S, NEW s \in Seq(S), NEW t \in Seq(S)
  PROVE  /\ Single(s) /\ Single(t) /\ Apart(s, t) => Single(s \o t)
         /\ \A u \in Seq(S) : Apart(s, u) /\ Apart(t, u) => Apart(s \o t, u)
         /\ \A T : (\A i \in 1..Len(s) : s[i] \in T) /\ (\A i \in 1..Len(t) : t[i] \in T) =>
                     \A i \in 1..Len(s \o t) : (s \o t)[i] \in T
<1> DEFINE a == s \o t
<1>1. /\ Len(s) \in Nat /\ Len(t) \in Nat /\ Len(a) = Len(s) + Len(t)
      /\ \A i \in 1..Len(s) : a[i] = s[i]
      /\ \A i \in 1..Len(a) : i \notin 1..Len(s) => i - Len(s) \in 1..Len(t) /\ a[i] = t[i - Len(s)]
  BY ConcatProperties
<1> HIDE DEF a
<1>2. ASSUME Single(s), Single(t), Apart(s, t), NEW i \in 1..Len(a), NEW j \in 1..Len(a),
             a[i].req = a[j].req
      PROVE  i = j
  <2>1. CASE i \in 1..Len(s) /\ j \in 1..Len(s)
    BY <1>1, <1>2, <2>1 DEF Single
  <2>2. CASE i \notin 1..Len(s) /\ j \notin 1..Len(s)
    <3>0. /\ i - Len(s) \in 1..Len(t) /\ a[i] = t[i - Len(s)]
          /\ j - Len(s) \in 1..Len(t) /\ a[j] = t[j - Len(s)]
      BY <1>1, <2>2
    <3>1. i - Len(s) = j - Len(s)
      BY <1>2, <3>0 DEF Single
    <3> QED BY <1>1, <3>1
  <2>3. CASE i \in 1..Len(s) /\ j \notin 1..Len(s)
    BY <1>1, <1>2, <2>3 DEF Apart
  <2>4. CASE i \notin 1..Len(s) /\ j \in 1..Len(s)
    BY <1>1, <1>2, <2>4 DEF Apart
  <2> QED BY <2>1, <2>2, <2>3, <2>4
<1>3. ASSUME NEW u \in Seq(S), Apart(s, u), Apart(t, u) PROVE Apart(a, u)
  <2> SUFFICES ASSUME NEW i \in 1..Len(a), NEW j \in 1..Len(u) PROVE a[i].req # u[j].req
    BY DEF Apart
  <2>1. CASE i \in 1..Len(s)
    BY <1>1, <1>3, <2>1 DEF Apart
  <2>2. CASE i \notin 1..Len(s)
    <3>1. i - Len(s) \in 1..Len(t) /\ a[i] = t[i - Len(s)]
      BY <1>1, <2>2
    <3> QED BY <1>3, <3>1 DEF Apart
  <2> QED BY <2>1, <2>2
<1>4. ASSUME NEW T, \A i \in 1..Len(s) : s[i] \in T, \A i \in 1..Len(t) : t[i] \in T
      PROVE  \A i \in 1..Len(a) : a[i] \in T
  BY <1>1, <1>4
<1> QED BY <1>2, <1>3, <1>4 DEF a, Single

\* Only filling its entry leads a request to the sending of it, and a request
\* whose line is on its way stays so and has what it was sent.
LEMMA Turnings ==
  ASSUME Typed, Where, Where', NEW r \in Requests, Step(r)
  PROVE  /\ dir'[r] = "log" => LogFill(r)
         /\ Settled(r) => /\ Settled(r)' /\ spoilt'[r] = spoilt[r]
                          /\ sent'[r] = sent[r] \/ (sent[r] = 0 /\ sent'[r] = 200)
<1> USE DEF plugs, reply, wire
<1>0. /\ conf' = conf /\ Placed(r) /\ Placed(r)' /\ Stage(r) \in 0..9 /\ Stage(r)' \in 0..9
      /\ dir \in [Requests -> {"idle", "in", "out", "panic", "fill", "log"} \cup Ended]
  BY StepTypes, Stages, StagesAfter DEF Aside, Placed, Where
<1> DEFINE Goal == /\ dir'[r] = "log" => LogFill(r)
                   /\ Settled(r) => /\ Settled(r)' /\ spoilt'[r] = spoilt[r]
                                    /\ sent'[r] = sent[r] \/ (sent[r] = 0 /\ sent'[r] = 200)
<1>1. ASSUME dir[r] \notin {"out", "done"}, dir'[r] # "log" PROVE Goal
  BY <1>1 DEF Settled
<1>2. \A name \in EdgeNames \cup {"plugins", "cap", "site", "logging", "gzip"} :
        /\ In(r, name) => dir[r] = "in"
        /\ Leaving(r, name) => dir[r] \in {"out", "panic"} /\ Stage(r) = Rank(name) /\ Stage(r) # 0
        /\ Out(r, name) => dir[r] = "out" /\ Stage(r) = Rank(name)
  BY Reaches, Ranks DEF Handlers, EdgeNames
<1>3. CASE \/ Arrive(r) \/ PluginsPass(r) \/ PluginSpoils(r) \/ Acquire(r) \/ WrapGzip(r)
           \/ Pass(r) /\ \E name \in EdgeNames : In(r, name)
  BY <1>1, <1>3, Inwards DEF Inward
<1>4. ASSUME dir[r] = "in",
             \/ PluginHandles(r) \/ PluginAborts(r) \/ SitePanics(r)
             \/ \E name \in EdgeNames \cup {"cap"}, code \in Codes : In(r, name) /\ Refuse(r, code)
      PROVE  Goal
  BY <1>1, <1>4, Outwards DEF Outward
<1>5. CASE LogSend(r) \/ SkipLogging(r)
  <2>1. dir[r] \notin {"out", "done"}
    BY <1>5 DEF LogSend, SkipLogging, Reached
  <2>2. dir'[r] # "log"
    BY <1>5, Outwards DEF Outward
  <2> QED BY <1>1, <2>1, <2>2
<1>6. ASSUME UNCHANGED spoilt, dir[r] \in {"out", "panic"}, dir'[r] = dir[r],
             Stage(r)' < Stage(r), sent'[r] = sent[r] \/ (sent[r] = 0 /\ sent'[r] = 200)
      PROVE  Goal
  BY <1>0, <1>6 DEF Settled
<1>7. CASE LeavePlugins(r) \/ Release(r) \/ CloseGzip(r)
  <2>1. /\ dir[r] \in {"out", "panic"} /\ Stage(r) # 0 /\ Move(r, dir[r])
        /\ UNCHANGED spoilt
    BY <1>2, <1>7 DEF LeavePlugins, Release, CloseGzip, Back
  <2>2. dir'[r] = dir[r] /\ Stage(r)' < Stage(r)
    BY <1>0, <2>1, Returns DEF Passes
  <2>3. sent'[r] = sent[r] \/ (sent[r] = 0 /\ sent'[r] = 200)
    <3>1. UNCHANGED sent \/ Answer(r, 200)
      BY <1>7 DEF LeavePlugins, Release, CloseGzip
    <3>2. 200 \in Codes
      BY DEF Codes
    <3> QED BY <3>1, <3>2, Answers
  <2> QED BY <1>6, <2>1, <2>2, <2>3
<1>8. CASE LeaveEdge(r)
  <2>1. /\ dir[r] \in {"out", "panic"} /\ Stage(r) # 0 /\ UNCHANGED <<dir, spoilt, sent>>
        /\ pos' = [pos EXCEPT ![r] = 0]
    BY <1>2, <1>8 DEF LeaveEdge, EdgeNames
  <2>2. Stage(r)' = 0
    BY <1>0, <2>1, StageMoves DEF Where
  <2> QED BY <1>0, <1>6, <2>1, <2>2
<1>9. CASE Finish(r)
  <2>1. /\ Stage(r)' = 0 /\ UNCHANGED spoilt /\ dir[r] \in {"out", "panic"}
        /\ dir'[r] = (IF dir[r] = "out" THEN "done" ELSE "aborted")
        /\ sent'[r] = IF sent[r] = 0 /\ dir[r] = "out" THEN 200 ELSE sent[r]
    BY <1>0, <1>9, StageMoves DEF Finish, Typed
  <2> QED BY <2>1 DEF Settled
<1>10. CASE WrapLogging(r) \/ Write(r) \/ Hijack(r) \/ SiteReturns(r)
  <2>1. dir[r] = "in" /\ (UNCHANGED dir \/ Move(r, "out"))
    BY <1>2, <1>10 DEF WrapLogging, Write, Hijack, SiteReturns, Forward
  <2>2. dir'[r] # "log"
    BY <1>0, <2>1 DEF Move
  <2> QED BY <1>1, <2>1, <2>2
<1>11. ASSUME NEW a \in Responses[r],
              WriteHeader(r, a.code, a.coded, a.text) \/ Inform(r, a.coded, a.text)
       PROVE  Goal
  BY <1>1, <1>2, <1>11 DEF WriteHeader, Inform
<1>12. CASE LogGet(r)
  <2>1. Stage(r) = 8 /\ dir' = [dir EXCEPT ![r] = "fill"]
    BY <1>2, <1>12, Ranks DEF LogGet, Point
  <2> QED BY <1>0, <2>1 DEF Settled
<1>13. CASE LogFill(r)
  BY <1>13 DEF LogFill, Settled
<1>14. CASE Edge(r) \/ Saturated(r)
  <2>1. \A code \in {301, 403, 429, 204, 503} : code \in Codes
    BY DEF Codes
  <2>2. ASSUME NEW name \in EdgeNames \cup {"cap"}, NEW code \in Codes, In(r, name),
               (Pass(r) /\ name # "cap") \/ Refuse(r, code)
        PROVE  Goal
    BY <1>2, <1>3, <1>4, <2>2
  <2>3. CASE ForceHTTPS(r) \/ IPFilter(r)
    BY <2>1, <2>2, <2>3 DEF ForceHTTPS, IPFilter, EdgeNames
  <2>4. CASE RateLimit(r) \/ CORS(r)
    BY <2>1, <2>2, <2>4 DEF RateLimit, CORS, EdgeNames
  <2>5. CASE Saturated(r)
    BY <2>1, <2>2, <2>5 DEF Saturated
  <2> QED BY <1>8, <1>14, <2>3, <2>4, <2>5 DEF Edge
<1>15. CASE PluginStep(r) \/ Acquire(r) \/ Release(r) \/ Wrapper(r)
  <2>1. CASE PluginHandles(r) \/ PluginAborts(r)
    BY <1>2, <1>4, <2>1 DEF PluginHandles, PluginAborts, RunPlugins
  <2> QED BY <1>3, <1>7, <1>10, <1>15, <2>1 DEF PluginStep, Wrapper
<1>16. CASE Site(r)
  <2>1. CASE SitePanics(r)
    BY <1>2, <1>4, <2>1 DEF SitePanics
  <2> QED BY <1>10, <1>11, <1>16, <2>1 DEF Site
<1>17. CASE Logging(r)
  BY <1>5, <1>12, <1>13, <1>17 DEF Logging
<1> QED BY <1>3, <1>9, <1>14, <1>15, <1>16, <1>17 DEF Step, Cap

\* The steps of the pipeline at the log.
LEMMA LogMoves ==
  ASSUME [Next]_vars
  PROVE  \/ UNCHANGED logVars
         \/ \E r \in Requests : GetEntry(r) /\ LogGet(r)
         \/ \E r \in Requests : Fill(r, Line(r)) /\ LogFill(r)
         \/ \E r \in Requests : (Send(r) \/ Drop(r)) /\ LogSend(r)
         \/ Worker
<1>1. ASSUME NEW r \in Requests, Step(r)
      PROVE  UNCHANGED logVars \/ LogGet(r) \/ LogFill(r) \/ LogSend(r)
  <2>1. CASE Arrive(r) \/ Finish(r) \/ Edge(r)
    BY <2>1 DEF Arrive, Finish, Edge, ForceHTTPS, IPFilter, RateLimit, CORS, LeaveEdge, Refuse, Pass
  <2>2. CASE PluginStep(r)
    BY <2>2 DEF PluginStep, PluginHandles, PluginAborts, PluginsPass, PluginSpoils, LeavePlugins
  <2>3. CASE Cap(r)
    BY <2>3 DEF Cap, Acquire, Saturated, Release, Refuse
  <2>4. CASE Wrapper(r)
    BY <2>4 DEF Wrapper, WrapGzip, CloseGzip, WrapLogging
  <2>5. CASE Site(r)
    BY <2>5 DEF Site, WriteHeader, Inform, Write, Hijack, SiteReturns, SitePanics
  <2>6. CASE Logging(r)
    BY <2>6 DEF Logging, SkipLogging
  <2> QED BY <1>1, <2>1, <2>2, <2>3, <2>4, <2>5, <2>6 DEF Step
<1>2. ASSUME NEW r \in Requests, LogGet(r) \/ LogFill(r) \/ LogSend(r)
      PROVE  \/ GetEntry(r) /\ LogGet(r)
             \/ Fill(r, Line(r)) /\ LogFill(r)
             \/ (Send(r) \/ Drop(r)) /\ LogSend(r)
  BY <1>2 DEF LogGet, LogFill, LogSend
<1>3. CASE WorkerStep
  BY <1>3 DEF WorkerStep
<1>4. CASE UNCHANGED vars
  BY <1>4 DEF vars
<1> QED BY <1>1, <1>2, <1>3, <1>4 DEF Next, Step

\* A line that was told remains so.
LEMMA ToldStays ==
  ASSUME ReplyInvs, ReplyInvs', [Next]_vars
  PROVE  Told \subseteq Told'
<1> SUFFICES ASSUME NEW l \in Told PROVE l \in Told'
  OBVIOUS
<1>1. l \in Lines /\ l.req \in Requests /\ Settled(l.req) /\ (spoilt[l.req] \/ AsSent(l.status, l.req))
  BY PipelineAssumption DEF Told
<1> DEFINE r == l.req
<1>2. Typed /\ Where /\ Where'
  BY DEF ReplyInvs, PipeInv, CapInv
<1>3. /\ Settled(r)' /\ spoilt'[r] = spoilt[r] /\ conf' = conf
      /\ sent'[r] = sent[r] \/ (sent[r] = 0 /\ sent'[r] = 200)
  <2>1. CASE Step(r)
    BY <1>1, <1>2, <2>1, Turnings, StepTypes DEF Aside
  <2>2. CASE conf' = conf /\ Same(r)
    <3>1. Stage(r)' = Stage(r)
      BY <1>1, <1>2, <2>2, StageMoves DEF Same
    <3> QED BY <1>1, <2>2, <3>1 DEF Settled, Same
  <2>3. Step(r) \/ (conf' = conf /\ Same(r))
    <3>1. ASSUME NEW s \in Requests, Step(s), s # r PROVE conf' = conf /\ Same(r)
      BY <1>1, <1>2, <3>1, StepTypes DEF Aside
    <3> QED BY <1>1, <3>1, NextIs
  <2> QED BY <2>1, <2>2, <2>3
<1> QED BY <1>1, <1>3 DEF Told, AsSent

\* The entry that waits to be sent keeps its line.
LEMMA EntryKept ==
  ASSUME ReplyInvs, ReplyInvs', LogInv, EntryInv, [Next]_vars
  PROVE  EntryInv'
<1> USE DEF pool, monitor, At
<1>1. Typed /\ Where /\ Where' /\ Exclusive /\ LogTypeOK /\ NoEntry \notin Entries
  BY LogAssumption DEF ReplyInvs, PipeInv, CapInv, LogInv
<1> SUFFICES ASSUME NEW s \in Requests, dir'[s] = "log"
             PROVE  held'[s] # NoEntry /\ content'[held'[s]] = Line(s)'
  BY DEF EntryInv
<1>2. CASE LogFill(s)
  <2>1. /\ held[s] # NoEntry /\ content' = [content EXCEPT ![held[s]] = Line(s)]
        /\ UNCHANGED <<held, status>>
    BY <1>2 DEF LogFill, Fill, reply
  <2>2. held[s] \in Entries /\ Line(s)' = Line(s)
    BY <1>1, <2>1 DEF LogTypeOK, Line
  <2> QED BY <1>1, <2>1, <2>2 DEF LogTypeOK
<1>3. CASE ~LogFill(s)
  <2>1. conf' = conf /\ Same(s) /\ ~Step(s)
    <3>1. ~Step(s)
      BY <1>1, <1>3, Turnings
    <3>2. ASSUME NEW r \in Requests, Step(r), s # r PROVE conf' = conf /\ Same(s)
      BY <1>1, <3>2, StepTypes DEF Aside
    <3> QED BY <3>1, <3>2, NextIs
  <2>2. dir[s] = "log" /\ Line(s)' = Line(s)
    BY <2>1 DEF Same, Line
  <2>3. held[s] \in Entries /\ content[held[s]] = Line(s)
    BY <1>1, <2>2 DEF EntryInv, LogTypeOK
  <2>4. ASSUME NEW r \in Requests, LogGet(r) \/ LogFill(r) \/ LogSend(r) PROVE r # s
    BY <2>1, <2>4 DEF Step, Logging
  <2>5. held'[s] = held[s] /\ content'[held[s]] = content[held[s]]
    <3>1. CASE UNCHANGED logVars
      BY <3>1 DEF logVars
    <3>2. ASSUME NEW r \in Requests, GetEntry(r), r # s
          PROVE  held'[s] = held[s] /\ content'[held[s]] = content[held[s]]
      BY <1>1, <3>2 DEF GetEntry, LogTypeOK
    <3>3. ASSUME NEW r \in Requests, Fill(r, Line(r)), r # s
          PROVE  held'[s] = held[s] /\ content'[held[s]] = content[held[s]]
      <4>1. held[r] # held[s]
        BY <1>1, <2>3, <3>3 DEF Exclusive
      <4> QED BY <1>1, <2>3, <3>3, <4>1 DEF Fill, LogTypeOK
    <3>4. ASSUME NEW r \in Requests, Send(r), r # s
          PROVE  held'[s] = held[s] /\ content'[held[s]] = content[held[s]]
      BY <1>1, <3>4 DEF Send, LogTypeOK
    <3>5. ASSUME NEW r \in Requests, Drop(r), r # s
          PROVE  held'[s] = held[s] /\ content'[held[s]] = content[held[s]]
      <4>1. held[r] # held[s]
        BY <1>1, <2>3, <3>5 DEF Exclusive
      <4> QED BY <1>1, <2>3, <3>5, <4>1 DEF Drop, PutEntry, LogTypeOK
    <3>6. CASE Worker
      <4>1. CASE Return
        <5>1. hand # held[s]
          BY <1>1, <2>3 DEF Exclusive
        <5> QED BY <1>1, <2>3, <4>1, <5>1 DEF Return, PutEntry, LogTypeOK
      <4> QED BY <3>6, <4>1 DEF Worker, Receive, BuildFields, WriteLine, CountRequest, AppendItem
    <3> QED BY <2>4, <3>1, <3>2, <3>3, <3>4, <3>5, <3>6, LogMoves
  <2> QED BY <1>1, <2>2, <2>3, <2>5
<1> QED BY <1>2, <1>3

\* Every step keeps the ledger: the line that is sent or dropped says what was
\* sent, and its request has no other.
LEMMA LedgerKept ==
  ASSUME ReplyInvs, ReplyInvs', LogInv, EntryInv, LedgerInv, [Next]_vars
  PROVE  LedgerInv'
<1> DEFINE S == Lines \cup {Blank}
<1>1. Typed /\ Where /\ Where' /\ LogTypeOK /\ Told \subseteq Told'
  BY ToldStays DEF ReplyInvs, PipeInv, CapInv, LogInv
<1>2. log \in Seq(S) /\ lost \in Seq(S) /\ Waiting \in Seq(S)
  BY <1>1, WaitingIs DEF LogTypeOK
<1>3. [LogNext]_logVars
  <2>1. StatusOK
    BY <1>1 DEF Typed, StatusOK
  <2> QED BY <2>1, PipelineLogs
<1> HIDE DEF S
<1>4. CASE Still
  BY <1>1, <1>4 DEF Still, LedgerInv
<1>5. ASSUME NEW l \in S, l \in Told', Free(l, log), Free(l, lost), Free(l, Waiting),
             Accepts(l) \/ Loses(l)
      PROVE  LedgerInv'
  <2>1. CASE Accepts(l)
    <3>1. Waiting' = Append(Waiting, l) /\ log' = log /\ lost' = lost
      BY <2>1 DEF Accepts
    <3>2. Single(Waiting) /\ Apart(Waiting, log) /\ Apart(Waiting, lost)
      BY DEF LedgerInv, Apart
    <3>3. Single(Append(Waiting, l)) /\ Apart(log, Append(Waiting, l)) /\ Apart(lost, Append(Waiting, l))
      BY <1>2, <1>5, <3>2, LineMore
    <3>4. \A i \in 1..Len(Append(Waiting, l)) : Append(Waiting, l)[i] \in Told'
      BY <1>1, <1>2, <1>5, LineMore DEF LedgerInv
    <3> QED BY <1>1, <3>1, <3>3, <3>4 DEF LedgerInv
  <2>2. CASE Loses(l)
    <3>1. lost' = Append(lost, l) /\ log' = log /\ Waiting' = Waiting
      BY <2>2 DEF Loses
    <3>2. Single(lost) /\ Apart(lost, log) /\ Apart(lost, Waiting)
      BY DEF LedgerInv, Apart
    <3>3. Single(Append(lost, l)) /\ Apart(log, Append(lost, l)) /\ Apart(Append(lost, l), Waiting)
      BY <1>2, <1>5, <3>2, LineMore
    <3>4. \A i \in 1..Len(Append(lost, l)) : Append(lost, l)[i] \in Told'
      BY <1>1, <1>2, <1>5, LineMore DEF LedgerInv
    <3> QED BY <1>1, <3>1, <3>3, <3>4 DEF LedgerInv
  <2> QED BY <1>5, <2>1, <2>2
<1>6. CASE Writes
  <2>1. /\ Waiting # <<>> /\ log' = Append(log, Head(Waiting)) /\ Waiting' = Tail(Waiting)
        /\ lost' = lost
    BY <1>6 DEF Writes
  <2> DEFINE h == Head(Waiting)
  <2>2. h \in S /\ Tail(Waiting) \in Seq(S)
    BY <1>2, <2>1, HeadTailProperties
  <2>3. /\ Single(Tail(Waiting)) /\ Free(h, Tail(Waiting)) /\ Free(h, log) /\ Free(h, lost)
        /\ Apart(log, Tail(Waiting)) /\ Apart(lost, Tail(Waiting)) /\ h \in Told
        /\ \A i \in 1..Len(Tail(Waiting)) : Tail(Waiting)[i] \in Told
    BY <1>2, <2>1, LineLess DEF LedgerInv
  <2> HIDE DEF h
  <2>4. /\ Single(Append(log, h)) /\ Apart(Append(log, h), lost) /\ Apart(Append(log, h), Tail(Waiting))
        /\ \A i \in 1..Len(Append(log, h)) : Append(log, h)[i] \in Told
    BY <1>2, <2>2, <2>3, LineMore DEF LedgerInv
  <2>5. log' = Append(log, h)
    BY <2>1 DEF h
  <2> QED BY <1>1, <2>1, <2>3, <2>4, <2>5 DEF LedgerInv
<1>7. ASSUME NEW r \in Requests, Send(r) \/ Drop(r), LogSend(r) PROVE LedgerInv'
  <2>1. dir[r] = "log" /\ Stage(r) = 8 /\ held[r] # NoEntry /\ content[held[r]] = Line(r)
    BY <1>1, <1>7, Stages DEF LogSend, EntryInv, Placed
  <2>2. Outward(r) /\ UNCHANGED <<status, sent, spoilt>> /\ conf' = conf /\ Move(r, "out")
    BY <1>1, <1>7, Outwards DEF LogSend, reply, wire, plugs
  <2>3. Line(r) \in Lines /\ Line(r).req = r /\ Line(r).status = status[r] /\ Line(r) \in S
    BY <1>1, PipelineAssumption DEF Line, Typed, S
  <2>4. Settled(r)'
    <3>1. Stage(r) # 0
      BY <2>1
    <3>2. dir'[r] = "out" /\ Stage(r)' < 8
      BY <1>1, <2>1, <2>2, <3>1, Returns DEF Passes
    <3> QED BY <3>2 DEF Settled
  <2>5. Line(r) \in Told'
    <3>1. spoilt[r] \/ AsSent(status[r], r)
      BY <2>1 DEF ReplyInvs, ReplyInv, StatusInv
    <3>2. spoilt'[r] \/ AsSent(status[r], r)'
      BY <2>2, <3>1 DEF AsSent
    <3> QED BY <2>2, <2>3, <2>4, <3>2 DEF Told, AsSent
  <2>6. ASSUME NEW s \in {log, lost, Waiting} PROVE Free(Line(r), s)
    <3>1. \A l \in Told : l.req # r
      BY <2>1 DEF Told, Settled
    <3> QED BY <2>3, <3>1 DEF Free, LedgerInv
  <2>7. Accepts(Line(r)) \/ Loses(Line(r))
    BY <1>3, <1>7, <2>1, LineMoves
  <2> QED BY <1>5, <2>3, <2>5, <2>6, <2>7
<1>8. CASE UNCHANGED logVars
  BY <1>4, <1>8 DEF logVars, Waiting, InHand, Still
<1>9. ASSUME NEW r \in Requests, GetEntry(r) \/ Fill(r, Line(r)) PROVE Still
  <2>1. Line(r) \in Lines
    BY <1>1, PipelineAssumption DEF Line, Typed
  <2> QED BY <1>3, <1>9, <2>1, LineMoves
<1>10. CASE Worker
  BY <1>3, <1>4, <1>6, <1>10, LineMoves DEF Worker
<1> QED BY <1>4, <1>7, <1>8, <1>9, <1>10, LogMoves

\* The access log says what the client got (middleware.go:48-60): whatever
\* becomes of a line and of the entry that carries it, in whatever order the
\* requests and the worker run, its status is the one sent, and no request has
\* two lines. The exceptions are those of Tells.
THEOREM LogTellsWhatWasSent == Spec => []LoggedAsSent
<1> DEFINE I == ReplyInvs /\ EntryInv /\ LedgerInv
<1>1. Init => I
  <2> SUFFICES ASSUME Init PROVE I
    OBVIOUS
  <2>1. ReplyInvs
    BY PipeInit, ReplyInit DEF ReplyInvs
  <2>2. EntryInv
    BY DEF Init, EntryInv
  <2>3. LedgerInv
    <3>1. LogTypeOK /\ log = <<>> /\ lost = <<>> /\ chan = <<>> /\ worker = "receive"
      BY LogInitTypes DEF Init, LogInit
    <3>2. Waiting = <<>>
      BY <3>1, WaitingIs
    <3> QED BY <3>1, <3>2 DEF LedgerInv, Single, Apart
  <2> QED BY <2>1, <2>2, <2>3
<1>2. I /\ LogInv /\ [Next]_vars => I'
  <2> SUFFICES ASSUME I, LogInv, [Next]_vars PROVE I'
    OBVIOUS
  <2>1. ReplyInvs'
    BY RepliesKept
  <2> QED BY <2>1, EntryKept, LedgerKept
<1>3. I /\ LogInv => LoggedAsSent
  <2> SUFFICES ASSUME I, LogInv PROVE LoggedAsSent
    OBVIOUS
  <2> DEFINE S == Lines \cup {Blank}
  <2>1. log \in Seq(S) /\ lost \in Seq(S) /\ Waiting \in Seq(S)
    BY WaitingIs DEF LogInv, LogTypeOK
  <2> HIDE DEF S
  <2>2. /\ log \o lost \in Seq(S) /\ Single(log \o lost) /\ Apart(log \o lost, Waiting)
        /\ \A i \in 1..Len(log \o lost) : (log \o lost)[i] \in Told
    BY <2>1, Joined, ConcatProperties DEF LedgerInv
  <2>3. Single(Ledger) /\ \A i \in 1..Len(Ledger) : Ledger[i] \in Told
    <3> DEFINE a == log \o lost
    <3>1. a \in Seq(S) /\ Single(a) /\ Apart(a, Waiting) /\ \A i \in 1..Len(a) : a[i] \in Told
      BY <2>2
    <3> HIDE DEF a
    <3>2. Single(a \o Waiting) /\ \A i \in 1..Len(a \o Waiting) : (a \o Waiting)[i] \in Told
      BY <2>1, <3>1, Joined DEF LedgerInv
    <3> QED BY <3>2 DEF Ledger, a
  <2> QED BY <2>3 DEF LoggedAsSent, Tells, Single, Told, AsSent
<1>4. LogSafety => []LogInv
  <2>1. LogInit => LogInv
    BY LogInitTypes, LogInitExclusive DEF LogInv
  <2>2. LogInv /\ [LogNext]_logVars => LogInv'
    BY LogTypes, LogExclusive DEF LogInv
  <2> QED BY <2>1, <2>2, PTL DEF LogSafety
<1> QED BY <1>1, <1>2, <1>3, <1>4, PipelineUsesLog, PTL DEF Spec
===========================================================================
