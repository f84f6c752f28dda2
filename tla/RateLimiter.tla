---------------------------- MODULE RateLimiter ----------------------------
(***************************************************************************)
(* rateLimiter: token buckets per client address, filled lazily by each    *)
(* request, behind one mutex, and a sweeper that drops idle buckets.       *)
(*                                                                         *)
(* A request reads the clock before it waits for the mutex, so requests    *)
(* may reach their bucket in another order than that of their clocks.      *)
(* Tokens are counted in units of 1/Scale: the code's float64, without     *)
(* its rounding.                                                           *)
(***************************************************************************)
EXTENDS Integers

CONSTANTS
  Clients,   \* client addresses
  Requests,  \* request slots: at most that many wait for the mutex
  Rate,      \* rl.rate, in units per tick of the clock
  Scale,     \* units of one token
  Burst,     \* the configured burst
  Idle,      \* the sweeper drops buckets that are older, in ticks
  MaxWait,   \* bound: ticks that a request waits for the mutex
  MaxClock,  \* bound of the clock
  Yield,     \* the rate a client can get in the long run
  From       \* start of the window in which admissions are counted

ASSUME LimiterAssumption ==
  /\ Rate \in Nat \ {0} /\ Scale \in Nat \ {0} /\ Burst \in Int
  /\ Idle \in Nat /\ MaxWait \in Nat /\ MaxClock \in Nat /\ From \in Nat

\* newRateLimiter raises a burst below one to one.
Full == Scale * (IF Burst < 1 THEN 1 ELSE Burst)

\* A dropped bucket comes back full. Where it would not have filled up by itself
\* in the time it has to be idle for, the sweeper gives tokens away, at most a
\* full bucket in that time: a client then gets more than Rate. Yield is Rate
\* itself if the bucket does fill up, and for any Rate and Burst there is one as
\* long as nothing waits for the mutex half as long as a bucket has to be idle.
ASSUME YieldAssumption ==
  /\ Yield \in Nat /\ Yield >= Rate
  /\ Full + 2 * Yield * MaxWait <= Yield * Idle

VARIABLES
  clock,
  bucket, tokens, last,  \* per client: it has a bucket, its fields
  at, who,               \* per request: time it read (None: idle), client
  sweepAt,               \* time the sweeper read, or None
  won, lastWon           \* monitors per client: admissions with a time from
                         \* From on, and the time of the last admission

None == -1

buckets == <<bucket, tokens, last>>
vars == <<clock, buckets, at, who, sweepAt, won, lastWon>>

Init ==
  /\ clock = 0
  /\ bucket = [p \in Clients |-> FALSE]
  /\ tokens = [p \in Clients |-> 0] /\ last = [p \in Clients |-> 0]
  /\ at = [t \in Requests |-> None] /\ who \in [Requests -> Clients]
  /\ sweepAt = None
  /\ won = [p \in Clients |-> 0] /\ lastWon = [p \in Clients |-> None]

----------------------------------------------------------------------------
\* Time passes; nothing waits for the mutex longer than MaxWait.
InTime(t) == t = None \/ clock < t + MaxWait
Tick ==
  /\ clock < MaxClock
  /\ InTime(sweepAt) /\ \A t \in Requests : InTime(at[t])
  /\ clock' = clock + 1
  /\ UNCHANGED <<buckets, at, who, sweepAt, won, lastWon>>

\* allow: time.Now(), then wait for the mutex.
Arrive(t, p) ==
  /\ at[t] = None
  /\ at' = [at EXCEPT ![t] = clock]
  /\ who' = [who EXCEPT ![t] = p]
  /\ UNCHANGED <<clock, buckets, sweepAt, won, lastWon>>

FaultyCapped(x) == x  \* fault: the bucket has no rim
Capped(x) == IF x > Full THEN Full ELSE x

\* The tokens of client p at time now; a new bucket is full.
FaultyFilled(p, now) ==  \* fault: time that runs backwards counts as well
  IF bucket[p]
  THEN Capped(tokens[p] + Rate * (IF now < last[p] THEN last[p] - now ELSE now - last[p]))
  ELSE Full
ForgetfulFilled(p, now) ==  \* fault: a fill starts from zero
  IF bucket[p] THEN Rate * (now - last[p]) ELSE Full
Filled(p, now) ==
  IF bucket[p] THEN Capped(tokens[p] + Rate * (now - last[p])) ELSE Full

\* allow, under the mutex, up to the decision.
Enter(t, left) ==
  /\ at[t] # None
  /\ bucket' = [bucket EXCEPT ![who[t]] = TRUE]
  /\ last' = [last EXCEPT ![who[t]] = at[t]]
  /\ tokens' = [tokens EXCEPT ![who[t]] = left]
  /\ at' = [at EXCEPT ![t] = None]
  /\ UNCHANGED <<clock, who, sweepAt>>

Admit(t) ==
  /\ Filled(who[t], at[t]) >= Scale
  /\ Enter(t, Filled(who[t], at[t]) - Scale)
  /\ won' = [won EXCEPT ![who[t]] = IF at[t] >= From THEN @ + 1 ELSE @]
  /\ lastWon' = [lastWon EXCEPT ![who[t]] = at[t]]

\* 429 Too Many Requests
Refuse(t) ==
  /\ Filled(who[t], at[t]) < Scale
  /\ Enter(t, Filled(who[t], at[t]))
  /\ UNCHANGED <<won, lastWon>>

\* sweep: the ticker fires; the cutoff is computed, then the mutex taken.
SweepTick ==
  /\ sweepAt = None
  /\ sweepAt' = clock
  /\ UNCHANGED <<clock, buckets, at, who, won, lastWon>>

\* b.last.Before(cutoff)
Stale(p) == last[p] < sweepAt - Idle
Sweep ==
  /\ sweepAt # None
  /\ bucket' = [p \in Clients |-> bucket[p] /\ ~Stale(p)]
  /\ tokens' = [p \in Clients |-> IF Stale(p) THEN 0 ELSE tokens[p]]
  /\ last' = [p \in Clients |-> IF Stale(p) THEN 0 ELSE last[p]]
  /\ sweepAt' = None
  /\ UNCHANGED <<clock, at, who, won, lastWon>>

Next ==
  \/ Tick \/ SweepTick \/ Sweep
  \/ \E t \in Requests :
       Admit(t) \/ Refuse(t) \/ \E p \in Clients : Arrive(t, p)

Spec == Init /\ [][Next]_vars

----------------------------------------------------------------------------
(* Properties *)

TypeOK ==
  /\ clock \in 0..MaxClock
  /\ bucket \in [Clients -> BOOLEAN]
  /\ tokens \in [Clients -> Int] /\ \A p \in Clients : tokens[p] <= Full
  /\ last \in [Clients -> 0..MaxClock]
  /\ at \in [Requests -> {None} \cup 0..MaxClock]
  /\ who \in [Requests -> Clients]
  /\ sweepAt \in {None} \cup 0..MaxClock
  /\ won \in [Clients -> Nat] /\ lastWon \in [Clients -> {None} \cup 0..MaxClock]

\* From any moment on, a client gets at most one full bucket and what flows
\* in since, at Rate or, if the bucket is too slow to fill before the sweeper
\* drops it, at a full bucket for the time it has to be idle: requests that
\* overtake each other on the way to the mutex let no more through
\* (ratelimit.go:38-72).
WindowBound ==
  \A p \in Clients :
    won[p] > 0 => won[p] * Scale <= Full + Yield * (clock - From)

\* A client is refused only while less than one token has flowed in since it
\* was last admitted: overtaking costs nobody its turn.
RefusedOnlyWhenSpent ==
  [][\A t \in Requests : Refuse(t) =>
       /\ lastWon[who[t]] # None
       /\ Rate * (at[t] - lastWon[who[t]]) < Scale]_vars

=============================================================================
