------------------------- MODULE RateLimiterProofs -------------------------
(***************************************************************************)
(* Proofs about RateLimiter, for all clients, rates, bursts and bounds:    *)
(* the window bound and that only a spent bucket refuses.                  *)
(*                                                                         *)
(* The potential of a bucket, tokens - Rate * last, is what each admission *)
(* lowers by a token and nothing raises, not even a clock that runs        *)
(* backwards from one request to the next. What a client gets beyond that  *)
(* is what the sweeper gives away: it is paid for by Yield - Rate, and by  *)
(* the time that has passed whatever the requests read from the clock.     *)
(***************************************************************************)
EXTENDS RateLimiter, TLAPS

\* Products of naturals are monotonic.
LEMMA Grows ==
  ASSUME NEW r \in Nat, NEW x \in Int, NEW y \in Int, x <= y
  PROVE  r * x <= r * y
  OBVIOUS

\* Products distribute over differences.
LEMMA Split ==
  ASSUME NEW r \in Int, NEW x \in Int, NEW y \in Int
  PROVE  r * (x - y) = r * x - r * y
  OBVIOUS

\* What Yield is worth beyond Rate grows with time.
LEMMA Gifts ==
  ASSUME NEW x \in Int, NEW y \in Int, x <= y
  PROVE  Yield * x - Rate * x <= Yield * y - Rate * y
<1>1. Yield - Rate \in Nat /\ Yield \in Nat /\ Rate \in Nat
  BY YieldAssumption, LimiterAssumption
<1>2. (Yield - Rate) * x <= (Yield - Rate) * y
  BY <1>1, Grows
<1>3. /\ (Yield - Rate) * x = Yield * x - Rate * x
      /\ (Yield - Rate) * y = Yield * y - Rate * y
  BY <1>1
<1> QED BY <1>2, <1>3

\* The rim of a bucket holds at least one token.
LEMMA FullType == Full \in Nat /\ Full >= Scale
<1>1. CASE Burst < 1
  BY <1>1, LimiterAssumption DEF Full
<1>2. CASE Burst >= 1
  <2>1. Burst \in Nat \ {0} /\ Full = Scale * Burst
    BY <1>2, LimiterAssumption DEF Full
  <2>2. Scale * 1 <= Scale * Burst
    BY <2>1, LimiterAssumption, Grows
  <2> QED BY <2>1, <2>2, LimiterAssumption
<1> QED BY <1>1, <1>2, LimiterAssumption

\* A request or the sweeper waits at most MaxWait for the mutex.
Fresh(t) == t # None => t <= clock /\ clock <= t + MaxWait

WaitInv == Fresh(sweepAt) /\ \A t \in Requests : Fresh(at[t])

\* What a bucket holds.
BucketInv ==
  \A p \in Clients : bucket[p] =>
    /\ last[p] <= clock
    /\ tokens[p] + Rate * clock - Rate * last[p] >= 0
    /\ tokens[p] + Rate * MaxWait >= 0
    /\ lastWon[p] # None
    /\ tokens[p] >= Rate * last[p] - Rate * lastWon[p]
    /\ won[p] > 0 =>
         /\ won[p] * Scale + tokens[p] - Rate * last[p]
              <= Full + Yield * clock - Rate * clock - Yield * From
         /\ won[p] * Scale + tokens[p]
              <= Full + Yield * last[p] + Yield * MaxWait - Rate * MaxWait - Yield * From

\* What the next bucket of a client may add to.
GoneInv ==
  \A p \in Clients : ~bucket[p] /\ won[p] > 0 =>
    /\ won[p] * Scale <= Yield * clock - Yield * From
    /\ \A t \in Requests : at[t] # None =>
         won[p] * Scale <= Yield * at[t] - Yield * From

LimiterInv == TypeOK /\ WaitInv /\ BucketInv /\ GoneInv

----------------------------------------------------------------------------
\* The first states satisfy the invariant.
LEMMA LimiterInit == ASSUME Init PROVE LimiterInv
<1>1. TypeOK
  BY FullType, LimiterAssumption DEF Init, TypeOK, None
<1> QED BY <1>1, LimiterAssumption DEF Init, LimiterInv, WaitInv, Fresh, BucketInv, GoneInv

\* The arithmetic of one request: what is left in the bucket of client p at
\* time now, before the decision.
LEMMA Fill ==
  ASSUME LimiterInv, NEW t \in Requests, at[t] # None
  PROVE  LET p == who[t]  now == at[t]  f == Filled(p, now)
         IN  /\ f \in Int /\ f <= Full
             /\ f + Rate * clock - Rate * now >= 0
             /\ f + Rate * MaxWait >= 0
             /\ won[p] > 0 => won[p] * Scale + f - Rate * now
                               <= Full + Yield * clock - Rate * clock - Yield * From
             /\ f < Scale => lastWon[p] # None /\ f >= Rate * now - Rate * lastWon[p]
<1> DEFINE p == who[t]
           now == at[t]
           f == Filled(p, now)
<1>1. /\ p \in Clients /\ now \in Nat /\ clock \in Nat
      /\ tokens[p] \in Int /\ last[p] \in Nat /\ won[p] \in Nat
      /\ lastWon[p] \in Int /\ tokens[p] <= Full
      /\ now <= clock /\ clock <= now + MaxWait
  BY LimiterAssumption DEF LimiterInv, TypeOK, WaitInv, Fresh, None
<1>2. /\ Full \in Nat /\ Full >= Scale /\ Rate \in Nat /\ MaxWait \in Nat
      /\ Scale \in Nat /\ From \in Nat /\ Yield \in Nat
  BY FullType, LimiterAssumption, YieldAssumption
\* The products, and how they compare.
<1>3. /\ Rate * now \in Int /\ Rate * clock \in Int /\ Rate * last[p] \in Int
      /\ Rate * MaxWait \in Nat /\ Yield * From \in Int
      /\ Yield * clock \in Int /\ Yield * now \in Int
      /\ Rate * lastWon[p] \in Int /\ won[p] * Scale \in Int
  BY <1>1, <1>2
<1>4. Rate * now <= Rate * clock
  BY <1>1, <1>2, Grows
<1>5. Rate * clock <= Rate * now + Rate * MaxWait
  <2>1. Rate * clock <= Rate * (now + MaxWait)
    BY <1>1, <1>2, Grows
  <2>2. Rate * (now + MaxWait) = Rate * now + Rate * MaxWait
    BY <1>1, <1>2
  <2> QED BY <2>1, <2>2
<1>6. Rate * (now - last[p]) = Rate * now - Rate * last[p]
  BY <1>1, <1>2, Split
<1>7. CASE bucket[p]
  <2> DEFINE x == tokens[p] + Rate * now - Rate * last[p]
  <2>1. x \in Int /\ f = IF x > Full THEN Full ELSE x
    BY <1>1, <1>2, <1>3, <1>6, <1>7 DEF Filled, Capped
  <2>2. /\ tokens[p] + Rate * clock - Rate * last[p] >= 0
        /\ lastWon[p] # None
        /\ tokens[p] >= Rate * last[p] - Rate * lastWon[p]
        /\ won[p] > 0 =>
             won[p] * Scale + tokens[p] - Rate * last[p]
               <= Full + Yield * clock - Rate * clock - Yield * From
    BY <1>1, <1>7 DEF LimiterInv, BucketInv
  <2> HIDE DEF p, now, f, x
  <2>3. f \in Int /\ f <= Full /\ f <= x
    BY <2>1, <1>2
  <2>4. f + Rate * clock - Rate * now >= 0
    BY <2>1, <2>2, <1>1, <1>2, <1>3, <1>4 DEF x
  <2>5. won[p] > 0 => won[p] * Scale + f - Rate * now
                         <= Full + Yield * clock - Rate * clock - Yield * From
    BY <2>2, <2>3, <1>1, <1>2, <1>3 DEF x
  <2>6. f < Scale => f >= Rate * now - Rate * lastWon[p]
    BY <2>1, <2>2, <1>1, <1>2, <1>3 DEF x
  <2>7. f + Rate * MaxWait >= 0
    BY <2>3, <2>4, <1>3, <1>5
  <2> QED BY <2>2, <2>3, <2>4, <2>5, <2>6, <2>7 DEF p, now, f
<1>8. CASE ~bucket[p]
  <2>1. f = Full
    BY <1>8 DEF Filled
  <2>2. won[p] > 0 => won[p] * Scale <= Yield * now - Yield * From
    BY <1>1, <1>8 DEF LimiterInv, GoneInv
  <2>2a. Yield * now - Rate * now <= Yield * clock - Rate * clock
    BY <1>1, Gifts
  <2> HIDE DEF p, now, f
  <2>3. won[p] > 0 => won[p] * Scale + f - Rate * now
                         <= Full + Yield * clock - Rate * clock - Yield * From
    BY <2>1, <2>2, <2>2a, <1>2, <1>3
  <2>4. f + Rate * clock - Rate * now >= 0 /\ f + Rate * MaxWait >= 0
    BY <2>1, <1>2, <1>3, <1>4
  <2> QED BY <2>1, <2>3, <2>4, <1>2 DEF p, now, f
<1> QED BY <1>7, <1>8

\* Every step preserves the invariant.
LEMMA LimiterStep ==
  ASSUME LimiterInv, [Next]_vars
  PROVE  LimiterInv'
<1> USE LimiterAssumption DEF buckets
<1>0. /\ clock \in Nat /\ Rate \in Nat /\ Full \in Nat /\ From \in Nat /\ MaxWait \in Nat
      /\ Scale \in Nat /\ Idle \in Nat /\ Full >= Scale /\ Yield \in Nat
  BY FullType, YieldAssumption DEF LimiterInv, TypeOK
<1>0a. \A p \in Clients : /\ tokens[p] \in Int /\ last[p] \in Nat /\ won[p] \in Nat
                          /\ lastWon[p] \in Int
  BY DEF LimiterInv, TypeOK, None
<1>1. CASE Tick
  <2>1. TypeOK'
    BY <1>1 DEF Tick, LimiterInv, TypeOK
  <2>2. WaitInv'
    BY <1>0, <1>1 DEF Tick, InTime, LimiterInv, WaitInv, Fresh, TypeOK, None
  <2>3. /\ Rate * clock <= Rate * clock' /\ Yield * clock <= Yield * clock'
        /\ Yield * clock - Rate * clock <= Yield * clock' - Rate * clock'
        /\ Rate * clock \in Int /\ Rate * clock' \in Int
        /\ Yield * clock \in Int /\ Yield * clock' \in Int
    BY <1>0, <1>1, Grows, Gifts DEF Tick
  <2>4. BucketInv'
    <3>1. SUFFICES ASSUME NEW p \in Clients, bucket[p]
                   PROVE  /\ last[p] <= clock'
                          /\ tokens[p] + Rate * clock' - Rate * last[p] >= 0
                          /\ won[p] > 0 => won[p] * Scale + tokens[p] - Rate * last[p]
                               <= Full + Yield * clock' - Rate * clock' - Yield * From
      BY <1>1 DEF Tick, LimiterInv, BucketInv
    <3>2. /\ last[p] <= clock /\ tokens[p] + Rate * clock - Rate * last[p] >= 0
          /\ won[p] > 0 => won[p] * Scale + tokens[p] - Rate * last[p]
               <= Full + Yield * clock - Rate * clock - Yield * From
      BY <3>1 DEF LimiterInv, BucketInv
    <3>3. Rate * last[p] \in Int /\ Yield * From \in Int /\ won[p] * Scale \in Int
      BY <1>0, <1>0a
    <3> QED BY <3>2, <3>3, <2>3, <1>0, <1>0a, <1>1 DEF Tick
  <2>5. GoneInv'
    <3>1. SUFFICES ASSUME NEW p \in Clients, ~bucket[p], won[p] > 0
                   PROVE  won[p] * Scale <= Yield * clock' - Yield * From
      BY <1>1 DEF Tick, LimiterInv, GoneInv
    <3>2. won[p] * Scale <= Yield * clock - Yield * From
      BY <3>1 DEF LimiterInv, GoneInv
    <3>3. won[p] * Scale \in Int /\ Yield * From \in Int
      BY <1>0, <1>0a
    <3> QED BY <3>2, <3>3, <2>3
  <2> QED BY <2>1, <2>2, <2>4, <2>5 DEF LimiterInv
<1>2. CASE SweepTick
  <2>1. TypeOK'
    BY <1>2 DEF SweepTick, LimiterInv, TypeOK
  <2>2. WaitInv'
    BY <1>0, <1>2 DEF SweepTick, LimiterInv, WaitInv, Fresh, TypeOK, None
  <2>3. BucketInv' /\ GoneInv'
    BY <1>2 DEF SweepTick, LimiterInv, BucketInv, GoneInv
  <2> QED BY <2>1, <2>2, <2>3 DEF LimiterInv
<1>3. CASE Sweep
  <2>1. TypeOK'
    BY <1>0, <1>3 DEF Sweep, LimiterInv, TypeOK
  <2>2. WaitInv'
    BY <1>3 DEF Sweep, LimiterInv, WaitInv, Fresh, None
  <2>3. BucketInv'
    BY <1>3 DEF Sweep, LimiterInv, BucketInv, TypeOK
  <2>4. GoneInv'
    <3>1. SUFFICES ASSUME NEW p \in Clients, ~bucket'[p], won[p] > 0
                   PROVE  /\ won[p] * Scale <= Yield * clock - Yield * From
                          /\ \A t \in Requests : at[t] # None =>
                               won[p] * Scale <= Yield * at[t] - Yield * From
      BY <1>3 DEF Sweep, GoneInv
    <3>2. CASE ~bucket[p]
      BY <3>1, <3>2 DEF LimiterInv, GoneInv
    <3>3. CASE bucket[p]
      \* The bucket was idle for so long that Yield pays for a full one.
      <4>1. last[p] < sweepAt - Idle /\ sweepAt \in Nat /\ sweepAt <= clock
        BY <3>1, <3>3, <1>3 DEF Sweep, Stale, LimiterInv, TypeOK, WaitInv, Fresh, None
      <4>2. /\ won[p] * Scale + tokens[p]
                 <= Full + Yield * last[p] + Yield * MaxWait - Rate * MaxWait - Yield * From
            /\ tokens[p] + Rate * MaxWait >= 0
        BY <3>1, <3>3 DEF LimiterInv, BucketInv
      <4>3. ASSUME NEW x \in Nat, sweepAt <= x + MaxWait
            PROVE  won[p] * Scale <= Yield * x - Yield * From
        <5>1. last[p] + Idle <= x + MaxWait
          BY <4>1, <4>3, <1>0, <1>0a
        <5>2. Yield * (last[p] + Idle) <= Yield * (x + MaxWait)
          BY <5>1, <1>0, <1>0a, Grows
        <5>3. /\ Yield * (last[p] + Idle) = Yield * last[p] + Yield * Idle
              /\ Yield * (x + MaxWait) = Yield * x + Yield * MaxWait
          BY <1>0, <1>0a
        <5>4. Full + Yield * MaxWait + Yield * MaxWait <= Yield * Idle
          <6>1. 2 * Yield * MaxWait = Yield * MaxWait + Yield * MaxWait
            BY <1>0
          <6> QED BY <6>1, YieldAssumption, <1>0
        <5>5. /\ Yield * last[p] \in Int /\ Yield * Idle \in Int /\ Yield * x \in Int
              /\ Yield * MaxWait \in Int /\ Yield * From \in Int
              /\ Rate * MaxWait \in Int /\ won[p] * Scale \in Int
          BY <1>0, <1>0a
        <5> QED BY <5>2, <5>3, <5>4, <5>5, <4>2, <1>0, <1>0a
      <4>4. sweepAt <= clock + MaxWait
        BY <4>1, <1>0
      <4>5. \A t \in Requests : at[t] # None =>
              at[t] \in Nat /\ sweepAt <= at[t] + MaxWait
        BY <4>1, <1>0 DEF LimiterInv, TypeOK, WaitInv, Fresh, None
      <4> QED BY <4>3, <4>4, <4>5, <1>0
    <3> QED BY <3>2, <3>3
  <2> QED BY <2>1, <2>2, <2>3, <2>4 DEF LimiterInv
<1>4. ASSUME NEW t \in Requests, NEW p \in Clients, Arrive(t, p)
      PROVE  LimiterInv'
  <2>1. TypeOK'
    BY <1>4 DEF Arrive, LimiterInv, TypeOK
  <2>2. WaitInv'
    BY <1>0, <1>4 DEF Arrive, LimiterInv, WaitInv, Fresh, TypeOK, None
  <2>3. BucketInv'
    BY <1>4 DEF Arrive, LimiterInv, BucketInv
  <2>4. GoneInv'
    BY <1>4 DEF Arrive, LimiterInv, GoneInv, TypeOK
  <2> QED BY <2>1, <2>2, <2>3, <2>4 DEF LimiterInv
<1>5. ASSUME NEW t \in Requests, Admit(t) \/ Refuse(t)
      PROVE  LimiterInv'
  <2> DEFINE p == who[t]
             now == at[t]
             f == Filled(p, now)
             Spent == Full + Yield * clock - Rate * clock - Yield * From
  <2>1. /\ p \in Clients /\ now \in 0..MaxClock /\ at[t] # None
        /\ now <= clock /\ clock <= now + MaxWait
    BY <1>5 DEF Admit, Refuse, Enter, LimiterInv, TypeOK, WaitInv, Fresh, None
  <2>2. /\ f \in Int /\ f <= Full
        /\ f + Rate * clock - Rate * now >= 0
        /\ f + Rate * MaxWait >= 0
        /\ won[p] > 0 => won[p] * Scale + f - Rate * now <= Spent
        /\ f < Scale => lastWon[p] # None /\ f >= Rate * now - Rate * lastWon[p]
    BY <2>1, Fill
  <2>3. /\ Rate * now \in Int /\ Rate * clock \in Int /\ Rate * MaxWait \in Nat
        /\ Rate * From \in Int /\ won[p] * Scale \in Int /\ Spent \in Int
        /\ Rate * now <= Rate * clock
    BY <1>0, <1>0a, <2>1, Grows
  <2>4. PICK left \in Int :
          /\ left <= Full
          /\ left + Rate * clock - Rate * now >= 0
          /\ left + Rate * MaxWait >= 0
          /\ won'[p] \in Nat
          /\ won'[p] > 0 => won'[p] * Scale + left - Rate * now <= Spent
          /\ lastWon'[p] \in 0..MaxClock
          /\ left >= Rate * now - Rate * lastWon'[p]
          /\ Enter(t, left)
          /\ won' = [won EXCEPT ![p] = won'[p]]
          /\ lastWon' = [lastWon EXCEPT ![p] = lastWon'[p]]
    <3>1. CASE Admit(t)
      <4>1. /\ f >= Scale /\ Enter(t, f - Scale) /\ lastWon'[p] = now
            /\ won'[p] = (IF now >= From THEN won[p] + 1 ELSE won[p])
            /\ won' = [won EXCEPT ![p] = won'[p]]
            /\ lastWon' = [lastWon EXCEPT ![p] = lastWon'[p]]
        BY <3>1, <2>1 DEF Admit, LimiterInv, TypeOK
      <4>2. now >= From => Full - Rate * now <= Spent
        <5>1. SUFFICES ASSUME now >= From PROVE Full - Rate * now <= Spent
          OBVIOUS
        <5>2. /\ Yield * From - Rate * From <= Yield * now - Rate * now
              /\ Yield * now - Rate * now <= Yield * clock - Rate * clock
              /\ Rate * From <= Rate * now
          <6>1. From \in Int /\ now \in Int /\ clock \in Int /\ Rate \in Nat
                /\ From <= now /\ now <= clock
            BY <1>0, <1>0a, <2>1, <5>1
          <6> HIDE DEF now
          <6>2. Yield * From - Rate * From <= Yield * now - Rate * now
            BY <6>1, Gifts
          <6>3. Yield * now - Rate * now <= Yield * clock - Rate * clock
            BY <6>1, Gifts
          <6>4. Rate * From <= Rate * now
            BY <6>1, Grows
          <6> QED BY <6>2, <6>3, <6>4
        <5>3. /\ Yield * From \in Int /\ Yield * now \in Int /\ Yield * clock \in Int
              /\ Rate * From \in Int /\ Rate * now \in Int /\ Rate * clock \in Int
          BY <1>0, <2>1
        <5> QED BY <5>2, <5>3, <1>0
      <4>3. (won[p] + 1) * Scale = won[p] * Scale + Scale
        BY <1>0, <1>0a, <2>1
      <4>4. won[p] = 0 => won[p] * Scale = 0
        BY <1>0
      <4>5. won[p] \in Nat
        BY <1>0a, <2>1
      <4> HIDE DEF p, now, f, Spent
      <4>6. won'[p] > 0 =>
              won'[p] * Scale + (f - Scale) - Rate * now <= Spent
        <5>1. CASE now >= From
          <6>1. won'[p] * Scale = won[p] * Scale + Scale
            BY <4>1, <4>3, <5>1
          <6>2. CASE won[p] > 0
            BY <6>1, <6>2, <2>2, <2>3, <1>0
          <6>3. CASE won[p] = 0
            BY <6>1, <6>3, <4>2, <4>4, <5>1, <2>2, <2>3, <1>0
          <6> QED BY <6>2, <6>3, <4>5
        <5>2. CASE ~(now >= From)
          BY <4>1, <5>2, <2>2, <2>3, <1>0
        <5> QED BY <5>1, <5>2
      <4>5a. f - Scale \in Int
        BY <2>2, <1>0
      <4> USE <4>5a
      <4> WITNESS f - Scale \in Int
      <4>7. won'[p] \in Nat
        BY <4>1, <4>5
      <4>8. lastWon'[p] \in 0..MaxClock
        BY <4>1, <2>1
      <4>9. /\ f - Scale <= Full
            /\ f - Scale + Rate * clock - Rate * now >= 0
            /\ f - Scale + Rate * MaxWait >= 0
        BY <4>1, <2>2, <2>3, <1>0
      <4>10. f - Scale >= Rate * now - Rate * lastWon'[p]
        BY <4>1, <2>2, <2>3, <1>0
      <4> QED BY <4>1, <4>6, <4>7, <4>8, <4>9, <4>10
    <3>2. CASE Refuse(t)
      <4>1. /\ f < Scale /\ Enter(t, f) /\ UNCHANGED <<won, lastWon>>
        BY <3>2 DEF Refuse
      <4>2. /\ won' = [won EXCEPT ![p] = won'[p]]
            /\ lastWon' = [lastWon EXCEPT ![p] = lastWon'[p]]
            /\ lastWon'[p] \in 0..MaxClock
        BY <4>1, <2>1, <2>2 DEF LimiterInv, TypeOK
      <4>3. won'[p] \in Nat
        BY <4>1, <2>1, <1>0a
      <4> HIDE DEF p, now, f, Spent
      <4> QED BY <2>2, <4>1, <4>2, <4>3
    <3> QED BY <1>5, <3>1, <3>2
  <2> HIDE DEF f, Spent
  <2>5. /\ at' = [at EXCEPT ![t] = None]
        /\ bucket' = [bucket EXCEPT ![p] = TRUE]
        /\ last' = [last EXCEPT ![p] = now]
        /\ tokens' = [tokens EXCEPT ![p] = left]
        /\ UNCHANGED <<clock, who, sweepAt>>
    BY <2>4 DEF Enter
  <2>6. TypeOK'
    BY <2>1, <2>4, <2>5 DEF LimiterInv, TypeOK
  <2>7. WaitInv'
    BY <2>5 DEF LimiterInv, WaitInv, Fresh, TypeOK
  <2>8. BucketInv'
    <3>1. SUFFICES ASSUME NEW q \in Clients, bucket'[q]
                   PROVE  /\ last'[q] <= clock'
                          /\ tokens'[q] + Rate * clock' - Rate * last'[q] >= 0
                          /\ tokens'[q] + Rate * MaxWait >= 0
                          /\ lastWon'[q] # None
                          /\ tokens'[q] >= Rate * last'[q] - Rate * lastWon'[q]
                          /\ won'[q] > 0 =>
                               /\ won'[q] * Scale + tokens'[q] - Rate * last'[q]
                                    <= Full + Yield * clock' - Rate * clock' - Yield * From
                               /\ won'[q] * Scale + tokens'[q]
                                    <= Full + Yield * last'[q] + Yield * MaxWait
                                         - Rate * MaxWait - Yield * From
      BY DEF BucketInv
    <3>2. CASE q = p
      <4>1. last'[q] = now /\ tokens'[q] = left /\ clock' = clock
        BY <2>1, <2>5, <3>2 DEF LimiterInv, TypeOK
      <4>2. lastWon'[p] # None
        BY <2>4 DEF None
      \* The request read the clock at most MaxWait ago.
      <4>3. won'[p] > 0 => won'[p] * Scale + left
                             <= Full + Yield * now + Yield * MaxWait - Rate * MaxWait - Yield * From
        <5>1. Yield * clock - Rate * clock <= Yield * (now + MaxWait) - Rate * (now + MaxWait)
          BY <1>0, <2>1, Gifts
        <5>2. /\ Yield * (now + MaxWait) = Yield * now + Yield * MaxWait
              /\ Rate * (now + MaxWait) = Rate * now + Rate * MaxWait
          BY <1>0, <2>1
        <5>3. /\ Yield * clock \in Int /\ Yield * now \in Int /\ Yield * MaxWait \in Int
              /\ Rate * clock \in Int /\ Rate * now \in Int /\ Rate * MaxWait \in Int
              /\ Yield * From \in Int /\ won'[p] * Scale \in Int /\ left \in Int
          BY <1>0, <2>1, <2>4
        <5> HIDE DEF p, now
        <5> QED BY <5>1, <5>2, <5>3, <2>4, <1>0 DEF Spent
      <4> QED BY <4>1, <4>2, <4>3, <2>1, <2>4, <3>2 DEF Spent
    <3>3. CASE q # p
      <4>1. /\ bucket[q] /\ last'[q] = last[q] /\ tokens'[q] = tokens[q]
            /\ clock' = clock /\ won'[q] = won[q] /\ lastWon'[q] = lastWon[q]
        BY <2>1, <2>4, <2>5, <3>1, <3>3 DEF LimiterInv, TypeOK
      <4> QED BY <4>1 DEF LimiterInv, BucketInv
    <3> QED BY <3>2, <3>3
  <2>9. GoneInv'
    <3>1. \A q \in Clients : ~bucket'[q] => ~bucket[q] /\ won'[q] = won[q]
      BY <2>1, <2>4, <2>5 DEF LimiterInv, TypeOK
    <3>2. \A u \in Requests : at'[u] # None => at'[u] = at[u]
      BY <2>5 DEF LimiterInv, TypeOK
    <3> QED BY <3>1, <3>2, <2>5 DEF LimiterInv, GoneInv
  <2> QED BY <2>6, <2>7, <2>8, <2>9 DEF LimiterInv
<1>6. CASE UNCHANGED vars
  BY <1>6 DEF vars, LimiterInv, TypeOK, WaitInv, Fresh, BucketInv, GoneInv
<1> QED BY <1>1, <1>2, <1>3, <1>4, <1>5, <1>6 DEF Next

\* LimiterInv holds in every reachable state.
LEMMA LimiterInvariant == Spec => []LimiterInv
<1>1. Init => LimiterInv
  BY LimiterInit
<1>2. LimiterInv /\ [Next]_vars => LimiterInv'
  BY LimiterStep
<1> QED BY <1>1, <1>2, PTL DEF Spec

\* Type correctness, a bucket's rim included.
THEOREM LimiterTypeCorrect == Spec => []TypeOK
<1>1. LimiterInv => TypeOK
  BY DEF LimiterInv
<1> QED BY <1>1, LimiterInvariant, PTL

\* For any rate and burst, what a client gets from any moment on is a full bucket
\* and what flows in at Rate, or at a full bucket for the time it has to be idle
\* if that is more (ratelimit.go:38-72).
THEOREM Limited == Spec => []WindowBound
<1>1. LimiterInv => WindowBound
  <2>1. SUFFICES ASSUME LimiterInv, NEW p \in Clients, won[p] > 0
                 PROVE  won[p] * Scale <= Full + Yield * (clock - From)
    BY DEF WindowBound
  <2>2. /\ clock \in Nat /\ tokens[p] \in Int /\ last[p] \in Nat /\ won[p] \in Nat
        /\ Full \in Nat /\ Rate \in Nat /\ From \in Nat /\ Scale \in Nat /\ Yield \in Nat
    BY <2>1, FullType, LimiterAssumption, YieldAssumption DEF LimiterInv, TypeOK
  <2>3. /\ Rate * clock \in Int /\ Yield * From \in Int /\ Rate * last[p] \in Int
        /\ Yield * clock \in Int /\ won[p] * Scale \in Int
        /\ Yield * (clock - From) = Yield * clock - Yield * From
    BY <2>2, Split
  <2>4. CASE bucket[p]
    <3>1. /\ tokens[p] + Rate * clock - Rate * last[p] >= 0
          /\ won[p] * Scale + tokens[p] - Rate * last[p]
               <= Full + Yield * clock - Rate * clock - Yield * From
      BY <2>1, <2>4 DEF LimiterInv, BucketInv
    <3> QED BY <3>1, <2>2, <2>3
  <2>5. CASE ~bucket[p]
    <3>1. won[p] * Scale <= Yield * clock - Yield * From
      BY <2>1, <2>5 DEF LimiterInv, GoneInv
    <3> QED BY <3>1, <2>2, <2>3
  <2> QED BY <2>4, <2>5
<1> QED BY <1>1, LimiterInvariant, PTL

\* Only a spent bucket refuses.
THEOREM RefusalsEarned == Spec => RefusedOnlyWhenSpent
<1>1. LimiterInv =>
        \A t \in Requests : Refuse(t) =>
          /\ lastWon[who[t]] # None
          /\ Rate * (at[t] - lastWon[who[t]]) < Scale
  <2>1. SUFFICES ASSUME LimiterInv, NEW t \in Requests, Refuse(t)
                 PROVE  /\ lastWon[who[t]] # None
                        /\ Rate * (at[t] - lastWon[who[t]]) < Scale
    OBVIOUS
  <2> DEFINE f == Filled(who[t], at[t])
  <2>2. at[t] # None /\ f < Scale
    BY <2>1 DEF Refuse, Enter
  <2>3. /\ f \in Int /\ lastWon[who[t]] # None
        /\ f >= Rate * at[t] - Rate * lastWon[who[t]]
    BY <2>1, <2>2, Fill
  <2>4. /\ at[t] \in Int /\ lastWon[who[t]] \in Int /\ Rate \in Int /\ Scale \in Int
    BY <2>1, LimiterAssumption DEF LimiterInv, TypeOK, None
  <2>5. Rate * (at[t] - lastWon[who[t]]) = Rate * at[t] - Rate * lastWon[who[t]]
    BY <2>4, Split
  <2>6. Rate * at[t] \in Int /\ Rate * lastWon[who[t]] \in Int
    BY <2>4
  <2> HIDE DEF f
  <2> QED BY <2>2, <2>3, <2>4, <2>5, <2>6
<1> QED BY <1>1, LimiterInvariant, PTL DEF RefusedOnlyWhenSpent

=============================================================================
