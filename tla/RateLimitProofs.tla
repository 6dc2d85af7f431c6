--------------------------- MODULE RateLimitProofs ---------------------------
(***************************************************************************)
(* The rate limiter never gives a client a second bucket, and its evicting *)
(* map behaves like one everlasting bucket per client, for any number of   *)
(* clients and handlers and all values of the limits that satisfy          *)
(* LimiterAssumption.                                                      *)
(***************************************************************************)
EXTENDS RateLimit, TLAPS

\* A request that waits was seen recently, and so was its bucket.
FoundInv ==
  \A q \in found :
    /\ q.ip \in present
    /\ q.at <= lastSeen[q.ip]
    /\ now - q.at <= MaxStall

\* No time lies in the future, and no token is taken long after the request
\* that takes it was last seen.
TimeInv ==
  /\ sweepNow <= now
  /\ \A ip \in IPs : last[ip] <= now /\ lastSeen[ip] <= now
  /\ \A ip \in present : last[ip] <= lastSeen[ip] + MaxStall

Inv == TypeOK /\ FoundInv /\ TimeInv

-----------------------------------------------------------------------------
\* The refilled level of a bucket lies between 0 and Burst.
LEMMA RefilledType ==
  ASSUME TypeOK, TimeInv, NEW ip \in IPs
  PROVE  Refilled(ip) \in 0 .. Burst
  BY LimiterAssumption DEF TypeOK, TimeInv, Refilled

\* The limiter starts with no bucket, no request and no time elapsed.
LEMMA InitInv == Init => Inv
  BY LimiterAssumption DEF Init, Inv, TypeOK, FoundInv, TimeInv, NotSweeping

\* allow's first half: the bucket it hands to the request is in the map and was
\* seen just now.
LEMMA FindBucketInv ==
  ASSUME Inv, NEW r \in Requests, NEW ip \in IPs, FindBucket(r, ip)
  PROVE  Inv'
  <1> USE LimiterAssumption
  <1>1. TypeOK'
    BY DEF Inv, TypeOK, FindBucket, AddIfMissing, Touch, NotSweeping
  <1>2. FoundInv'
    BY DEF Inv, TypeOK, FoundInv, TimeInv, FindBucket, AddIfMissing, Touch
  <1>3. TimeInv'
    BY DEF Inv, TypeOK, TimeInv, FindBucket, AddIfMissing, Touch
  <1> QED BY <1>1, <1>2, <1>3 DEF Inv

\* allow's second half: at most MaxStall after its bucket was last seen.
LEMMA TakeTokenInv ==
  ASSUME Inv, NEW q \in found, TakeToken(q)
  PROVE  Inv'
  <1> USE LimiterAssumption
  <1>0. q.ip \in IPs /\ q.by \in Requests /\ q.at \in Nat
    BY DEF Inv, TypeOK
  <1>1. TypeOK'
    <2>1. Refilled(q.ip) \in 0 .. Burst
      BY <1>0, RefilledType DEF Inv
    <2>2. HasToken(q.ip) => Refilled(q.ip) - 1 \in 0 .. Burst
      BY <2>1 DEF HasToken
    <2> QED BY <1>0, <2>2 DEF Inv, TypeOK, TakeToken
  <1>2. FoundInv'
    BY DEF Inv, TypeOK, FoundInv, TakeToken
  <1>3. TimeInv'
    <2>1. now <= lastSeen[q.ip] + MaxStall
      BY <1>0 DEF Inv, TypeOK, FoundInv
    <2> QED BY <1>0, <2>1 DEF Inv, TypeOK, TimeInv, TakeToken
  <1> QED BY <1>1, <1>2, <1>3 DEF Inv

\* The sweep spares the bucket of every request that waits for a token.
LEMMA EvictIdleInv ==
  ASSUME Inv, EvictIdle
  PROVE  Inv'
  <1> USE LimiterAssumption
  <1>1. TypeOK'
    BY DEF Inv, TypeOK, EvictIdle
  <1>2. FoundInv'
    <2>1. ASSUME NEW q \in found
          PROVE  ~Idle(q.ip)
      <3>1. q.ip \in IPs /\ q.at \in Nat /\ lastSeen[q.ip] \in Nat /\ sweepNow \in Int /\ now \in Nat
        BY DEF Inv, TypeOK, NotSweeping
      <3>2. now - q.at <= MaxStall /\ q.at <= lastSeen[q.ip] /\ sweepNow <= now
        BY DEF Inv, FoundInv, TimeInv
      <3> QED BY <3>1, <3>2 DEF Idle
    <2> QED BY <2>1 DEF Inv, FoundInv, EvictIdle
  <1>3. TimeInv'
    BY DEF Inv, TypeOK, TimeInv, EvictIdle, NotSweeping
  <1> QED BY <1>1, <1>2, <1>3 DEF Inv

\* The passing of time, the sweep's reading of the clock, and stuttering.
LEMMA ClockInv ==
  ASSUME Inv, Tick \/ ReadClock \/ UNCHANGED vars
  PROVE  Inv'
  <1> USE LimiterAssumption
  <1>1. CASE Tick
    BY <1>1 DEF Inv, TypeOK, FoundInv, TimeInv, Tick, buckets, NotSweeping
  <1>2. CASE ReadClock
    BY <1>2 DEF Inv, TypeOK, FoundInv, TimeInv, ReadClock, buckets, NotSweeping
  <1>3. CASE UNCHANGED vars
    BY <1>3 DEF Inv, TypeOK, FoundInv, TimeInv, vars
  <1> QED BY <1>1, <1>2, <1>3

\* Every step of the limiter keeps the invariant.
LEMMA StepInv == Inv /\ [Next]_vars => Inv'
  <1> SUFFICES ASSUME Inv, [Next]_vars PROVE Inv'
    OBVIOUS
  <1> QED BY FindBucketInv, TakeTokenInv, EvictIdleInv, ClockInv DEF Next

\* The strengthened invariant holds throughout.
LEMMA InvHolds == Spec => []Inv
  BY InitInv, StepInv, PTL DEF Spec

-----------------------------------------------------------------------------
\* Every bucket always holds between 0 and Burst tokens.
THEOREM TypeCorrect == Spec => []TypeOK
  <1>1. Inv => TypeOK
    BY DEF Inv
  <1> QED BY <1>1, InvHolds, PTL

\* A request that has looked up its bucket takes the token from the bucket that
\* the map still holds, whatever the sweep does in between.
THEOREM OneBucketPerClientHolds == Spec => []OneBucketPerClient
  <1>1. Inv => OneBucketPerClient
    BY DEF Inv, FoundInv, OneBucketPerClient
  <1> QED BY <1>1, InvHolds, PTL

-----------------------------------------------------------------------------
\* The mapped level of each bucket lies between 0 and Burst.
LEMMA LevelType ==
  ASSUME Inv, NEW ip \in IPs
  PROVE  Level(ip) \in 0 .. Burst
  BY RefilledType, LimiterAssumption DEF Inv, Level

\* Looking a bucket up, and creating it full, changes no level.
LEMMA FindBucketStutters ==
  ASSUME Inv, Inv', NEW r \in Requests, NEW jp \in IPs, FindBucket(r, jp), NEW ip \in IPs
  PROVE  Level(ip)' = Level(ip)
  <1> USE LimiterAssumption
  <1>1. CASE jp \in present
    BY <1>1 DEF Inv, TypeOK, FindBucket, AddIfMissing, Level, Refilled
  <1>2. CASE jp \notin present
    BY <1>2 DEF Inv, TypeOK, FindBucket, AddIfMissing, Level, Refilled
  <1> QED BY <1>1, <1>2

\* A bucket that the sweep may forget has become full.
LEMMA EvictIdleStutters ==
  ASSUME Inv, EvictIdle, NEW ip \in IPs
  PROVE  Level(ip)' = Level(ip)
  <1> USE LimiterAssumption
  <1>1. Refilled(ip)' = Refilled(ip)
    BY DEF EvictIdle, Refilled
  <1>2. ASSUME ip \in present, Idle(ip)
        PROVE  Refilled(ip) = Burst
    <2>1. /\ now \in Nat /\ sweepNow \in Int /\ tokens[ip] \in Nat
          /\ last[ip] \in Nat /\ lastSeen[ip] \in Nat
      BY DEF Inv, TypeOK, NotSweeping
    <2>2. last[ip] <= lastSeen[ip] + MaxStall /\ sweepNow <= now
      BY <1>2 DEF Inv, TimeInv
    <2>3. now - last[ip] >= Burst
      BY <1>2, <2>1, <2>2 DEF Idle
    <2> QED BY <2>1, <2>3 DEF Refilled
  <1> QED BY <1>1, <1>2 DEF EvictIdle, Level

\* A unit of time refills every bucket, in the map or not, by one token.
LEMMA TickRefills ==
  ASSUME Inv, Tick, NEW ip \in IPs
  PROVE  Level(ip)' = IF Level(ip) < Burst THEN Level(ip) + 1 ELSE Burst
  <1> USE LimiterAssumption
  <1>1. /\ now \in Nat /\ tokens[ip] \in 0 .. Burst /\ last[ip] \in Nat /\ last[ip] <= now
    BY DEF Inv, TypeOK, TimeInv
  <1>2. /\ now' = now + 1 /\ present' = present /\ tokens' = tokens /\ last' = last
    BY DEF Tick, buckets
  <1> QED BY <1>1, <1>2 DEF Level, Refilled

\* Taking a token, or finding none, is a step of the everlasting bucket.
LEMMA TakeTokenTakes ==
  ASSUME Inv, NEW q \in found, TakeToken(q)
  PROVE  Abstract!Grant(q.by, q.ip) \/ Abstract!Deny(q.by, q.ip)
  <1> USE LimiterAssumption
  <1>0. q.ip \in IPs /\ q.by \in Requests /\ q.ip \in present
    BY DEF Inv, TypeOK, FoundInv
  <1>1. Refilled(q.ip) \in 0 .. Burst
    BY <1>0, RefilledType DEF Inv
  <1>2. Level(q.ip) = Refilled(q.ip)
    BY <1>0 DEF Level
  <1>3. now' = now /\ present' = present
    BY DEF TakeToken
  <1>4. CASE HasToken(q.ip)
    <2>1. /\ tokens' = [tokens EXCEPT ![q.ip] = Refilled(q.ip) - 1]
          /\ last' = [last EXCEPT ![q.ip] = now]
          /\ answer' = [answer EXCEPT ![q.by] = "granted"]
      BY <1>4 DEF TakeToken
    <2>2. Level(q.ip)' = Level(q.ip) - 1
      BY <1>0, <1>1, <1>2, <1>3, <2>1 DEF Inv, TypeOK, Level, Refilled
    <2>3. \A ip \in IPs \ {q.ip} : Level(ip)' = Level(ip)
      BY <1>3, <2>1 DEF Inv, TypeOK, Level, Refilled
    <2> QED BY <1>0, <1>2, <1>4, <2>1, <2>2, <2>3 DEF HasToken, Abstract!Grant
  <1>5. CASE ~HasToken(q.ip)
    <2>1. /\ tokens' = tokens /\ last' = last
          /\ answer' = [answer EXCEPT ![q.by] = "denied"]
      BY <1>5 DEF TakeToken
    <2>2. \A ip \in IPs : Level(ip)' = Level(ip)
      BY <1>3, <2>1 DEF Level, Refilled
    <2>3. Level(q.ip) = 0
      BY <1>1, <1>2, <1>5 DEF HasToken
    <2>4. [ip \in IPs |-> Level(ip)]' = [ip \in IPs |-> Level(ip)]
      BY <2>2
    <2> QED BY <1>0, <2>1, <2>3, <2>4 DEF Abstract!Deny
  <1> QED BY <1>4, <1>5

\* The map of buckets that are created and evicted lets through exactly the
\* requests that one everlasting bucket per client lets through.
THEOREM ImplementsTokenBucketHolds == Spec => ImplementsTokenBucket
  <1>1. Init => Abstract!Init
    BY DEF Init, Abstract!Init, Level
  <1>2. Inv /\ Inv' /\ [Next]_vars => [Abstract!Next]_(Abstract!vars)
    <2> SUFFICES ASSUME Inv, Inv', [Next]_vars
                 PROVE  [Abstract!Next]_(Abstract!vars)
      OBVIOUS
    <2>1. CASE Tick
      <3>1. answer' = answer
        BY <2>1 DEF Tick
      <3> QED BY <2>1, <3>1, TickRefills DEF Abstract!Next, Abstract!Refill
    <2>2. CASE ReadClock
      BY <2>2 DEF ReadClock, buckets, Level, Refilled, Abstract!vars
    <2>3. CASE EvictIdle
      <3>1. answer' = answer
        BY <2>3 DEF EvictIdle
      <3> QED BY <2>3, <3>1, EvictIdleStutters DEF Abstract!vars
    <2>4. ASSUME NEW q \in found, TakeToken(q)
          PROVE  Abstract!Next
      <3>1. q.ip \in IPs /\ q.by \in Requests
        BY DEF Inv, TypeOK
      <3> QED BY <2>4, <3>1, TakeTokenTakes DEF Abstract!Next
    <2>5. ASSUME NEW r \in Requests, NEW jp \in IPs, FindBucket(r, jp)
          PROVE  UNCHANGED Abstract!vars
      <3>1. answer' = answer
        BY <2>5 DEF FindBucket
      <3> QED BY <2>5, <3>1, FindBucketStutters DEF Abstract!vars
    <2>6. CASE UNCHANGED vars
      BY <2>6 DEF vars, Level, Refilled, Abstract!vars
    <2> QED BY <2>1, <2>2, <2>3, <2>4, <2>5, <2>6 DEF Next
  <1> QED BY <1>1, <1>2, InvHolds, PTL DEF Spec, ImplementsTokenBucket, Abstract!Spec
=============================================================================
