------------------------------ MODULE RateLimit ------------------------------
(***************************************************************************)
(* The per-client rate limiter (internal/server/ratelimit.go): a map from  *)
(* client address to token bucket, whose idle entries a background sweep   *)
(* evicts.  allow holds the mutex only to find or create the bucket; the   *)
(* token is taken afterwards, and the sweep reads the clock before it      *)
(* locks.  The unit of time is the time in which a bucket gains a token    *)
(* (1 s in the code); fractions of a token are left out.                   *)
(***************************************************************************)
EXTENDS Integers

CONSTANTS
  IPs,        \* client addresses, as resolveClientIP returns them
  Requests,   \* request handlers
  Burst,      \* defaultRateLimitBurst (5)
  IdleEvict,  \* rateLimitIdleEvict (10 min, that is 600)
  MaxStall,   \* bound: the scheduler's delay between two steps of allow
  MaxTime     \* bound: length of a behaviour

\* A bucket that has been left alone for IdleEvict is full again, even if the
\* last taker was delayed.
ASSUME LimiterAssumption ==
  /\ Burst \in Nat \ {0} /\ IdleEvict \in Nat /\ MaxStall \in Nat /\ MaxTime \in Nat
  /\ MaxStall + Burst <= IdleEvict

VARIABLES
  now,
  present,    \* the addresses that have an entry in the map
  tokens,     \* Limiter: the tokens left when a token was last taken
  last,       \*          and the time of that
  lastSeen,   \* the entry's lastSeen
  found,      \* the requests between the two steps of allow: the handler, the
              \* address, and the time at which its bucket was looked up
  answer,     \* what allow returned last
  sweepNow    \* the time the sweep has read, or NotSweeping

vars == <<now, present, tokens, last, lastSeen, found, answer, sweepNow>>
buckets == <<present, tokens, last, lastSeen>>

NotSweeping == -1

TypeOK ==
  /\ now \in Nat
  /\ present \in SUBSET IPs
  /\ tokens \in [IPs -> 0 .. Burst]
  /\ last \in [IPs -> Nat]
  /\ lastSeen \in [IPs -> Nat]
  /\ found \in SUBSET [by : Requests, ip : IPs, at : Nat]
  /\ answer \in [Requests -> {"none", "granted", "denied"}]
  /\ sweepNow \in Nat \cup {NotSweeping}

Init ==
  /\ now = 0
  /\ present = {}
  /\ tokens = [ip \in IPs |-> Burst]
  /\ last = [ip \in IPs |-> 0]
  /\ lastSeen = [ip \in IPs |-> 0]
  /\ found = {}
  /\ answer = [r \in Requests |-> "none"]
  /\ sweepNow = NotSweeping

-----------------------------------------------------------------------------
\* rate.Limiter: the tokens of a bucket at the present moment.
Refilled(ip) ==
  LET t == tokens[ip] + (now - last[ip]) IN IF t > Burst THEN Burst ELSE t

AddFreshAlways(ip) ==   \* mutant: the lookup is outside the lock
  /\ present' = present \cup {ip}
  /\ tokens' = [tokens EXCEPT ![ip] = Burst]
  /\ last' = [last EXCEPT ![ip] = now]

AddOnTop(ip) ==   \* mutant: the evicted bucket's tokens are carried over
  \/ ip \in present /\ UNCHANGED <<present, tokens, last>>
  \/ /\ ip \notin present
     /\ present' = present \cup {ip}
     /\ tokens' = [tokens EXCEPT ![ip] = @ + Burst]
     /\ last' = [last EXCEPT ![ip] = now]

\* A bucket not seen before, or evicted since, starts full.
AddIfMissing(ip) ==
  \/ ip \in present /\ UNCHANGED <<present, tokens, last>>
  \/ /\ ip \notin present
     /\ present' = present \cup {ip}
     /\ tokens' = [tokens EXCEPT ![ip] = Burst]
     /\ last' = [last EXCEPT ![ip] = now]

NotTouched(ip) == UNCHANGED lastSeen   \* mutant

Touch(ip) == lastSeen' = [lastSeen EXCEPT ![ip] = now]

\* allow, under the mutex: find or create the bucket and touch it.
FindBucket(r, ip) ==
  /\ \A q \in found : q.by # r
  /\ AddIfMissing(ip)
  /\ Touch(ip)
  /\ found' = found \cup {[by |-> r, ip |-> ip, at |-> now]}
  /\ UNCHANGED <<now, answer, sweepNow>>

HasToken(ip) == Refilled(ip) >= 1

\* allow, after unlocking: limiter.Allow() decides between next and a 429.
TakeToken(q) ==
  /\ found' = found \ {q}
  /\ \/ /\ HasToken(q.ip)
        /\ tokens' = [tokens EXCEPT ![q.ip] = Refilled(q.ip) - 1]
        /\ last' = [last EXCEPT ![q.ip] = now]
        /\ answer' = [answer EXCEPT ![q.by] = "granted"]
     \/ /\ ~HasToken(q.ip)
        /\ answer' = [answer EXCEPT ![q.by] = "denied"]
        /\ UNCHANGED <<tokens, last>>
  /\ UNCHANGED <<now, present, lastSeen, sweepNow>>

\* sweepLoop: evictIdle(time.Now()) ...
ReadClock ==
  /\ sweepNow = NotSweeping
  /\ sweepNow' = now
  /\ UNCHANGED <<now, buckets, found, answer>>

Idle(ip) == sweepNow - lastSeen[ip] > IdleEvict

\* ... which takes the mutex some time later and forgets the idle buckets.
EvictIdle ==
  /\ sweepNow # NotSweeping
  /\ present' = {ip \in present : ~Idle(ip)}
  /\ sweepNow' = NotSweeping
  /\ UNCHANGED <<now, tokens, last, lastSeen, found, answer>>

\* No handler is held up for longer than MaxStall between its two steps.
Tick ==
  /\ now < MaxTime
  /\ \A q \in found : now - q.at < MaxStall
  /\ now' = now + 1
  /\ UNCHANGED <<buckets, found, answer, sweepNow>>

Next ==
  \/ Tick
  \/ ReadClock
  \/ EvictIdle
  \/ \E q \in found : TakeToken(q)
  \/ \E r \in Requests, ip \in IPs : FindBucket(r, ip)

Spec == Init /\ [][Next]_vars

-----------------------------------------------------------------------------
\* The limiter a request has found is still the one in the map when the request
\* takes its token, however the sweep interleaves: no client ever has two.
OneBucketPerClient == \A q \in found : q.ip \in present

\* Eviction is invisible: the map of buckets that come and go lets through
\* exactly the requests that one everlasting bucket per client would.
Level(ip) == IF ip \in present THEN Refilled(ip) ELSE Burst

Abstract == INSTANCE TokenBucket WITH level <- [ip \in IPs |-> Level(ip)]
ImplementsTokenBucket == Abstract!Spec
=============================================================================
