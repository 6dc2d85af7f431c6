----------------------------- MODULE TokenBucket -----------------------------
(***************************************************************************)
(* What the rate limiter promises each client: one bucket for ever, which  *)
(* starts full, gains a token per unit of time up to Burst and pays one    *)
(* token for each request it lets through.                                 *)
(***************************************************************************)
EXTENDS Naturals

CONSTANTS IPs, Requests, Burst

VARIABLES level, answer

vars == <<level, answer>>

Init ==
  /\ level = [ip \in IPs |-> Burst]
  /\ answer = [r \in Requests |-> "none"]

Refill ==
  /\ level' = [ip \in IPs |-> IF level[ip] < Burst THEN level[ip] + 1 ELSE Burst]
  /\ UNCHANGED answer

Grant(r, ip) ==
  /\ level[ip] >= 1
  /\ level' = [level EXCEPT ![ip] = @ - 1]
  /\ answer' = [answer EXCEPT ![r] = "granted"]

Deny(r, ip) ==
  /\ level[ip] = 0
  /\ answer' = [answer EXCEPT ![r] = "denied"]
  /\ UNCHANGED level

Next == Refill \/ \E r \in Requests, ip \in IPs : Grant(r, ip) \/ Deny(r, ip)

Spec == Init /\ [][Next]_vars
=============================================================================
