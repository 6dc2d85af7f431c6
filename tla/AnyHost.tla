------------------------------- MODULE AnyHost -------------------------------
(***************************************************************************)
(* What a call of the node client promises its caller: it is answered by   *)
(* one host that has not refused it before, and it fails only after every  *)
(* host has refused it, during this call.                                  *)
(***************************************************************************)
CONSTANTS Hosts, Callers

VARIABLES
  calling,   \* the calls in progress
  refused,   \* the hosts that have refused the call in progress
  outcome    \* how the last call ended

vars == <<calling, refused, outcome>>

Init ==
  /\ calling = {}
  /\ refused = [c \in Callers |-> {}]
  /\ outcome = [c \in Callers |-> "none"]

Begin(c) ==
  /\ c \notin calling
  /\ calling' = calling \cup {c}
  /\ refused' = [refused EXCEPT ![c] = {}]
  /\ outcome' = [outcome EXCEPT ![c] = "none"]

Refuse(c, h) ==
  /\ c \in calling
  /\ h \notin refused[c]
  /\ refused' = [refused EXCEPT ![c] = @ \cup {h}]
  /\ UNCHANGED <<calling, outcome>>

Answer(c) ==
  /\ c \in calling
  /\ refused[c] # Hosts
  /\ calling' = calling \ {c}
  /\ outcome' = [outcome EXCEPT ![c] = "answer"]
  /\ UNCHANGED refused

GiveUp(c) ==
  /\ c \in calling
  /\ refused[c] = Hosts
  /\ calling' = calling \ {c}
  /\ outcome' = [outcome EXCEPT ![c] = "error"]
  /\ UNCHANGED refused

Next ==
  \E c \in Callers :
    Begin(c) \/ Answer(c) \/ GiveUp(c) \/ \E h \in Hosts : Refuse(c, h)

Spec == Init /\ [][Next]_vars
=============================================================================
