------------------------------- MODULE Failover -------------------------------
(***************************************************************************)
(* The node client (internal/nodeclient): every RPC goes through           *)
(* withFailover, which tries the configured hosts in turn from a cursor    *)
(* that all callers of the client share (the indexer and its lookups, the  *)
(* pollers, the server's request handlers).  The mutex makes each read or  *)
(* write of the cursor a step; RPCs run outside it, so calls interleave.   *)
(* Lazy dialling of a host is part of the RPC to it.                       *)
(***************************************************************************)
EXTENDS Integers

CONSTANTS
  N,         \* how many hosts are configured
  Callers,   \* goroutines that share the client
  MaxChanges \* bound: how often a host fails or comes back

ASSUME HostsAssumption == N \in Nat \ {0} /\ MaxChanges \in Nat

VARIABLES
  current,   \* the cursor: the host to try first on the next call
  pc,        \* "idle", "try": an RPC is out, "won" or "lost": it has returned
  start,     \* withFailover's start
  attempt,   \* its loop variable
  errs,      \* the hosts whose errors it has collected
  outcome,   \* how the caller's last call ended
  up,        \* the hosts that answer
  changes    \* changes of up still to come; until the last, RPCs fail at will

vars == <<current, pc, start, attempt, errs, outcome, up, changes>>

Hosts == 0 .. N - 1

TypeOK ==
  /\ current \in Hosts
  /\ pc \in [Callers -> {"idle", "try", "won", "lost"}]
  /\ start \in [Callers -> Hosts]
  /\ attempt \in [Callers -> Hosts]
  /\ errs \in [Callers -> SUBSET Hosts]
  /\ outcome \in [Callers -> {"none", "answer", "error"}]
  /\ up \in SUBSET Hosts
  /\ changes \in 0 .. MaxChanges

Init ==
  /\ current = 0
  /\ pc = [c \in Callers |-> "idle"]
  /\ start = [c \in Callers |-> 0]
  /\ attempt = [c \in Callers |-> 0]
  /\ errs = [c \in Callers |-> {}]
  /\ outcome = [c \in Callers |-> "none"]
  /\ up \in SUBSET Hosts
  /\ changes = MaxChanges

TargetFromCursor(c) == (current + attempt[c]) % N   \* mutant: the live cursor

\* The host of the current attempt.
Target(c) == (start[c] + attempt[c]) % N

NextIndexUnwrapped(h) == h + 1   \* mutant
NextIndexStays(h) == h           \* mutant

\* nextIndex: where the cursor goes when host h has failed.
NextIndex(h) == (h + 1) % N

Goto(c, l) == pc' = [pc EXCEPT ![c] = l]

\* A host fails, or comes back.
HostChange(h) ==
  /\ changes > 0
  /\ changes' = changes - 1
  /\ up' = IF h \in up THEN up \ {h} ELSE up \cup {h}
  /\ UNCHANGED <<current, pc, start, attempt, errs, outcome>>

\* startIndex.
Begin(c) ==
  /\ pc[c] = "idle"
  /\ start' = [start EXCEPT ![c] = current]
  /\ attempt' = [attempt EXCEPT ![c] = 0]
  /\ errs' = [errs EXCEPT ![c] = {}]
  /\ outcome' = [outcome EXCEPT ![c] = "none"]
  /\ Goto(c, "try")
  /\ UNCHANGED <<current, up, changes>>

\* The RPC returns a result.
Succeed(c) ==
  /\ pc[c] = "try"
  /\ Target(c) \in up
  /\ Goto(c, "won")
  /\ UNCHANGED <<current, start, attempt, errs, outcome, up, changes>>

\* The dial or the RPC returns an error.
Fail(c) ==
  /\ pc[c] = "try"
  /\ Target(c) \notin up \/ changes > 0
  /\ errs' = [errs EXCEPT ![c] = @ \cup {Target(c)}]
  /\ Goto(c, "lost")
  /\ UNCHANGED <<current, start, attempt, outcome, up, changes>>

\* Success: the cursor is left at the host that worked.
ReturnResult(c) ==
  /\ pc[c] = "won"
  /\ current' = Target(c)
  /\ outcome' = [outcome EXCEPT ![c] = "answer"]
  /\ Goto(c, "idle")
  /\ UNCHANGED <<start, attempt, errs, up, changes>>

\* Failure: nextIndex, then the next attempt, or the error that wraps them all.
TryNext(c) ==
  /\ pc[c] = "lost"
  /\ current' = NextIndex(Target(c))
  /\ \/ /\ attempt[c] + 1 < N
        /\ attempt' = [attempt EXCEPT ![c] = @ + 1]
        /\ Goto(c, "try")
        /\ UNCHANGED outcome
     \/ /\ attempt[c] + 1 >= N
        /\ outcome' = [outcome EXCEPT ![c] = "error"]
        /\ Goto(c, "idle")
        /\ UNCHANGED attempt
  /\ UNCHANGED <<start, errs, up, changes>>

InCall(c) == Succeed(c) \/ Fail(c) \/ ReturnResult(c) \/ TryNext(c)

Next ==
  \/ \E h \in Hosts : HostChange(h)
  \/ \E c \in Callers : Begin(c) \/ InCall(c)

Spec == Init /\ [][Next]_vars

\* An RPC that is out returns (gRPC fails calls on broken connections); nobody
\* has to make another call.
LiveSpec == Spec /\ \A c \in Callers : WF_vars(InCall(c))

-----------------------------------------------------------------------------
\* Every call, whatever other calls do to the shared cursor, is answered by a
\* host that had not failed it, or fails after every host has failed it once.
Abstract == INSTANCE AnyHost WITH
  calling <- {c \in Callers : pc[c] # "idle"},
  refused <- errs
ImplementsAnyHost == Abstract!Spec

\* "On success, the cursor is left pointing at the host that worked so subsequent
\* calls prefer it first": once hosts stop changing and one is up, interleaved
\* calls cannot keep moving the cursor back to hosts that are down.
SettlesOnWorkingHost ==
  changes = 0 /\ up # {} ~>
    [](\A c \in Callers : pc[c] = "try" => Target(c) \in up)
=============================================================================
