---------------------------- MODULE FailoverProofs ----------------------------
(* Proofs about Failover, for every number of hosts and set of callers.       *)
EXTENDS Failover, TLAPS

(* Stepping around the ring of hosts stays in the ring. *)
LEMMA ModInRange == \A k \in Nat : k % N \in Hosts
  BY HostsAssumption DEF Hosts

(* From one start, different attempts go to different hosts. *)
LEMMA ModInjective ==
  ASSUME NEW s \in Hosts, NEW i \in Hosts, NEW j \in Hosts, (s + i) % N = (s + j) % N
  PROVE  i = j
<1>1. N \in Nat \ {0} /\ s \in 0 .. N - 1 /\ i \in 0 .. N - 1 /\ j \in 0 .. N - 1
  BY HostsAssumption DEF Hosts
<1>2. \A k \in 0 .. N - 1 : (s + k) % N = IF s + k < N THEN s + k ELSE s + k - N
  BY <1>1, SMTT(60)
<1> QED BY <1>1, <1>2

(* The N attempts from one start reach every host. *)
LEMMA ModSurjective ==
  ASSUME NEW s \in Hosts, NEW h \in Hosts
  PROVE  \E i \in Hosts : (s + i) % N = h
<1>1. N \in Nat \ {0} /\ s \in 0 .. N - 1 /\ h \in 0 .. N - 1
  BY HostsAssumption DEF Hosts
<1>2. CASE s <= h
  <2>1. h - s \in Hosts /\ (s + (h - s)) % N = h
    BY <1>1, <1>2, SMTT(60) DEF Hosts
  <2> QED BY <2>1
<1>3. CASE h < s
  <2>1. h - s + N \in Hosts /\ (s + (h - s + N)) % N = h
    BY <1>1, <1>3, SMTT(60) DEF Hosts
  <2> QED BY <2>1
<1> QED BY <1>1, <1>2, <1>3

(***************************************************************************)
(* The variables keep their types: in particular the cursor and the target *)
(* of every attempt are indices of configured hosts.                       *)
(***************************************************************************)
THEOREM TypeCorrect == Spec => []TypeOK
<1>1. Init => TypeOK
  BY HostsAssumption DEF Init, TypeOK, Hosts
<1>2. TypeOK /\ [Next]_vars => TypeOK'
  <2> SUFFICES ASSUME TypeOK, [Next]_vars PROVE TypeOK'
    OBVIOUS
  <2> USE DEF TypeOK
  <2>1. ASSUME NEW h \in Hosts, HostChange(h) PROVE TypeOK'
    BY <2>1, HostsAssumption DEF HostChange
  <2>2. ASSUME NEW c \in Callers, Begin(c) PROVE TypeOK'
    <3>1. 0 \in Hosts
      BY HostsAssumption DEF Hosts
    <3> QED BY <2>2, <3>1 DEF Begin, Goto
  <2>3. ASSUME NEW c \in Callers PROVE Target(c) \in Hosts /\ NextIndex(Target(c)) \in Hosts
    <3>1. start[c] + attempt[c] \in Nat
      BY HostsAssumption DEF Hosts
    <3>2. Target(c) \in Hosts
      BY <3>1, ModInRange DEF Target
    <3>3. Target(c) + 1 \in Nat
      BY <3>2, HostsAssumption DEF Hosts
    <3> QED BY <3>2, <3>3, ModInRange DEF NextIndex
  <2>4. ASSUME NEW c \in Callers, Succeed(c) \/ Fail(c) \/ ReturnResult(c) PROVE TypeOK'
    BY <2>3, <2>4 DEF Succeed, Fail, ReturnResult, Goto
  <2>5. ASSUME NEW c \in Callers, TryNext(c) PROVE TypeOK'
    <3>1. attempt' \in [Callers -> Hosts]
      BY <2>5, HostsAssumption DEF TryNext, Hosts
    <3> QED BY <2>3, <2>5, <3>1 DEF TryNext, Goto
  <2>6. CASE UNCHANGED vars
    BY <2>6 DEF vars
  <2> QED BY <2>1, <2>2, <2>4, <2>5, <2>6 DEF Next, InCall
<1> QED BY <1>1, <1>2, PTL DEF Spec

-----------------------------------------------------------------------------
(***************************************************************************)
(* Inductive: the errors a call has collected are those of exactly the     *)
(* hosts that its attempts so far went to.                                 *)
(***************************************************************************)
Attempted(c, i) == i < attempt[c] \/ (i = attempt[c] /\ pc[c] = "lost")

ErrsAreAttempts ==
  \A c \in Callers : pc[c] # "idle" =>
    \A h \in Hosts : h \in errs[c] <=> \E i \in Hosts : Attempted(c, i) /\ (start[c] + i) % N = h

(* The errors a call has collected stay those of exactly its failed attempts. *)
LEMMA ErrsAreAttemptsStep == TypeOK /\ ErrsAreAttempts /\ [Next]_vars => ErrsAreAttempts'
<1> SUFFICES ASSUME TypeOK, ErrsAreAttempts, [Next]_vars PROVE ErrsAreAttempts'
  OBVIOUS
<1>1. CASE UNCHANGED <<pc, start, attempt, errs>>
  BY <1>1 DEF ErrsAreAttempts, Attempted
<1>2. ASSUME NEW c \in Callers,
             \A d \in Callers \ {c} : /\ pc'[d] = pc[d] /\ start'[d] = start[d]
                                      /\ attempt'[d] = attempt[d] /\ errs'[d] = errs[d],
             pc'[c] # "idle" =>
               \A h \in Hosts :
                 h \in errs'[c] <=> \E i \in Hosts : Attempted(c, i)' /\ (start'[c] + i) % N = h
      PROVE  ErrsAreAttempts'
  BY <1>2 DEF ErrsAreAttempts, Attempted
<1>3. ASSUME NEW c \in Callers, Begin(c) PROVE ErrsAreAttempts'
  <2>1. /\ pc'[c] = "try" /\ attempt'[c] = 0 /\ errs'[c] = {}
        /\ \A d \in Callers \ {c} : /\ pc'[d] = pc[d] /\ start'[d] = start[d]
                                    /\ attempt'[d] = attempt[d] /\ errs'[d] = errs[d]
    BY <1>3 DEF Begin, Goto, TypeOK
  <2>2. \A i \in Hosts : ~Attempted(c, i)'
    BY <2>1, HostsAssumption DEF Attempted, Hosts
  <2> QED BY <1>2, <2>1, <2>2
<1>4. ASSUME NEW c \in Callers, Succeed(c) \/ ReturnResult(c) PROVE ErrsAreAttempts'
  <2>1. /\ pc'[c] \in {"won", "idle"} /\ pc[c] \in {"try", "won"}
        /\ \A d \in Callers \ {c} : pc'[d] = pc[d]
        /\ UNCHANGED <<start, attempt, errs>>
    BY <1>4 DEF Succeed, ReturnResult, Goto, TypeOK
  <2>2. \A i \in Hosts : Attempted(c, i)' <=> Attempted(c, i)
    BY <2>1 DEF Attempted
  <2> QED BY <1>2, <2>1, <2>2 DEF ErrsAreAttempts
<1>5. ASSUME NEW c \in Callers, Fail(c) PROVE ErrsAreAttempts'
  <2>1. /\ pc[c] = "try" /\ pc'[c] = "lost"
        /\ errs'[c] = errs[c] \cup {Target(c)}
        /\ \A d \in Callers \ {c} : pc'[d] = pc[d] /\ errs'[d] = errs[d]
        /\ UNCHANGED <<start, attempt>>
        /\ attempt[c] \in Hosts
    BY <1>5 DEF Fail, Goto, TypeOK
  <2>2. \A i \in Hosts : Attempted(c, i)' <=> Attempted(c, i) \/ i = attempt[c]
    BY <2>1 DEF Attempted
  <2>3. \A h \in Hosts :
          h \in errs'[c] <=> \E i \in Hosts : Attempted(c, i)' /\ (start[c] + i) % N = h
    BY <2>1, <2>2 DEF ErrsAreAttempts, Target
  <2> QED BY <1>2, <2>1, <2>3
<1>6. ASSUME NEW c \in Callers, TryNext(c) PROVE ErrsAreAttempts'
  <2>1. /\ pc[c] = "lost" /\ attempt[c] \in Hosts
        /\ \/ pc'[c] = "try" /\ attempt'[c] = attempt[c] + 1
           \/ pc'[c] = "idle"
        /\ \A d \in Callers \ {c} : pc'[d] = pc[d] /\ attempt'[d] = attempt[d]
        /\ UNCHANGED <<start, errs>>
    BY <1>6 DEF TryNext, Goto, TypeOK
  <2>2. pc'[c] # "idle" => \A i \in Hosts : Attempted(c, i)' <=> Attempted(c, i)
    BY <2>1, HostsAssumption DEF Attempted, Hosts
  <2> QED BY <1>2, <2>1, <2>2 DEF ErrsAreAttempts
<1>7. CASE (\E h \in Hosts : HostChange(h)) \/ UNCHANGED vars
  BY <1>1, <1>7 DEF HostChange, vars
<1> QED BY <1>3, <1>4, <1>5, <1>6, <1>7 DEF Next, InCall

(* In an attempt that has not failed, the host has not failed the call before. *)
LEMMA TargetIsFresh ==
  ASSUME TypeOK, ErrsAreAttempts, NEW c \in Callers, pc[c] \in {"try", "won"}
  PROVE  Target(c) \in Hosts \ errs[c]
<1>1. start[c] \in Hosts /\ attempt[c] \in Hosts /\ start[c] + attempt[c] \in Nat
  BY HostsAssumption DEF TypeOK, Hosts
<1>2. Target(c) \in Hosts
  BY <1>1, ModInRange DEF Target
<1>3. ASSUME Target(c) \in errs[c] PROVE FALSE
  <2>1. PICK i \in Hosts : i < attempt[c] /\ (start[c] + i) % N = (start[c] + attempt[c]) % N
    BY <1>2, <1>3 DEF ErrsAreAttempts, Attempted, Target
  <2>2. i = attempt[c]
    BY <1>1, <2>1, ModInjective
  <2> QED BY <2>1, <2>2, HostsAssumption DEF Hosts
<1> QED BY <1>2, <1>3

(* When the last attempt has failed, every host has failed the call. *)
LEMMA LastFailureIsTotal ==
  ASSUME TypeOK, ErrsAreAttempts, NEW c \in Callers, pc[c] = "lost", attempt[c] + 1 >= N
  PROVE  errs[c] = Hosts
<1>1. \A i \in Hosts : Attempted(c, i)
  BY HostsAssumption DEF Attempted, TypeOK, Hosts
<1>2. start[c] \in Hosts /\ errs[c] \subseteq Hosts
  BY DEF TypeOK
<1>3. ASSUME NEW h \in Hosts PROVE h \in errs[c]
  <2>1. \E i \in Hosts : (start[c] + i) % N = h
    BY <1>2, ModSurjective
  <2> QED BY <1>1, <2>1 DEF ErrsAreAttempts
<1> QED BY <1>2, <1>3

(***************************************************************************)
(* Concurrent calls over a shared cursor implement AnyHost.                *)
(***************************************************************************)
THEOREM ImplementsAnyHostHolds == Spec => ImplementsAnyHost
<1>1. Init => ErrsAreAttempts
  BY DEF Init, ErrsAreAttempts
<1>2. Init => Abstract!Init
  BY DEF Init, Abstract!Init
<1>3. TypeOK /\ ErrsAreAttempts /\ [Next]_vars => [Abstract!Next]_(Abstract!vars)
  <2> SUFFICES ASSUME TypeOK, ErrsAreAttempts, [Next]_vars
               PROVE  Abstract!Next \/ UNCHANGED Abstract!vars
    OBVIOUS
  <2> DEFINE calling == {c \in Callers : pc[c] # "idle"}
  <2>1. ASSUME NEW c \in Callers, Begin(c) PROVE Abstract!Begin(c)
    BY <2>1 DEF Begin, Goto, Abstract!Begin, TypeOK
  <2>2. ASSUME NEW c \in Callers, Succeed(c) PROVE UNCHANGED Abstract!vars
    <3>1. calling' = calling
      BY <2>2 DEF Succeed, Goto, TypeOK
    <3> QED BY <2>2, <3>1 DEF Succeed, Abstract!vars
  <2>3. ASSUME NEW c \in Callers, Fail(c) PROVE Abstract!Refuse(c, Target(c)) /\ Target(c) \in Hosts
    <3>1. calling' = calling /\ c \in calling
      BY <2>3 DEF Fail, Goto, TypeOK
    <3>2. Target(c) \in Hosts \ errs[c]
      BY <2>3, TargetIsFresh DEF Fail
    <3> QED BY <2>3, <3>1, <3>2 DEF Fail, Abstract!Refuse
  <2>4. ASSUME NEW c \in Callers, ReturnResult(c) PROVE Abstract!Answer(c)
    <3>1. calling' = calling \ {c} /\ c \in calling
      BY <2>4 DEF ReturnResult, Goto, TypeOK
    <3>2. errs[c] # Hosts
      BY <2>4, TargetIsFresh DEF ReturnResult
    <3> QED BY <2>4, <3>1, <3>2 DEF ReturnResult, Abstract!Answer
  <2>5. ASSUME NEW c \in Callers, TryNext(c)
        PROVE  Abstract!GiveUp(c) \/ UNCHANGED Abstract!vars
    <3>1. CASE attempt[c] + 1 < N
      <4>1. pc'[c] = "try" /\ pc[c] = "lost" /\ UNCHANGED <<errs, outcome>>
        BY <2>5, <3>1, HostsAssumption DEF TryNext, Goto, TypeOK, Hosts
      <4>2. calling' = calling
        BY <2>5, <4>1 DEF TryNext, Goto, TypeOK
      <4> QED BY <4>1, <4>2 DEF Abstract!vars
    <3>2. CASE ~(attempt[c] + 1 < N)
      <4>1. attempt[c] + 1 >= N /\ pc[c] = "lost"
        BY <2>5, <3>2, HostsAssumption DEF TryNext, TypeOK, Hosts
      <4>2. errs[c] = Hosts
        BY <4>1, LastFailureIsTotal
      <4>3. calling' = calling \ {c} /\ c \in calling
        BY <2>5, <3>2, <4>1 DEF TryNext, Goto, TypeOK
      <4> QED BY <2>5, <3>2, <4>2, <4>3 DEF TryNext, Abstract!GiveUp
    <3> QED BY <3>1, <3>2
  <2>6. CASE (\E h \in Hosts : HostChange(h)) \/ UNCHANGED vars
    BY <2>6 DEF HostChange, vars, Abstract!vars
  <2> QED BY <2>1, <2>2, <2>3, <2>4, <2>5, <2>6 DEF Next, InCall, Abstract!Next
<1> QED BY <1>1, <1>2, <1>3, ErrsAreAttemptsStep, TypeCorrect, PTL
        DEF Spec, ImplementsAnyHost, Abstract!Spec

=============================================================================
