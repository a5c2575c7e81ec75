---------------------------- MODULE EventProofs ----------------------------
(***************************************************************************)
(* Proofs about synch::Event for any finite set of threads, both reset     *)
(* modes and any number of signals.                                        *)
(***************************************************************************)
EXTENDS Event, TLAPS

(* Every step of every thread preserves the type invariant, in particular  *)
(* that a timed wait whose time is up is never put back to sleep.          *)
LEMMA TypeStep == TypeOK /\ [Next]_vars => TypeOK'
<1> SUFFICES ASSUME TypeOK, [Next]_vars PROVE TypeOK'
  OBVIOUS
<1> USE EventAssumption DEF TypeOK
<1>1. ASSUME NEW t \in Threads, t \notin asleep, Release(t)
      PROVE  TypeOK'
  BY <1>1 DEF Release
<1>2. ASSUME NEW t \in Threads, NEW ms \in {Forever, 0, 1}, Wait(t, ms)
      PROVE  TypeOK'
  BY <1>1, <1>2 DEF Wait, Forever, vars
<1>3. ASSUME NEW t \in Threads, Resume(t)
      PROVE  TypeOK'
  BY <1>1, <1>3 DEF Resume
<1>4. CASE Signal
  BY <1>4 DEF Signal
<1>5. CASE Reset
  BY <1>5 DEF Reset
<1>6. ASSUME NEW t \in Threads, TimeoutExpires(t) \/ SpuriousWakeup(t)
      PROVE  TypeOK'
  BY <1>6 DEF TimeoutExpires, SpuriousWakeup
<1>7. CASE UNCHANGED vars
  BY <1>7 DEF vars
<1> QED BY <1>2, <1>3, <1>4, <1>5, <1>6, <1>7 DEF Next

(* Type correctness of the event's state.                                  *)
THEOREM TypeCorrect == Spec => []TypeOK
<1>1. Init => TypeOK
  BY EventAssumption DEF Init, TypeOK
<1> QED BY <1>1, TypeStep, PTL DEF Spec

(* An auto reset event never lets more waiters through than it was         *)
(* signaled (AutoResetLocked under the mutex consumes the flag).           *)
THEOREM ReleasesOnePerSignal == Spec => []OnePerSignal
<1>1. Init => OnePerSignal
  BY EventAssumption DEF Init, OnePerSignal
<1>2. ASSUME TypeOK, OnePerSignal, [Next]_vars
      PROVE  OnePerSignal'
  <2> USE EventAssumption DEF TypeOK, OnePerSignal
  <2>1. ASSUME NEW t \in Threads, signaled, Release(t)
        PROVE  OnePerSignal'
    BY <1>2, <2>1 DEF Release
  <2>2. CASE Signal
    BY <1>2, <2>2 DEF Signal
  <2>3. CASE Reset
    BY <1>2, <2>3 DEF Reset
  <2>4. CASE UNCHANGED <<manualReset, signaled, signals, released>>
    BY <1>2, <2>4
  <2>5. ASSUME NEW t \in Threads, NEW ms \in {Forever, 0, 1}, Wait(t, ms)
        PROVE  OnePerSignal'
    BY <2>1, <2>4, <2>5 DEF Wait, vars
  <2>6. ASSUME NEW t \in Threads, Resume(t)
        PROVE  OnePerSignal'
    BY <2>1, <2>4, <2>6 DEF Resume
  <2>7. ASSUME NEW t \in Threads, TimeoutExpires(t) \/ SpuriousWakeup(t)
        PROVE  OnePerSignal'
    BY <2>4, <2>7 DEF TimeoutExpires, SpuriousWakeup
  <2>8. CASE UNCHANGED vars
    BY <2>4, <2>8 DEF vars
  <2> QED BY <1>2, <2>2, <2>3, <2>5, <2>6, <2>7, <2>8 DEF Next
<1> QED BY <1>1, <1>2, TypeCorrect, PTL DEF Spec

(* No waiter sleeps beside a signal that nobody is on the way to take.     *)
THEOREM NoWaiterForgotten == Spec => []NoSleeperBesideSignal
<1>1. Init => NoSleeperBesideSignal
  BY DEF Init, NoSleeperBesideSignal
<1>2. ASSUME TypeOK, NoSleeperBesideSignal, [Next]_vars
      PROVE  NoSleeperBesideSignal'
  <2> USE EventAssumption DEF TypeOK, NoSleeperBesideSignal
  <2>1. ASSUME NEW t \in Threads, signaled, Release(t)
        PROVE  NoSleeperBesideSignal'
    BY <1>2, <2>1 DEF Release
  <2>2. CASE Signal
    BY <1>2, <2>2 DEF Signal
  <2>3. CASE Reset
    BY <1>2, <2>3 DEF Reset
  <2>4. ASSUME NEW t \in Threads, NEW ms \in {Forever, 0, 1}, Wait(t, ms)
        PROVE  NoSleeperBesideSignal'
    BY <1>2, <2>1, <2>4 DEF Wait, vars
  <2>5. ASSUME NEW t \in Threads, Resume(t)
        PROVE  NoSleeperBesideSignal'
    BY <1>2, <2>1, <2>5 DEF Resume
  <2>6. ASSUME NEW t \in Threads, TimeoutExpires(t) \/ SpuriousWakeup(t)
        PROVE  NoSleeperBesideSignal'
    BY <1>2, <2>6 DEF TimeoutExpires, SpuriousWakeup
  <2>7. CASE UNCHANGED vars
    BY <1>2, <2>7 DEF vars
  <2> QED BY <1>2, <2>2, <2>3, <2>4, <2>5, <2>6, <2>7 DEF Next
<1> QED BY <1>1, <1>2, TypeCorrect, PTL DEF Spec
=============================================================================
