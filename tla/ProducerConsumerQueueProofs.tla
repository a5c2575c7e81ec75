-------------------- MODULE ProducerConsumerQueueProofs --------------------
(***************************************************************************)
(* Proofs about the blocking queue for any finite set of threads, any set  *)
(* of values and any max_size_.                                            *)
(***************************************************************************)
EXTENDS ProducerConsumerQueue, SequenceTheorems, FiniteSetTheorems, TLAPS

(* Pushing at either end of a sequence of values keeps its type and adds   *)
(* one to its length (push_back and push_front of PutAt).                  *)
LEMMA PushType ==
    ASSUME NEW S, NEW q \in Seq(S), NEW v \in S, NEW back \in BOOLEAN
    PROVE  LET r == IF back THEN Append(q, v) ELSE <<v>> \o q
           IN  r \in Seq(S) /\ Len(r) = Len(q) + 1
  OBVIOUS

(* Taking the front element keeps the type and takes one from the length   *)
(* (front and pop_front of Get).                                           *)
LEMMA PopType ==
    ASSUME NEW S, NEW q \in Seq(S), q # << >>
    PROVE  /\ Tail(q) \in Seq(S) /\ Head(q) \in S
           /\ Len(Tail(q)) = Len(q) - 1
           /\ Len(q) \in Nat \ {0}
  OBVIOUS

(* The waiting part of the type invariant, the only part signals touch.    *)
WaitsOK ==
    /\ condFull \subseteq Threads /\ condEmpty \subseteq Threads
    /\ wokenFull \subseteq Threads /\ wokenEmpty \subseteq Threads
    /\ condFull \cap condEmpty = {} /\ wokenFull \cap wokenEmpty = {}
    /\ (condFull \cup condEmpty) \cap (wokenFull \cup wokenEmpty) = {}
    /\ \A t \in condEmpty \cup wokenEmpty : call[t].val \in Values

DataOK ==
    /\ data \in Seq(Values)
    /\ accepted \in Seq(Values) /\ delivered \in Seq(Values)
    /\ unput \subseteq Values
    /\ call \in [Threads -> Calls]

LEMMA TypeSplit == TypeOK <=> DataOK /\ WaitsOK
  BY DEF TypeOK, DataOK, WaitsOK

(* Every step of every thread preserves the type invariant.                *)
LEMMA TypeStep == TypeOK /\ [Next]_vars => TypeOK'
<1> SUFFICES ASSUME DataOK, WaitsOK, [Next]_vars PROVE DataOK' /\ WaitsOK'
  BY TypeSplit, TypeSplit DEF TypeOK, DataOK, WaitsOK
<1> USE QueueAssumption
<1>1. ASSUME NEW t \in Threads, NEW v \in Values, NEW back \in BOOLEAN,
             PutAt(t, v, back)
      PROVE  DataOK' /\ WaitsOK'
  <2>1. PutCall(v, back, FALSE) \in Calls
    BY DEF PutCall, Calls
  <2>2. CASE HasRoom
    <3>1. Push(v, back) /\ unput' = unput \ {v} /\ UNCHANGED <<condEmpty, wokenEmpty, call>>
      BY <1>1, <2>2 DEF PutAt
    <3>2. DataOK'
      BY <3>1, PushType DEF DataOK, Push
    <3>3. WaitsOK'
      BY <3>1 DEF WaitsOK, Push, SignalFull
    <3> QED BY <3>2, <3>3
  <2>3. CASE ~HasRoom
    <3>1. /\ unput' = unput \ {v}
          /\ t \notin Blocked
          /\ condEmpty' = condEmpty \cup {t}
          /\ call' = [call EXCEPT ![t] = PutCall(v, back, FALSE)]
          /\ UNCHANGED <<data, condFull, wokenFull, wokenEmpty, accepted, delivered>>
      BY <1>1, <2>3 DEF PutAt
    <3>2. DataOK'
      BY <3>1, <2>1 DEF DataOK
    <3>3. WaitsOK'
      BY <3>1, <2>1 DEF WaitsOK, DataOK, Blocked, PutCall
    <3> QED BY <3>2, <3>3
  <2> QED BY <2>2, <2>3
<1>2. ASSUME NEW t \in Threads, NEW v \in Values, Put(t, v)
      PROVE  DataOK' /\ WaitsOK'
  BY <1>1, <1>2 DEF Put
<1>3. ASSUME NEW t \in Threads, NEW v \in Values, NEW back \in BOOLEAN,
             NEW ms \in {0, 1}, TimedPutAt(t, v, back, ms)
      PROVE  DataOK' /\ WaitsOK'
  <2>1. PutCall(v, back, TRUE) \in Calls
    BY DEF PutCall, Calls
  <2>2. CASE HasRoom
    <3>1. Push(v, back) /\ unput' = unput \ {v} /\ UNCHANGED <<condEmpty, wokenEmpty, call>>
      BY <1>3, <2>2 DEF TimedPutAt
    <3>2. DataOK'
      BY <3>1, PushType DEF DataOK, Push
    <3>3. WaitsOK'
      BY <3>1 DEF WaitsOK, Push, SignalFull
    <3> QED BY <3>2, <3>3
  <2>3. CASE ~HasRoom /\ ms > 0
    <3>1. /\ unput' = unput \ {v}
          /\ t \notin Blocked
          /\ condEmpty' = condEmpty \cup {t}
          /\ call' = [call EXCEPT ![t] = PutCall(v, back, TRUE)]
          /\ UNCHANGED <<data, condFull, wokenFull, wokenEmpty, accepted, delivered>>
      <4>1. ~HasRoom /\ ms # 0
        BY <2>3
      <4> QED BY <1>3, <4>1, Zenon DEF TimedPutAt
    <3>2. DataOK'
      BY <3>1, <2>1 DEF DataOK
    <3>3. WaitsOK'
      BY <3>1, <2>1 DEF WaitsOK, DataOK, Blocked, PutCall
    <3> QED BY <3>2, <3>3
  <2>4. CASE ~HasRoom /\ ~(ms > 0)
    <3>1. unput' = unput \ {v} /\ UNCHANGED <<data, waits, accepted, delivered>>
      BY <1>3, <2>4 DEF TimedPutAt
    <3> QED BY <3>1 DEF DataOK, WaitsOK, waits
  <2> QED BY <2>2, <2>3, <2>4
<1>4. ASSUME NEW t \in Threads, PutResume(t)
      PROVE  DataOK' /\ WaitsOK'
  <2>1. t \in wokenEmpty /\ call[t].val \in Values /\ call[t].back \in BOOLEAN
    BY <1>4 DEF PutResume, WaitsOK, DataOK, Calls
  <2>2. CASE HasRoom
    <3>1. /\ Push(call[t].val, call[t].back)
          /\ wokenEmpty' = wokenEmpty \ {t} /\ UNCHANGED <<condEmpty, call, unput>>
      BY <1>4, <2>2 DEF PutResume
    <3>2. DataOK'
      BY <3>1, <2>1, PushType DEF DataOK, Push
    <3>3. WaitsOK'
      BY <3>1 DEF WaitsOK, Push, SignalFull
    <3> QED BY <3>2, <3>3
  <2>3. CASE ~HasRoom
    BY <1>4, <2>1, <2>3 DEF PutResume, DataOK, WaitsOK
  <2> QED BY <2>2, <2>3
<1>5. ASSUME NEW t \in Threads, Get(t) \/ (\E ms \in {0, 1} : TimedGet(t, ms))
      PROVE  DataOK' /\ WaitsOK'
  <2>2. CASE data # << >>
    <3>1. Pop /\ SignalEmpty /\ UNCHANGED <<condFull, wokenFull, call, unput>>
      BY <1>5, <2>2 DEF Get, TimedGet
    <3>2. DataOK'
      BY <3>1, <2>2, PopType DEF DataOK, Pop
    <3>3. WaitsOK'
      BY <3>1 DEF WaitsOK, SignalEmpty
    <3> QED BY <3>2, <3>3
  <2>3. CASE data = << >>
    <3>1. UNCHANGED <<data, accepted, delivered, unput>>
      BY <1>5, <2>3 DEF Get, TimedGet
    <3>2. CASE SignalEmpty /\ UNCHANGED <<condFull, wokenFull, call>>
      BY <3>1, <3>2 DEF DataOK, WaitsOK, SignalEmpty
    <3>3. CASE /\ t \notin Blocked
               /\ condFull' = condFull \cup {t}
               /\ \E b \in BOOLEAN : call' = [call EXCEPT ![t] = GetCall(b)]
               /\ UNCHANGED <<condEmpty, wokenFull, wokenEmpty>>
      <4>1. PICK b \in BOOLEAN : call' = [call EXCEPT ![t] = GetCall(b)]
        BY <3>3
      <4>2. GetCall(b) \in Calls
        BY DEF GetCall, Calls
      <4>3. DataOK'
        BY <3>1, <4>1, <4>2 DEF DataOK
      <4>4. WaitsOK'
        BY <3>3, <4>1 DEF DataOK, WaitsOK, Blocked
      <4> QED BY <4>3, <4>4
    <3>4. CASE Get(t)
      BY <2>3, <3>3, <3>4 DEF Get
    <3>5. CASE \E ms \in {0, 1} : TimedGet(t, ms)
      BY <2>3, <3>2, <3>3, <3>5 DEF TimedGet
    <3> QED BY <1>5, <3>4, <3>5
  <2> QED BY <2>2, <2>3
<1>6. ASSUME NEW t \in Threads, GetResume(t)
      PROVE  DataOK' /\ WaitsOK'
  <2>2. CASE data # << >>
    <3>1. Pop /\ SignalEmpty /\ wokenFull' = wokenFull \ {t} /\ UNCHANGED <<condFull, call, unput>>
      BY <1>6, <2>2 DEF GetResume
    <3>2. DataOK'
      BY <3>1, <2>2, PopType DEF DataOK, Pop
    <3>3. WaitsOK'
      BY <3>1 DEF WaitsOK, SignalEmpty
    <3> QED BY <3>2, <3>3
  <2>3. CASE data = << >>
    <3>1. DataOK'
      BY <1>6, <2>3 DEF GetResume, DataOK
    <3>2. CASE /\ wokenFull' = wokenFull \ {t} /\ SignalEmpty
               /\ UNCHANGED <<condFull, call>>
      BY <3>1, <3>2 DEF WaitsOK, SignalEmpty
    <3>3. CASE /\ wokenFull' = wokenFull \ {t} /\ condFull' = condFull \cup {t}
               /\ UNCHANGED <<condEmpty, wokenEmpty, call>>
      BY <1>6, <3>1, <3>3 DEF GetResume, WaitsOK
    <3> QED BY <1>6, <2>3, <3>1, <3>2, <3>3 DEF GetResume
  <2> QED BY <2>2, <2>3
<1>7. ASSUME NEW t \in Threads, GetAll(t) \/ Clear(t)
      PROVE  DataOK' /\ WaitsOK'
  <2>1. data' = << >> /\ delivered' \in Seq(Values) /\ SignalEmpty
        /\ UNCHANGED <<condFull, wokenFull, call, unput, accepted>>
    <3>1. delivered \o data \in Seq(Values)
      BY DEF DataOK
    <3> QED BY <1>7, <3>1 DEF GetAll, Clear, DataOK
  <2> QED BY <2>1 DEF DataOK, WaitsOK, SignalEmpty
<1>8. ASSUME NEW t \in Threads, TimeoutExpires(t) \/ SpuriousWakeup(t)
      PROVE  DataOK' /\ WaitsOK'
  BY <1>8 DEF TimeoutExpires, SpuriousWakeup, DataOK, WaitsOK
<1>9. CASE UNCHANGED vars
  BY <1>9 DEF vars, waits, DataOK, WaitsOK
<1> QED
  BY <1>1, <1>2, <1>3, <1>4, <1>5, <1>6, <1>7, <1>8, <1>9 DEF Next

(* Type correctness of the queue's state in every reachable state.         *)
THEOREM TypeCorrect == Spec => []TypeOK
<1>1. Init => TypeOK
  BY QueueAssumption DEF Init, TypeOK, Calls, GetCall
<1> QED BY <1>1, TypeStep, PTL DEF Spec

-----------------------------------------------------------------------------
(* What a step can do to the contents and to the getters: one value pushed *)
(* and cond_full_ signalled, one value taken, everything gone or nothing   *)
(* there, one sleeping getter woken, or nothing.                           *)
PushEffect ==
    /\ HasRoom
    /\ \E v \in Values, back \in BOOLEAN :
          data' = IF back THEN Append(data, v) ELSE <<v>> \o data
    /\ SignalFull

TakeEffect ==
    /\ data # << >> /\ data' = Tail(data)
    /\ condFull' = condFull
    /\ \E t \in Threads : wokenFull' = wokenFull \ {t}

EmptyEffect == data' = << >> /\ wokenFull' \subseteq Threads

WakeEffect ==
    /\ data' = data
    /\ \E t \in condFull : /\ condFull' = condFull \ {t}
                           /\ wokenFull' = wokenFull \cup {t}

IdleEffect == UNCHANGED <<data, condFull, wokenFull>>

(* Every step of the queue has one of those five effects.                  *)
LEMMA StepEffects ==
    ASSUME TypeOK, [Next]_vars
    PROVE  PushEffect \/ TakeEffect \/ EmptyEffect \/ WakeEffect \/ IdleEffect
<1> DEFINE Goal == PushEffect \/ TakeEffect \/ EmptyEffect \/ WakeEffect \/ IdleEffect
<1>0. TypeOK'
  BY TypeStep
<1>1. ASSUME NEW v \in Values, NEW back \in BOOLEAN, HasRoom, Push(v, back)
      PROVE  Goal
  BY <1>1 DEF PushEffect, Push
<1>2. ASSUME NEW t \in Threads, NEW v \in Values, NEW back \in BOOLEAN,
             PutAt(t, v, back)
      PROVE  Goal
  BY <1>1, <1>2 DEF PutAt, IdleEffect
<1>3. ASSUME NEW t \in Threads, NEW v \in Values, Put(t, v)
      PROVE  Goal
  BY <1>2, <1>3, QueueAssumption DEF Put
<1>4. ASSUME NEW t \in Threads, NEW v \in Values, NEW back \in BOOLEAN,
             NEW ms \in {0, 1}, TimedPutAt(t, v, back, ms)
      PROVE  Goal
  BY <1>1, <1>4 DEF TimedPutAt, IdleEffect, waits
<1>5. ASSUME NEW t \in Threads, PutResume(t)
      PROVE  Goal
  <2>1. call[t].val \in Values /\ call[t].back \in BOOLEAN
    BY <1>5 DEF PutResume, TypeOK, Calls
  <2> QED BY <1>1, <1>5, <2>1 DEF PutResume, IdleEffect
<1>6. ASSUME NEW t \in Threads, Get(t) \/ (\E ms \in {0, 1} : TimedGet(t, ms))
      PROVE  Goal
  <2>1. CASE data # << >>
    <3>1. Pop /\ UNCHANGED <<condFull, wokenFull>> /\ t \notin wokenFull
      BY <1>6, <2>1 DEF Get, TimedGet, Blocked
    <3> QED BY <2>1, <3>1 DEF TakeEffect, Pop
  <2>2. CASE data = << >>
    <3>1. data' = << >>
      BY <1>6, <2>2 DEF Get, TimedGet
    <3> QED BY <3>1, <1>0 DEF EmptyEffect, TypeOK
  <2> QED BY <2>1, <2>2
<1>7. ASSUME NEW t \in Threads, GetResume(t)
      PROVE  Goal
  <2>1. CASE data # << >>
    BY <1>7, <2>1 DEF GetResume, TakeEffect, Pop
  <2>2. CASE data = << >>
    <3>1. data' = << >>
      BY <1>7, <2>2 DEF GetResume
    <3> QED BY <3>1, <1>0 DEF EmptyEffect, TypeOK
  <2> QED BY <2>1, <2>2
<1>8. ASSUME NEW t \in Threads, GetAll(t) \/ Clear(t)
      PROVE  Goal
  BY <1>0, <1>8 DEF GetAll, Clear, EmptyEffect, TypeOK
<1>9. ASSUME NEW t \in Threads, TimeoutExpires(t) \/ SpuriousWakeup(t)
      PROVE  Goal
  BY <1>9 DEF TimeoutExpires, SpuriousWakeup, WakeEffect, IdleEffect
<1>10. CASE UNCHANGED vars
  BY <1>10 DEF vars, waits, IdleEffect
<1> QED
  BY <1>2, <1>3, <1>4, <1>5, <1>6, <1>7, <1>8, <1>9, <1>10, QueueAssumption DEF Next

(* The queue never exceeds max_size_, whoever overtakes a woken putter.    *)
THEOREM StaysBounded == Spec => []Bounded
<1>1. Init => Bounded
  BY QueueAssumption DEF Init, Bounded
<1>2. ASSUME TypeOK, Bounded, [Next]_vars
      PROVE  Bounded'
  <2> USE QueueAssumption DEF Bounded, TypeOK
  <2>1. CASE PushEffect
    <3>1. PICK v \in Values, back \in BOOLEAN :
              data' = IF back THEN Append(data, v) ELSE <<v>> \o data
      BY <2>1 DEF PushEffect
    <3>2. Len(data') = Len(data) + 1
      BY <3>1, PushType
    <3> QED BY <2>1, <3>2 DEF PushEffect, HasRoom
  <2>2. CASE TakeEffect
    BY <1>2, <2>2, PopType DEF TakeEffect
  <2>3. CASE EmptyEffect
    BY <2>3 DEF EmptyEffect
  <2>4. CASE WakeEffect \/ IdleEffect
    BY <1>2, <2>4 DEF WakeEffect, IdleEffect
  <2> QED BY <1>2, <2>1, <2>2, <2>3, <2>4, StepEffects
<1> QED BY <1>1, <1>2, TypeCorrect, PTL DEF Spec

(* Moving one sleeping thread into a woken set adds one to that set.       *)
LEMMA WakeCount ==
    ASSUME NEW W, W \subseteq Threads, NEW w \in Threads, w \notin W
    PROVE  /\ Cardinality(W) \in Nat
           /\ Cardinality(W \cup {w}) = Cardinality(W) + 1
  BY QueueAssumption, FS_Subset, FS_AddElement, FS_CardinalityType

(* One thread leaving a woken set takes at most one from its size.         *)
LEMMA LeaveCount ==
    ASSUME NEW W, W \subseteq Threads, NEW t
    PROVE  /\ Cardinality(W) \in Nat /\ Cardinality(W \ {t}) \in Nat
           /\ Cardinality(W \ {t}) >= Cardinality(W) - 1
           /\ Cardinality(W \ {t}) <= Cardinality(W)
<1>1. IsFiniteSet(W) /\ IsFiniteSet(W \ {t})
  BY QueueAssumption, FS_Subset
<1>2. Cardinality(W) \in Nat /\ Cardinality(W \ {t}) \in Nat
  BY <1>1, FS_CardinalityType
<1>3. Cardinality(W \ {t}) = IF t \in W THEN Cardinality(W) - 1 ELSE Cardinality(W)
  BY <1>1, FS_RemoveElement
<1> QED BY <1>2, <1>3

(* No lost wakeup for Get, for any number of getters and putters: the      *)
(* single pthread_cond_signal(&cond_full_) of every push is enough.        *)
THEOREM NoGetterStranded == Spec => []GettersNotStranded
<1>1. Init => GettersNotStranded
  BY DEF Init, GettersNotStranded
<1>2. ASSUME TypeOK, TypeOK', GettersNotStranded, [Next]_vars
      PROVE  GettersNotStranded'
  <2>1. SUFFICES ASSUME condFull' # {}
                 PROVE  Len(data') <= Cardinality(wokenFull')
    BY DEF GettersNotStranded
  <2>2. Len(data) \in Nat /\ wokenFull \subseteq Threads
    BY <1>2 DEF TypeOK
  <2>3. CASE PushEffect
    <3>1. PICK v \in Values, back \in BOOLEAN :
              data' = IF back THEN Append(data, v) ELSE <<v>> \o data
      BY <2>3 DEF PushEffect
    <3>2. Len(data') = Len(data) + 1
      BY <1>2, <3>1, PushType DEF TypeOK
    <3>3. PICK w \in condFull : /\ condFull' = condFull \ {w}
                               /\ wokenFull' = wokenFull \cup {w}
      BY <2>1, <2>3 DEF PushEffect, SignalFull
    <3>4. w \in Threads /\ w \notin wokenFull
      BY <1>2, <3>3 DEF TypeOK
    <3>5. Cardinality(wokenFull') = Cardinality(wokenFull) + 1 /\ Cardinality(wokenFull) \in Nat
      BY <2>2, <3>3, <3>4, WakeCount
    <3>6. Len(data) <= Cardinality(wokenFull)
      BY <1>2, <3>3 DEF GettersNotStranded
    <3> QED BY <2>2, <3>2, <3>5, <3>6
  <2>4. CASE TakeEffect
    <3>1. PICK t \in Threads : wokenFull' = wokenFull \ {t}
      BY <2>4 DEF TakeEffect
    <3>2. Len(data') = Len(data) - 1
      BY <1>2, <2>4, PopType DEF TakeEffect, TypeOK
    <3>3. Len(data) <= Cardinality(wokenFull)
      BY <1>2, <2>1, <2>4 DEF TakeEffect, GettersNotStranded
    <3>4. /\ Cardinality(wokenFull) \in Nat /\ Cardinality(wokenFull') \in Nat
          /\ Cardinality(wokenFull') >= Cardinality(wokenFull) - 1
      BY <2>2, <3>1, LeaveCount
    <3> QED BY <2>2, <3>2, <3>3, <3>4
  <2>5. CASE EmptyEffect
    <3>1. Cardinality(wokenFull') \in Nat
      BY <2>5, LeaveCount DEF EmptyEffect
    <3> QED BY <2>5, <3>1 DEF EmptyEffect
  <2>6. CASE WakeEffect
    <3>1. PICK w \in condFull : /\ condFull' = condFull \ {w}
                               /\ wokenFull' = wokenFull \cup {w}
      BY <2>6 DEF WakeEffect
    <3>2. w \in Threads /\ w \notin wokenFull
      BY <1>2, <3>1 DEF TypeOK
    <3>3. Cardinality(wokenFull') = Cardinality(wokenFull) + 1 /\ Cardinality(wokenFull) \in Nat
      BY <2>2, <3>1, <3>2, WakeCount
    <3>4. Len(data) <= Cardinality(wokenFull)
      BY <1>2, <3>1 DEF GettersNotStranded
    <3> QED BY <2>2, <2>6, <3>3, <3>4 DEF WakeEffect
  <2>7. CASE IdleEffect
    BY <1>2, <2>1, <2>7 DEF IdleEffect, GettersNotStranded
  <2> QED BY <1>2, <2>3, <2>4, <2>5, <2>6, <2>7, StepEffects
<1> QED BY <1>1, <1>2, TypeCorrect, PTL DEF Spec

(* The threaded queue with its mutex, condition variables, timeouts and    *)
(* spurious wakeups implements the atomic bounded queue.                   *)
THEOREM QueueImplementsContract == Spec => ImplementsBoundedQueue
<1>1. Init => Contract!Init
  BY DEF Init, Contract!Init
<1>2. ASSUME TypeOK, [Next]_vars
      PROVE  [Contract!Next]_data
  <2>1. CASE PushEffect
    BY <2>1 DEF PushEffect, Contract!Next, Contract!Enqueue, Contract!PushedAt,
                Contract!HasRoom, HasRoom
  <2>2. CASE TakeEffect
    BY <2>2 DEF TakeEffect, Contract!Next, Contract!Dequeue
  <2>3. CASE EmptyEffect
    BY <2>3 DEF EmptyEffect, Contract!Next, Contract!Drain
  <2>4. CASE WakeEffect \/ IdleEffect
    BY <2>4 DEF WakeEffect, IdleEffect
  <2> QED BY <1>2, <2>1, <2>2, <2>3, <2>4, StepEffects
<1> QED BY <1>1, <1>2, TypeCorrect, PTL DEF Spec, ImplementsBoundedQueue, Contract!Spec

-----------------------------------------------------------------------------
(* What a step can do to the free space and to the putters while nobody    *)
(* calls GetAll or Clear: one slot filled by at most one woken putter, one *)
(* slot freed and cond_empty_ signalled, or no slot freed and at most one  *)
(* more putter woken, or a queue that is full after the step.              *)
FillEffect ==
    /\ Len(data') = Len(data) + 1
    /\ condEmpty' = condEmpty
    /\ \E t \in Threads : wokenEmpty' = wokenEmpty \ {t}

FreeEffect == Len(data') = Len(data) - 1 /\ SignalEmpty

SameSpaceEffect == data' = data /\ SignalEmpty

FullEffect == ~HasRoom' /\ wokenEmpty' \subseteq Threads

QuietEffect == UNCHANGED <<data, condEmpty, wokenEmpty>>

(* Every step of the queue without GetAll and Clear has one of those       *)
(* effects.                                                                *)
LEMMA PutterEffects ==
    ASSUME TypeOK, [Next]_vars, DrainOps = {}
    PROVE  FillEffect \/ FreeEffect \/ SameSpaceEffect \/ FullEffect \/ QuietEffect
<1> DEFINE Goal == FillEffect \/ FreeEffect \/ SameSpaceEffect \/ FullEffect \/ QuietEffect
<1>0. TypeOK'
  BY TypeStep
<1>1. ASSUME NEW v \in Values, NEW back \in BOOLEAN, Push(v, back)
      PROVE  Len(data') = Len(data) + 1
  BY <1>1, PushType DEF Push, TypeOK
<1>2. ASSUME NEW t \in Threads, t \notin Blocked,
             UNCHANGED <<condEmpty, wokenEmpty>>, Len(data') = Len(data) + 1
      PROVE  FillEffect
  BY <1>2 DEF FillEffect, Blocked
<1>3. ASSUME ~HasRoom, data' = data
      PROVE  FullEffect
  BY <1>0, <1>3 DEF FullEffect, HasRoom, TypeOK
<1>4. ASSUME NEW t \in Threads, NEW v \in Values, NEW back \in BOOLEAN,
             PutAt(t, v, back)
      PROVE  Goal
  <2>1. CASE HasRoom
    BY <1>1, <1>2, <1>4, <2>1 DEF PutAt
  <2>2. CASE ~HasRoom
    BY <1>3, <1>4, <2>2 DEF PutAt
  <2> QED BY <2>1, <2>2
<1>5. ASSUME NEW t \in Threads, NEW v \in Values, Put(t, v)
      PROVE  Goal
  BY <1>4, <1>5, QueueAssumption DEF Put
<1>6. ASSUME NEW t \in Threads, NEW v \in Values, NEW back \in BOOLEAN,
             NEW ms \in {0, 1}, TimedPutAt(t, v, back, ms)
      PROVE  Goal
  <2>1. CASE HasRoom
    BY <1>1, <1>2, <1>6, <2>1 DEF TimedPutAt
  <2>2. CASE ~HasRoom
    BY <1>3, <1>6, <2>2 DEF TimedPutAt
  <2> QED BY <2>1, <2>2
<1>7. ASSUME NEW t \in Threads, PutResume(t)
      PROVE  Goal
  <2>1. call[t].val \in Values /\ call[t].back \in BOOLEAN
    BY <1>7 DEF PutResume, TypeOK, Calls
  <2>2. CASE HasRoom
    BY <1>1, <1>7, <2>1, <2>2 DEF PutResume, FillEffect
  <2>3. CASE ~HasRoom
    BY <1>3, <1>7, <2>3 DEF PutResume
  <2> QED BY <2>2, <2>3
<1>8. ASSUME data # << >>, Pop
      PROVE  Len(data') = Len(data) - 1
  BY <1>8, PopType DEF Pop, TypeOK
<1>9. ASSUME NEW t \in Threads, Get(t) \/ (\E ms \in {0, 1} : TimedGet(t, ms))
      PROVE  Goal
  <2>1. CASE data # << >>
    BY <1>8, <1>9, <2>1 DEF Get, TimedGet, FreeEffect
  <2>2. CASE data = << >>
    BY <1>9, <2>2 DEF Get, TimedGet, SameSpaceEffect, QuietEffect
  <2> QED BY <2>1, <2>2
<1>10. ASSUME NEW t \in Threads, GetResume(t)
      PROVE  Goal
  <2>1. CASE data # << >>
    BY <1>8, <1>10, <2>1 DEF GetResume, FreeEffect
  <2>2. CASE data = << >>
    BY <1>10, <2>2 DEF GetResume, SameSpaceEffect, QuietEffect
  <2> QED BY <2>1, <2>2
<1>11. ASSUME NEW t \in Threads, TimeoutExpires(t) \/ SpuriousWakeup(t)
      PROVE  Goal
  BY <1>11 DEF TimeoutExpires, SpuriousWakeup, SameSpaceEffect, SignalEmpty, QuietEffect
<1>12. CASE UNCHANGED vars
  BY <1>12 DEF vars, waits, QuietEffect
<1> QED
  BY <1>4, <1>5, <1>6, <1>7, <1>9, <1>10, <1>11, <1>12, QueueAssumption
     DEF Next, GetAll, Clear

(* No lost wakeup for Put while nobody drains the queue: the single        *)
(* pthread_cond_signal(&cond_empty_) of every Get is enough, because a Get *)
(* frees one slot.                                                         *)
THEOREM NoPutterStranded == DrainOps = {} => (Spec => []PuttersNotStranded)
<1> SUFFICES ASSUME DrainOps = {} PROVE Spec => []PuttersNotStranded
  OBVIOUS
<1>1. Init => PuttersNotStranded
  BY DEF Init, PuttersNotStranded
<1>2. ASSUME TypeOK, TypeOK', PuttersNotStranded, [Next]_vars
      PROVE  PuttersNotStranded'
  <2>1. SUFFICES ASSUME condEmpty' # {}
                 PROVE  MaxSize - Len(data') <= Cardinality(wokenEmpty')
    BY DEF PuttersNotStranded
  <2>2. /\ Len(data) \in Nat /\ Len(data') \in Nat /\ MaxSize \in Nat
        /\ wokenEmpty \subseteq Threads /\ wokenEmpty' \subseteq Threads
    BY <1>2, QueueAssumption DEF TypeOK
  <2>3. Cardinality(wokenEmpty) \in Nat /\ Cardinality(wokenEmpty') \in Nat
    BY <2>2, LeaveCount
  <2>4. ASSUME condEmpty # {}
        PROVE  MaxSize - Len(data) <= Cardinality(wokenEmpty)
    BY <1>2, <2>4 DEF PuttersNotStranded
  <2>5. CASE FillEffect
    <3>1. PICK t \in Threads : wokenEmpty' = wokenEmpty \ {t}
      BY <2>5 DEF FillEffect
    <3>2. Cardinality(wokenEmpty') >= Cardinality(wokenEmpty) - 1
      BY <2>2, <3>1, LeaveCount
    <3>3. condEmpty # {} /\ Len(data') = Len(data) + 1
      BY <2>1, <2>5 DEF FillEffect
    <3> QED BY <2>2, <2>3, <2>4, <3>2, <3>3
  <2>6. ASSUME SignalEmpty
        PROVE  /\ condEmpty # {}
               /\ Cardinality(wokenEmpty') = Cardinality(wokenEmpty) + 1
    <3>1. PICK w \in condEmpty : wokenEmpty' = wokenEmpty \cup {w}
      BY <2>1, <2>6 DEF SignalEmpty
    <3>2. w \in Threads /\ w \notin wokenEmpty
      BY <1>2, <3>1 DEF TypeOK
    <3> QED BY <2>2, <3>1, <3>2, WakeCount
  <2>7. CASE FreeEffect
    BY <2>2, <2>3, <2>4, <2>6, <2>7 DEF FreeEffect
  <2>8. CASE SameSpaceEffect
    BY <2>2, <2>3, <2>4, <2>6, <2>8 DEF SameSpaceEffect
  <2>9. CASE FullEffect
    BY <2>2, <2>3, <2>9 DEF FullEffect, HasRoom
  <2>10. CASE QuietEffect
    BY <2>1, <2>4, <2>10 DEF QuietEffect
  <2> QED BY <1>2, <2>5, <2>7, <2>8, <2>9, <2>10, PutterEffects
<1> QED BY <1>1, <1>2, TypeCorrect, PTL DEF Spec

-----------------------------------------------------------------------------
(* How the users of a FIFO queue call it: every put is at the back, and    *)
(* nobody drops elements with Clear.                                       *)
FifoUse == FifoPolicy = TRUE /\ Ends \subseteq {TRUE} /\ "Clear" \notin DrainOps

(* The putters that wait will put at the back too.                         *)
WaitersAtBack == \A t \in condEmpty \cup wokenEmpty : call[t].back = TRUE

(* An element accepted at the back is delivered after all the others.      *)
LEMMA FifoPush ==
    ASSUME TypeOK, Fifo, NEW v \in Values, Push(v, TRUE)
    PROVE  Fifo'
<1>1. accepted' = Append(accepted, v) /\ data' = Append(data, v) /\ delivered' = delivered
  BY DEF Push
<1>2. /\ <<v>> \in Seq(Values) /\ data \in Seq(Values)
      /\ delivered \in Seq(Values) /\ accepted \in Seq(Values)
  BY DEF TypeOK
<1>3. Append(accepted, v) = accepted \o <<v>> /\ Append(data, v) = data \o <<v>>
  BY <1>2, AppendIsConcat
<1>4. (delivered \o data) \o <<v>> = delivered \o (data \o <<v>>)
  BY <1>2, ConcatAssociative
<1> QED BY <1>1, <1>3, <1>4 DEF Fifo

(* The element at the front is the next that was accepted.                 *)
LEMMA FifoPop ==
    ASSUME TypeOK, Fifo, data # << >>, Pop
    PROVE  Fifo'
<1> DEFINE h == Head(data)
           r == Tail(data)
<1>1. accepted' = accepted /\ data' = r /\ delivered' = Append(delivered, h)
  BY DEF Pop
<1>2. data \in Seq(Values) /\ delivered \in Seq(Values) /\ h \in Values /\ r \in Seq(Values)
  BY PopType DEF TypeOK
<1>3. data = <<h>> \o r
  <2>1. Len(data) \in Nat \ {0} /\ Head(data) = data[1]
    BY <1>2
  <2>2. SubSeq(data, 1, Len(data)) = <<data[1]>> \o SubSeq(data, 2, Len(data))
    BY <1>2, <2>1, SubSeqRecursiveFirst
  <2> QED BY <1>2, <2>1, <2>2, SubSeqFull, TailIsSubSeq
<1>4. <<h>> \in Seq(Values) /\ Append(delivered, h) = delivered \o <<h>>
  BY <1>2, AppendIsConcat
<1> HIDE DEF h, r
<1>5. (delivered \o <<h>>) \o r = delivered \o (<<h>> \o r)
  BY <1>2, <1>4, ConcatAssociative
<1> QED BY <1>1, <1>3, <1>4, <1>5 DEF Fifo

(* Every step keeps the order.                                             *)
LEMMA FifoStep ==
    ASSUME FifoUse, TypeOK, Fifo, WaitersAtBack, [Next]_vars
    PROVE  Fifo' /\ WaitersAtBack'
<1> DEFINE Goal == Fifo' /\ WaitersAtBack'
<1>1. ASSUME NEW t \in Threads, NEW v \in Values, NEW timed \in BOOLEAN,
             \/ Push(v, TRUE) /\ UNCHANGED <<condEmpty, wokenEmpty, call>>
             \/ /\ condEmpty' = condEmpty \cup {t} /\ t \notin Blocked
                /\ call' = [call EXCEPT ![t] = PutCall(v, TRUE, timed)]
                /\ UNCHANGED <<data, wokenEmpty, accepted, delivered>>
             \/ UNCHANGED <<data, waits, accepted, delivered>>
      PROVE  Goal
  <2>1. Fifo'
    BY <1>1, FifoPush DEF Fifo
  <2>2. WaitersAtBack'
    <3>1. CASE UNCHANGED <<condEmpty, wokenEmpty, call>>
      BY <3>1 DEF WaitersAtBack
    <3>2. CASE /\ condEmpty' = condEmpty \cup {t} /\ UNCHANGED wokenEmpty
               /\ call' = [call EXCEPT ![t] = PutCall(v, TRUE, timed)]
      <4>1. call'[t].back = TRUE /\ \A u \in Threads \ {t} : call'[u] = call[u]
        BY <3>2 DEF PutCall, TypeOK
      <4>2. condEmpty \cup wokenEmpty \subseteq Threads
        BY DEF TypeOK
      <4> QED BY <3>2, <4>1, <4>2 DEF WaitersAtBack
    <3> QED BY <1>1, <3>1, <3>2 DEF waits
  <2> QED BY <2>1, <2>2
<1>2. ASSUME NEW t \in Threads, NEW v \in Values, PutAt(t, v, TRUE)
      PROVE  Goal
  BY <1>1, <1>2 DEF PutAt
<1>3. ASSUME NEW t \in Threads, NEW v \in Values, NEW ms \in {0, 1}, TimedPutAt(t, v, TRUE, ms)
      PROVE  Goal
  BY <1>1, <1>3 DEF TimedPutAt
<1>4. ASSUME NEW t \in Threads, PutResume(t)
      PROVE  Goal
  <2>1. call[t].val \in Values /\ call[t].back = TRUE /\ UNCHANGED call
    BY <1>4 DEF PutResume, TypeOK, WaitersAtBack
  <2>2. Fifo'
    BY <1>4, <2>1, FifoPush DEF PutResume, Fifo
  <2>3. WaitersAtBack'
    BY <1>4, <2>1 DEF PutResume, WaitersAtBack
  <2> QED BY <2>2, <2>3
<1>5. ASSUME condEmpty' \cup wokenEmpty' \subseteq condEmpty \cup wokenEmpty,
             \A t \in condEmpty' \cup wokenEmpty' : call'[t] = call[t]
      PROVE  WaitersAtBack'
  BY <1>5 DEF WaitersAtBack
<1>6. ASSUME NEW t \in Threads,
             Get(t) \/ (\E ms \in {0, 1} : TimedGet(t, ms)) \/ GetResume(t)
      PROVE  Goal
  <2>1. Fifo'
    BY <1>6, FifoPop DEF Get, TimedGet, GetResume, Fifo
  <2>2. \A u \in Threads \ {t} : call'[u] = call[u]
    BY <1>6 DEF Get, TimedGet, GetResume, TypeOK
  <2>3. t \notin condEmpty \cup wokenEmpty
    BY <1>6 DEF Get, TimedGet, GetResume, TypeOK, Blocked
  <2>4. condEmpty' \cup wokenEmpty' \subseteq condEmpty \cup wokenEmpty
    BY <1>6 DEF Get, TimedGet, GetResume, SignalEmpty
  <2>5. condEmpty \cup wokenEmpty \subseteq Threads
    BY DEF TypeOK
  <2> QED BY <1>5, <2>1, <2>2, <2>3, <2>4, <2>5
<1>7. ASSUME NEW t \in Threads, GetAll(t)
      PROVE  Goal
  <2>1. delivered \o data \in Seq(Values) /\ (delivered \o data) \o << >> = delivered \o data
    BY ConcatProperties, ConcatEmptySeq DEF TypeOK
  <2>2. Fifo'
    BY <1>7, <2>1 DEF GetAll, Fifo
  <2>3. WaitersAtBack'
    BY <1>5, <1>7 DEF GetAll, SignalEmpty
  <2> QED BY <2>2, <2>3
<1>8. ASSUME NEW t \in Threads, TimeoutExpires(t) \/ SpuriousWakeup(t)
      PROVE  Goal
  BY <1>5, <1>8 DEF TimeoutExpires, SpuriousWakeup, Fifo
<1>9. CASE UNCHANGED vars
  BY <1>5, <1>9 DEF vars, waits, Fifo
<1> QED BY <1>2, <1>3, <1>4, <1>6, <1>7, <1>8, <1>9 DEF Next, Put, Clear, FifoUse

(* First in, first out, through all the waits, timeouts and retries of the *)
(* threads: nothing is lost, doubled or overtaken.                         *)
THEOREM FirstInFirstOut == FifoUse => (Spec => []Fifo)
<1> SUFFICES ASSUME FifoUse PROVE Spec => []Fifo
  OBVIOUS
<1>1. Init => Fifo /\ WaitersAtBack
  <2>1. << >> = << >> \o << >>
    BY EmptySeq, ConcatEmptySeq
  <2> QED BY <2>1 DEF Init, Fifo, WaitersAtBack
<1>2. TypeOK /\ Fifo /\ WaitersAtBack /\ [Next]_vars => Fifo' /\ WaitersAtBack'
  BY FifoStep
<1> QED BY <1>1, <1>2, TypeCorrect, PTL DEF Spec
=============================================================================
