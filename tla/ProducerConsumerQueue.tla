----------------------- MODULE ProducerConsumerQueue -----------------------
(***************************************************************************)
(* synch::ProducerConsumerQueue<C>: a bounded deque shared by threads,     *)
(* protected by mutex_, with two condition variables: cond_full_ ("some    *)
(* element in queue") and cond_empty_ ("some free space in queue").        *)
(*                                                                         *)
(* A stretch of code that runs with mutex_ held is one step: it starts     *)
(* where the thread acquires the mutex (the call, or the return from       *)
(* pthread_cond_wait) and ends where it releases it (the return, or the    *)
(* next wait).  Between being woken and reacquiring the mutex a thread is  *)
(* in one of the woken sets, and any other thread may run first.           *)
(***************************************************************************)
EXTENDS Integers, Sequences, FiniteSets

CONSTANTS
    Threads,       \* the threads that share the queue
    Values,        \* the elements; each is put at most once
    NULL,          \* the C(NULL) of a Get that carries no value
    MaxSize,       \* max_size_; 0 means no limit
    FifoPolicy,    \* fifo_policy_: which end Put(p) uses
    Ends,          \* the at_back arguments the callers of PutAt use
    DrainOps       \* which of "GetAll" and "Clear" the callers use

ASSUME QueueAssumption ==
    /\ IsFiniteSet(Threads)
    /\ NULL \notin Values
    /\ MaxSize \in Nat
    /\ FifoPolicy \in BOOLEAN
    /\ Ends \subseteq BOOLEAN
    /\ DrainOps \subseteq {"GetAll", "Clear"}

VARIABLES
    data,          \* data_, front of the deque first
    condFull,      \* threads blocked on cond_full_
    condEmpty,     \* threads blocked on cond_empty_
    wokenFull,     \* threads back from cond_full_, waiting for mutex_
    wokenEmpty,    \* threads back from cond_empty_, waiting for mutex_
    call,          \* the arguments of each blocked thread's call
    unput,         \* values no caller has tried to put yet
    accepted,      \* history: the values pushed, in order
    delivered      \* history: the values handed to getters, in order

waits == <<condFull, condEmpty, wokenFull, wokenEmpty, call>>
vars == <<data, waits, unput, accepted, delivered>>

-----------------------------------------------------------------------------
Calls == [val : Values \cup {NULL}, back : BOOLEAN, timed : BOOLEAN]

GetCall(timed) == [val |-> NULL, back |-> FALSE, timed |-> timed]

PutCall(v, back, timed) == [val |-> v, back |-> back, timed |-> timed]

HasRoom == MaxSize = 0 \/ Len(data) < MaxSize

Blocked == condFull \cup condEmpty \cup wokenFull \cup wokenEmpty

\* Variant: cond_empty_ is signalled only by the taker of a full queue.
SignalEmptyIfFull ==
    \/ condEmpty = {} /\ UNCHANGED <<condEmpty, wokenEmpty>>
    \/ condEmpty # {} /\ HasRoom /\ UNCHANGED <<condEmpty, wokenEmpty>>
    \/ \E w \in condEmpty : /\ ~HasRoom
                            /\ condEmpty' = condEmpty \ {w}
                            /\ wokenEmpty' = wokenEmpty \cup {w}

\* pthread_cond_signal(&cond_full_): wakes one waiter, is lost without one.
SignalFull ==
    \/ condFull = {} /\ UNCHANGED <<condFull, wokenFull>>
    \/ \E w \in condFull : /\ condFull' = condFull \ {w}
                           /\ wokenFull' = wokenFull \cup {w}

\* pthread_cond_signal(&cond_empty_)
SignalEmpty ==
    \/ condEmpty = {} /\ UNCHANGED <<condEmpty, wokenEmpty>>
    \/ \E w \in condEmpty : /\ condEmpty' = condEmpty \ {w}
                            /\ wokenEmpty' = wokenEmpty \cup {w}

\* Variant: cond_full_ is signalled only by the first element.
PushSignalIfEmpty(v, back) ==
    /\ data' = IF back THEN Append(data, v) ELSE <<v>> \o data
    /\ accepted' = Append(accepted, v)
    /\ IF data = << >> THEN SignalFull ELSE UNCHANGED <<condFull, wokenFull>>
    /\ UNCHANGED delivered

Push(v, back) ==
    /\ data' = IF back THEN Append(data, v) ELSE <<v>> \o data
    /\ accepted' = Append(accepted, v)
    /\ SignalFull
    /\ UNCHANGED delivered

\* Variant: pop_back for pop_front.
PopBack ==
    /\ data' = SubSeq(data, 1, Len(data) - 1)
    /\ delivered' = Append(delivered, data[Len(data)])
    /\ UNCHANGED accepted

Pop ==
    /\ data' = Tail(data)
    /\ delivered' = Append(delivered, Head(data))
    /\ UNCHANGED accepted

-----------------------------------------------------------------------------
Init ==
    /\ data = << >>
    /\ condFull = {} /\ condEmpty = {}
    /\ wokenFull = {} /\ wokenEmpty = {}
    /\ call = [t \in Threads |-> GetCall(FALSE)]
    /\ unput = Values
    /\ accepted = << >> /\ delivered = << >>

(* void PutAt(C p, bool at_back): blocks until there is room.              *)
PutAt(t, v, back) ==
    /\ t \notin Blocked
    /\ v \in unput
    /\ unput' = unput \ {v}
    /\ \/ /\ HasRoom
          /\ Push(v, back)
          /\ UNCHANGED <<condEmpty, wokenEmpty, call>>
       \/ /\ ~HasRoom
          /\ condEmpty' = condEmpty \cup {t}
          /\ call' = [call EXCEPT ![t] = PutCall(v, back, FALSE)]
          /\ UNCHANGED <<data, condFull, wokenFull, wokenEmpty,
                         accepted, delivered>>

(* Put(p), and PutAt(p, kInfiniteWait, at_back), which calls Put(p) and so *)
(* uses the queue's own policy whatever at_back says.                      *)
Put(t, v) == PutAt(t, v, FifoPolicy)

(* bool PutAt(C p, uint32 timeout_in_ms, bool at_back) with a finite       *)
(* timeout: waits at most once, and only for a nonzero timeout.            *)
TimedPutAt(t, v, back, timeout) ==
    /\ t \notin Blocked
    /\ v \in unput
    /\ unput' = unput \ {v}
    /\ \/ /\ HasRoom
          /\ Push(v, back)
          /\ UNCHANGED <<condEmpty, wokenEmpty, call>>
       \/ /\ ~HasRoom
          /\ timeout > 0
          /\ condEmpty' = condEmpty \cup {t}
          /\ call' = [call EXCEPT ![t] = PutCall(v, back, TRUE)]
          /\ UNCHANGED <<data, condFull, wokenFull, wokenEmpty,
                         accepted, delivered>>
       \/ /\ ~HasRoom                       \* return false
          /\ timeout = 0
          /\ UNCHANGED <<data, waits, accepted, delivered>>

\* Variant: `if` for `while`, the woken putter does not test for room again.
PutResumeNoRetest(t) ==
    /\ t \in wokenEmpty
    /\ wokenEmpty' = wokenEmpty \ {t}
    /\ Push(call[t].val, call[t].back)
    /\ UNCHANGED <<condEmpty, call, unput>>

(* A Put or PutAt continues after pthread_cond_(timed)wait(&cond_empty_):  *)
(* the untimed one tests for room in a loop, the timed one only once more. *)
PutResume(t) ==
    /\ t \in wokenEmpty
    /\ wokenEmpty' = wokenEmpty \ {t}
    /\ \/ /\ HasRoom
          /\ Push(call[t].val, call[t].back)
          /\ UNCHANGED condEmpty
       \/ /\ ~HasRoom
          /\ condEmpty' = IF call[t].timed THEN condEmpty
                                           ELSE condEmpty \cup {t}
          /\ UNCHANGED <<data, condFull, wokenFull, accepted, delivered>>
    /\ UNCHANGED <<call, unput>>

(* C Get(): blocks until there is an element.                              *)
Get(t) ==
    /\ t \notin Blocked
    /\ \/ /\ data # << >>
          /\ Pop
          /\ SignalEmpty
          /\ UNCHANGED <<condFull, wokenFull, call>>
       \/ /\ data = << >>
          /\ condFull' = condFull \cup {t}
          /\ call' = [call EXCEPT ![t] = GetCall(FALSE)]
          /\ UNCHANGED <<data, condEmpty, wokenFull, wokenEmpty,
                         accepted, delivered>>
    /\ UNCHANGED unput

(* C Get(uint32 timeout_in_ms) with a finite timeout: signals cond_empty_  *)
(* even when it takes nothing and returns NULL.                            *)
TimedGet(t, timeout) ==
    /\ t \notin Blocked
    /\ \/ /\ data # << >>
          /\ Pop
          /\ SignalEmpty
          /\ UNCHANGED <<condFull, wokenFull, call>>
       \/ /\ data = << >>
          /\ timeout > 0
          /\ condFull' = condFull \cup {t}
          /\ call' = [call EXCEPT ![t] = GetCall(TRUE)]
          /\ UNCHANGED <<data, condEmpty, wokenFull, wokenEmpty,
                         accepted, delivered>>
       \/ /\ data = << >>
          /\ timeout = 0
          /\ SignalEmpty
          /\ UNCHANGED <<data, condFull, wokenFull, call,
                         accepted, delivered>>
    /\ UNCHANGED unput

(* A Get continues after pthread_cond_(timed)wait(&cond_full_).            *)
GetResume(t) ==
    /\ t \in wokenFull
    /\ wokenFull' = wokenFull \ {t}
    /\ \/ /\ data # << >>
          /\ Pop
          /\ SignalEmpty
          /\ UNCHANGED condFull
       \/ /\ data = << >>
          /\ call[t].timed
          /\ SignalEmpty
          /\ UNCHANGED <<data, condFull, accepted, delivered>>
       \/ /\ data = << >>
          /\ ~call[t].timed
          /\ condFull' = condFull \cup {t}
          /\ UNCHANGED <<data, condEmpty, wokenEmpty, accepted, delivered>>
    /\ UNCHANGED <<call, unput>>

(* void GetAll(std::vector<C>* out): takes everything, one signal.         *)
GetAll(t) ==
    /\ "GetAll" \in DrainOps
    /\ t \notin Blocked
    /\ data' = << >>
    /\ delivered' = delivered \o data
    /\ SignalEmpty
    /\ UNCHANGED <<condFull, wokenFull, call, unput, accepted>>

(* void Clear(): drops everything, one signal.                             *)
Clear(t) ==
    /\ "Clear" \in DrainOps
    /\ t \notin Blocked
    /\ data' = << >>
    /\ SignalEmpty
    /\ UNCHANGED <<condFull, wokenFull, call, unput, accepted, delivered>>

\* pthread_cond_timedwait returns ETIMEDOUT.
TimeoutExpires(t) ==
    /\ call[t].timed
    /\ \/ /\ t \in condFull
          /\ condFull' = condFull \ {t} /\ wokenFull' = wokenFull \cup {t}
          /\ UNCHANGED <<condEmpty, wokenEmpty>>
       \/ /\ t \in condEmpty
          /\ condEmpty' = condEmpty \ {t} /\ wokenEmpty' = wokenEmpty \cup {t}
          /\ UNCHANGED <<condFull, wokenFull>>
    /\ UNCHANGED <<data, call, unput, accepted, delivered>>

\* pthread_cond_(timed)wait may return without a signal.
SpuriousWakeup(t) ==
    /\ \/ /\ t \in condFull
          /\ condFull' = condFull \ {t} /\ wokenFull' = wokenFull \cup {t}
          /\ UNCHANGED <<condEmpty, wokenEmpty>>
       \/ /\ t \in condEmpty
          /\ condEmpty' = condEmpty \ {t} /\ wokenEmpty' = wokenEmpty \cup {t}
          /\ UNCHANGED <<condFull, wokenFull>>
    /\ UNCHANGED <<data, call, unput, accepted, delivered>>

Next ==
    \E t \in Threads :
        \/ \E v \in Values : Put(t, v)
        \/ \E v \in Values, back \in Ends : PutAt(t, v, back)
        \/ \E v \in Values, back \in Ends, ms \in {0, 1} :
               TimedPutAt(t, v, back, ms)
        \/ PutResume(t)
        \/ Get(t)
        \/ \E ms \in {0, 1} : TimedGet(t, ms)
        \/ GetResume(t)
        \/ GetAll(t)
        \/ Clear(t)
        \/ TimeoutExpires(t)
        \/ SpuriousWakeup(t)

(* A thread that pthread_cond_wait returned in reacquires the mutex sooner *)
(* or later: critical sections are finite and pthread_mutex_lock does not  *)
(* block for ever on a mutex that keeps being released.  Nothing obliges   *)
(* callers to call.                                                        *)
Spec == Init /\ [][Next]_vars
FairSpec == Spec /\ \A t \in Threads : WF_vars(PutResume(t)) /\ WF_vars(GetResume(t))

-----------------------------------------------------------------------------
(* Type invariant: every variable keeps its shape, and a thread is in at   *)
(* most one of the four waiting states of PutAt and Get.                   *)
TypeOK ==
    /\ data \in Seq(Values)
    /\ accepted \in Seq(Values) /\ delivered \in Seq(Values)
    /\ unput \subseteq Values
    /\ call \in [Threads -> Calls]
    /\ condFull \subseteq Threads /\ condEmpty \subseteq Threads
    /\ wokenFull \subseteq Threads /\ wokenEmpty \subseteq Threads
    /\ condFull \cap condEmpty = {} /\ wokenFull \cap wokenEmpty = {}
    /\ (condFull \cup condEmpty) \cap (wokenFull \cup wokenEmpty) = {}
    /\ \A t \in condEmpty \cup wokenEmpty : call[t].val \in Values

(* The queue never holds more than max_size_ elements, although a putter   *)
(* that was woken because there was room may find the slot taken by a      *)
(* putter that never waited (the re-test of PutAt after the wait).         *)
Bounded == MaxSize > 0 => Len(data) <= MaxSize

(* No lost wakeup for Get: while some getter sleeps on cond_full_, there   *)
(* are at least as many getters already woken as there are elements, so    *)
(* one pthread_cond_signal per push is enough, whatever mixture of timed   *)
(* and untimed getters wait and whoever takes the elements first.          *)
GettersNotStranded == condFull # {} => Len(data) <= Cardinality(wokenFull)

(* No lost wakeup for Put: while some putter sleeps on cond_empty_, there  *)
(* are at least as many putters already woken as there are free slots.     *)
PuttersNotStranded ==
    condEmpty # {} => MaxSize - Len(data) <= Cardinality(wokenEmpty)

(* cond_empty_ is "triggered when is some free space in queue": free space *)
(* with a putter asleep means that some putter has been triggered.         *)
FreeSpaceTriggersPutter == condEmpty # {} /\ HasRoom => wokenEmpty # {}

(* FIFO: when every caller puts at the back and nobody calls Clear, the    *)
(* elements come out in the order in which they were accepted, none lost   *)
(* and none twice, through all waits, timeouts and retries of Get.         *)
Fifo == accepted = delivered \o data

(* An element does not stay in the queue while a getter sleeps: either the *)
(* queue empties or no getter is left asleep.                              *)
DataReachesGetter ==
    (condFull # {} /\ data # << >>) ~> (condFull = {} \/ data = << >>)

(* The threaded queue implements the atomic bounded queue: whatever the    *)
(* threads do, each step changes the contents by one put with room, one    *)
(* take of the front element, one drain, or not at all.                    *)
Contract == INSTANCE BoundedQueue
ImplementsBoundedQueue == Contract!Spec

=============================================================================
