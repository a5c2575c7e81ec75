------------------------------- MODULE Event -------------------------------
(***************************************************************************)
(* synch::Event: a flag with waiters, manual or auto reset.  A stretch of  *)
(* code under mutex_ is one step; a thread that pthread_cond_(timed)wait   *)
(* returned in is woken until it holds the mutex again.                    *)
(***************************************************************************)
EXTENDS Integers, FiniteSets

CONSTANTS
    Threads,       \* the threads that use the event
    MaxSignals     \* bound: how many times Signal() is called

ASSUME EventAssumption ==
    /\ IsFiniteSet(Threads)
    /\ MaxSignals \in Nat

VARIABLES
    manualReset,   \* manual_reset_, a const member
    signaled,      \* is_signaled_
    asleep,        \* threads blocked on cond_
    woken,         \* threads back from cond_, waiting for mutex_
    timed,         \* waiters that called Wait(timeout_in_ms)
    expired,       \* timed waiters whose timeout has passed
    signals,       \* history: the calls of Signal(), and an initial signal
    released       \* history: the waits an auto reset event let through

vars == <<manualReset, signaled, asleep, woken, timed, expired, signals, released>>

Init ==
    /\ manualReset \in BOOLEAN
    /\ signaled \in BOOLEAN
    /\ asleep = {} /\ woken = {} /\ timed = {} /\ expired = {}
    /\ signals = (IF signaled THEN 1 ELSE 0) /\ released = 0

\* Variant: the auto reset event is not reset.
ReleaseKeepsSignal(t) ==
    /\ released' = IF manualReset THEN released ELSE released + 1
    /\ woken' = woken \ {t}
    /\ timed' = timed \ {t} /\ expired' = expired \ {t}
    /\ UNCHANGED <<manualReset, signaled, asleep, signals>>

\* The wait of t returns true: AutoResetLocked, then the caller goes on.
Release(t) ==
    /\ signaled' = manualReset
    /\ released' = IF manualReset THEN released ELSE released + 1
    /\ woken' = woken \ {t}
    /\ timed' = timed \ {t} /\ expired' = expired \ {t}
    /\ UNCHANGED <<manualReset, asleep, signals>>

(* Wait() and Wait(timeout_in_ms): return at once, give up at once (only   *)
(* with a timeout of 0), or sleep.                                         *)
Wait(t, timeout) ==
    /\ t \notin asleep \cup woken
    /\ \/ signaled /\ Release(t)
       \/ /\ ~signaled /\ timeout # 0
          /\ asleep' = asleep \cup {t}
          /\ timed' = IF timeout > 0 THEN timed \cup {t} ELSE timed
          /\ UNCHANGED <<manualReset, signaled, woken, expired, signals, released>>
       \/ ~signaled /\ timeout = 0 /\ UNCHANGED vars

\* Variant: a timed wait gives up without looking at the flag again.
ResumeGivesUp(t) ==
    /\ t \in woken
    /\ \/ /\ t \in expired
          /\ woken' = woken \ {t}
          /\ timed' = timed \ {t} /\ expired' = expired \ {t}
          /\ UNCHANGED <<manualReset, signaled, asleep, signals, released>>
       \/ t \notin expired /\ signaled /\ Release(t)
       \/ /\ t \notin expired /\ ~signaled
          /\ woken' = woken \ {t} /\ asleep' = asleep \cup {t}
          /\ UNCHANGED <<manualReset, signaled, timed, expired, signals, released>>

(* The loop of WaitLocked after pthread_cond_(timed)wait returned.         *)
Resume(t) ==
    /\ t \in woken
    /\ \/ signaled /\ Release(t)
       \/ /\ ~signaled
          /\ t \in timed /\ t \in expired            \* return false
          /\ woken' = woken \ {t}
          /\ timed' = timed \ {t} /\ expired' = expired \ {t}
          /\ UNCHANGED <<manualReset, signaled, asleep, signals, released>>
       \/ /\ ~signaled
          /\ t \notin expired
          /\ woken' = woken \ {t} /\ asleep' = asleep \cup {t}
          /\ UNCHANGED <<manualReset, signaled, timed, expired, signals, released>>

\* Variant: the flag is set and nobody is woken.
SignalFlagOnly ==
    /\ signals < MaxSignals
    /\ signals' = signals + 1
    /\ signaled' = TRUE
    /\ UNCHANGED <<manualReset, asleep, woken, timed, expired, released>>

(* Signal(): sets the flag and wakes all sleepers, or one.                 *)
Signal ==
    /\ signals < MaxSignals
    /\ signals' = signals + 1
    /\ signaled' = TRUE
    /\ \/ manualReset /\ asleep' = {} /\ woken' = woken \cup asleep
       \/ ~manualReset /\ asleep = {} /\ UNCHANGED <<asleep, woken>>
       \/ \E t \in asleep : /\ ~manualReset
                            /\ asleep' = asleep \ {t} /\ woken' = woken \cup {t}
    /\ UNCHANGED <<manualReset, timed, expired, released>>

(* Reset(), for manual reset events only (DCHECK).                         *)
Reset ==
    /\ manualReset
    /\ signaled' = FALSE
    /\ UNCHANGED <<manualReset, asleep, woken, timed, expired, signals, released>>

(* The timeout of a timed wait passes, while it sleeps or on its way back. *)
TimeoutExpires(t) ==
    /\ t \in timed /\ t \notin expired
    /\ expired' = expired \cup {t}
    /\ asleep' = asleep \ {t} /\ woken' = woken \cup {t}
    /\ UNCHANGED <<manualReset, signaled, timed, signals, released>>

\* pthread_cond_(timed)wait may return without a signal.
SpuriousWakeup(t) ==
    /\ t \in asleep
    /\ asleep' = asleep \ {t} /\ woken' = woken \cup {t}
    /\ UNCHANGED <<manualReset, signaled, timed, expired, signals, released>>

Forever == -1       \* kInfiniteWait

Next == \/ Signal \/ Reset
        \/ \E t \in Threads : \/ \E ms \in {Forever, 0, 1} : Wait(t, ms)
                              \/ Resume(t) \/ TimeoutExpires(t) \/ SpuriousWakeup(t)

(* A woken thread gets the mutex sooner or later.  Nobody has to signal.   *)
Spec == Init /\ [][Next]_vars
FairSpec == Spec /\ \A t \in Threads : WF_vars(Resume(t))

-----------------------------------------------------------------------------
(* Type invariant; a thread is in at most one place of its wait.           *)
TypeOK ==
    /\ manualReset \in BOOLEAN /\ signaled \in BOOLEAN
    /\ asleep \subseteq Threads /\ woken \subseteq Threads /\ asleep \cap woken = {}
    /\ timed \subseteq asleep \cup woken /\ expired \subseteq timed
    /\ expired \subseteq woken
    /\ signals \in Nat /\ released \in Nat

(* An auto reset event lets one waiter through per Signal(): the waits     *)
(* that returned true are never more than the signals (and the initial     *)
(* one), whatever timeouts, late callers and spurious wakeups do; two      *)
(* Signals before anybody wakes may count as one.                          *)
OnePerSignal ==
    ~manualReset =>
        released + (IF signaled THEN 1 ELSE 0) <= signals

(* No lost wakeup: while the event is signaled nobody sleeps on it unless  *)
(* somebody is on the way to take the signal (auto reset); on a manual     *)
(* reset event nobody sleeps at all.                                       *)
NoSleeperBesideSignal ==
    signaled /\ asleep # {} => ~manualReset /\ woken # {}

(* A signal does not stay beside a sleeping waiter.                        *)
SignalTaken == (signaled /\ asleep # {}) ~> (~signaled \/ asleep = {})
=============================================================================
