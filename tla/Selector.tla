------------------------------ MODULE Selector ------------------------------
(***************************************************************************)
(* The event loop net::Selector of whisperlib/net/selector.cc with its     *)
(* closures, its alarms, the descriptors registered in it, and the         *)
(* util::Alarm objects of alarm.cc that work through it.                   *)
(*                                                                         *)
(* One thread runs Loop; the other threads only add closures.  A callback  *)
(* (closure, alarm or event handler) runs in the loop thread and is        *)
(* anything a user may do there: see Callback.  Times are kept relative to *)
(* now_, in ticks; lag is how far the clock is ahead of now_.              *)
(***************************************************************************)
EXTENDS Integers, Sequences, FiniteSets, SequencesExt

CONSTANTS
    Threads,            \* the threads other than the loop's
    Jobs,               \* closures of the users, each added at most once
    Alarms,             \* util::Alarm objects: fire_callback_ is their key
    Repeating,          \* the ones set with repeat
    Timeouts,           \* the timeouts an Alarm may be given
    Selectables,        \* objects registered at the start
    ClosuresPerEvent,   \* FLAGS_selector_num_closures_per_event
    WakeUp,             \* kStandardWakeUpTimeMs, in ticks
    HighPrecision,      \* FLAGS_selector_high_alarm_precission
    MaxLag,             \* bound: ticks that pass between two readings of the clock
    MaxQueue            \* bound: callbacks add closures up to this length

ASSUME SelectorAssumption ==
    /\ WakeUp \in Nat \ {0} /\ ClosuresPerEvent \in Nat \ {0}
    /\ Repeating \subseteq Alarms /\ Timeouts \subseteq Nat /\ MaxLag \in Nat /\ HighPrecision \in BOOLEAN
    /\ IsFiniteSet(Selectables)

VARIABLES
    pc,             \* where the loop thread is in Loop
    should_end_,
    to_run_,        \* the deque of closures
    signal,         \* event_fd_ is readable
    unsignalled,    \* the threads between push_back and SendWakeSignal
    left,           \* ticks left in epoll_wait; Forever for a negative timeout
    batch,          \* selectables of events not dispatched yet
    count,          \* run_count of the RunClosures that is running
    total,          \* run_count of this round of the loop
    alarms_,        \* set of <<due, alarm>>
    reverse_alarms_,\* function from alarms to due
    lag,
    registered_,
    deleted,        \* selectables deleted by DeleteInSelectLoop
    started,        \* Alarm::IsStarted, last_start_ts_ >= 0
    timeout_,       \* Alarm::timeout_
    firing_,        \* the set of alarms in Fire, at most one
    added,          \* observation: jobs that were added
    late            \* observation: closures added while should_end_ was set

loopVars == <<pc, should_end_, left, batch, count, total>>
queueVars == <<to_run_, signal, unsignalled, added, late>>
alarmVars == <<alarms_, reverse_alarms_, lag>>
objectVars == <<registered_, deleted, started, timeout_, firing_>>
vars == <<loopVars, queueVars, alarmVars, objectVars>>

Forever == -1

Job(j) == [op |-> "job", of |-> j]
Exit == [op |-> "exit"]
Register(a, t) == [op |-> "register", of |-> a, timeout |-> t]
Unregister(a) == [op |-> "unregister", of |-> a]
Delete(s) == [op |-> "delete", of |-> s]

Closures ==
    {Job(j) : j \in Jobs} \cup {Exit} \cup {Delete(s) : s \in Selectables}
    \cup {Register(a, t) : a \in Alarms, t \in Timeouts} \cup {Unregister(a) : a \in Alarms}

Locations == {"top", "poll", "dispatch", "drain", "closures", "alarms",
              "lastDrain", "lastClosures", "check", "ended", "aborted"}
Stopped == pc \in {"ended", "aborted"}

Init ==
    /\ pc = "top" /\ should_end_ = FALSE /\ left = 0 /\ batch = {} /\ count = 0 /\ total = 0
    /\ to_run_ = <<>> /\ signal = FALSE /\ unsignalled = {} /\ added = {} /\ late = {}
    /\ alarms_ = {} /\ reverse_alarms_ = [a \in {} |-> 0] /\ lag = 0
    /\ registered_ = Selectables /\ deleted = {} /\ started = [a \in Alarms |-> FALSE]
    /\ timeout_ \in [Alarms -> Timeouts] /\ firing_ = {}

-----------------------------------------------------------------------------
(* RunInSelectLoop: the closure is pushed under the mutex; another thread   *)
(* than the loop's then writes the wake signal in a step of its own.        *)

Push(q, c) ==
    /\ to_run_' = Append(q, c)
    /\ late' = IF should_end_ THEN late \cup {c} ELSE late

RunInSelectLoop(t, c) ==
    /\ t \notin unsignalled
    /\ ~Stopped
    /\ Push(to_run_, c)
    /\ unsignalled' = unsignalled \cup {t}
    /\ UNCHANGED <<loopVars, signal, alarmVars, objectVars>>

AddJob(t) ==
    \E j \in Jobs \ added :
        RunInSelectLoop(t, Job(j)) /\ added' = added \cup {j}

\* SelectorThread::Stop; the join is over when pc is "ended".
Stop(t) ==
    /\ \A c \in Range(to_run_) : c # Exit
    /\ ~should_end_
    /\ RunInSelectLoop(t, Exit)
    /\ UNCHANGED added

SendWakeSignal(t) ==
    /\ t \in unsignalled
    /\ unsignalled' = unsignalled \ {t}
    /\ signal' = TRUE
    /\ UNCHANGED <<loopVars, to_run_, added, late, alarmVars, objectVars>>

-----------------------------------------------------------------------------
(* What a callback may do in the loop thread, with the queue q it finds and *)
(* the alarms st it sees started.                                           *)

ResetTimeout(q, st) ==
    \E a \in Alarms, t \in Timeouts :
        /\ Len(q) < MaxQueue
        /\ timeout_' = [timeout_ EXCEPT ![a] = t]
        /\ Push(q, Register(a, t))
        /\ started' = [st EXCEPT ![a] = TRUE]
        /\ UNCHANGED <<added, registered_>>

StopAlarm(q, st) ==
    \E a \in Alarms :
        /\ st[a] /\ Len(q) < MaxQueue
        /\ Push(q, Unregister(a))
        /\ started' = [st EXCEPT ![a] = FALSE]
        /\ UNCHANGED <<added, registered_, timeout_>>

\* A connection is closed, which unregisters it, and deleted by a closure.
CloseAndDelete(q, st) ==
    \E s \in registered_ :
        /\ registered_' = registered_ \ {s}
        /\ Push(q, Delete(s))
        /\ started' = st /\ UNCHANGED <<added, timeout_>>

ChainJob(q, st) ==
    \E j \in Jobs \ added :
        /\ Push(q, Job(j)) /\ added' = added \cup {j}
        /\ started' = st /\ UNCHANGED <<registered_, timeout_>>

Callback(q, st) ==
    \/ to_run_' = q /\ started' = st /\ UNCHANGED <<added, late, registered_, timeout_>>
    \/ ResetTimeout(q, st)
    \/ StopAlarm(q, st)
    \/ CloseAndDelete(q, st)
    \/ ChainJob(q, st)

-----------------------------------------------------------------------------
(* now_ = TicksMsec(): every due time moves closer by the lag.              *)

RefreshNow ==
    /\ lag' = 0
    /\ alarms_' = {<<x[1] - lag, x[2]>> : x \in alarms_}
    /\ reverse_alarms_' = [a \in DOMAIN reverse_alarms_ |-> reverse_alarms_[a] - lag]

RefreshIfPrecise == IF HighPrecision THEN RefreshNow ELSE UNCHANGED alarmVars

FirstDue == CHOOSE d \in {x[1] : x \in alarms_} : \A x \in alarms_ : d <= x[1]

\* Variant: the closures that wait are not asked about.
ToSleepByAlarms ==
    LET nap == IF alarms_' # {} /\ FirstDue' < WakeUp THEN FirstDue' ELSE WakeUp
    IN  IF nap < 0 THEN Forever ELSE nap

\* Variant: the sleep is not limited by the first alarm.
ToSleepForEvents == IF to_run_ # <<>> THEN 0 ELSE Forever

\* to_sleep_ms; epoll_wait blocks without limit when it is negative.
ToSleep ==
    LET nap == IF alarms_' # {} /\ FirstDue' < WakeUp THEN FirstDue' ELSE WakeUp
    IN  IF to_run_ # <<>> THEN 0 ELSE IF nap < 0 THEN Forever ELSE nap

Top ==
    /\ pc = "top" /\ ~should_end_
    /\ RefreshIfPrecise
    /\ left' = ToSleep
    /\ pc' = "poll"
    /\ UNCHANGED <<should_end_, batch, count, total, queueVars, objectVars>>

\* LoopStep returns the selectables that are ready, at most all of them.
Return(ready) ==
    /\ pc = "poll"
    /\ RefreshNow
    /\ batch' = ready /\ left' = 0 /\ total' = 0
    /\ pc' = "dispatch"
    /\ UNCHANGED <<should_end_, count, queueVars, objectVars>>

Wakes == (signal \/ left = 0) /\ \E ready \in SUBSET registered_ : Return(ready)
EventsArrive == \E ready \in SUBSET registered_ \ {{}} : Return(ready)
Interrupted == Return({})

\* The handlers of one event; an object that was unregistered is skipped.
Dispatch ==
    /\ pc = "dispatch"
    /\ \E s \in batch :
        /\ batch' = batch \ {s}
        /\ IF s \in registered_ THEN Callback(to_run_, started)
           ELSE UNCHANGED <<to_run_, added, late, started, registered_, timeout_>>
    /\ UNCHANGED <<pc, should_end_, left, count, total, signal, unsignalled, alarmVars,
                   deleted, firing_>>

\* Variant: closures run between the events of one poll.
DispatchedEarly ==
    /\ pc = "dispatch"
    /\ pc' = "drain"
    /\ RefreshIfPrecise
    /\ UNCHANGED <<should_end_, left, batch, count, total, queueVars, objectVars>>

Dispatched ==
    /\ pc = "dispatch" /\ batch = {}
    /\ pc' = "drain"
    /\ RefreshIfPrecise
    /\ UNCHANGED <<should_end_, left, batch, count, total, queueVars, objectVars>>

\* RunClosures first empties event_fd_, then runs closures one by one.
Drain ==
    /\ pc \in {"drain", "lastDrain"}
    /\ signal' = FALSE /\ count' = 0
    /\ pc' = IF pc = "drain" THEN "closures" ELSE "lastClosures"
    /\ UNCHANGED <<should_end_, left, batch, total, to_run_, unsignalled, added, late,
                   alarmVars, objectVars>>

\* The pair that alarms_ holds for a, if any, by reverse_alarms_.
PairOf(a) == IF a \in DOMAIN reverse_alarms_ THEN {<<reverse_alarms_[a], a>>} ELSE {}

RegisterAlarm(a, t) ==
    /\ alarms_' = (alarms_ \ PairOf(a)) \cup {<<t, a>>}
    /\ reverse_alarms_' = [b \in DOMAIN reverse_alarms_ \cup {a} |->
                              IF b = a THEN t ELSE reverse_alarms_[b]]

UnregisterAlarm(a) ==
    /\ alarms_' = alarms_ \ PairOf(a)
    /\ reverse_alarms_' = [b \in DOMAIN reverse_alarms_ \ {a} |-> reverse_alarms_[b]]

Run(c, q) ==
    \/ /\ c.op = "job" /\ Callback(q, started)
       /\ UNCHANGED <<should_end_, alarms_, reverse_alarms_, deleted>>
    \/ /\ c.op # "job" /\ to_run_' = q
       /\ should_end_' = (should_end_ \/ c.op = "exit")
       /\ deleted' = IF c.op = "delete" THEN deleted \cup {c.of} ELSE deleted
       /\ CASE c.op = "register" -> RegisterAlarm(c.of, c.timeout)
            [] c.op = "unregister" -> UnregisterAlarm(c.of)
            [] OTHER -> UNCHANGED <<alarms_, reverse_alarms_>>
       /\ UNCHANGED <<added, late, started, registered_, timeout_>>

RunClosure ==
    /\ pc \in {"closures", "lastClosures"}
    /\ to_run_ # <<>> /\ count < ClosuresPerEvent
    /\ Run(Head(to_run_), Tail(to_run_))
    /\ count' = count + 1
    /\ UNCHANGED <<pc, left, batch, total, signal, unsignalled, lag, firing_>>

ClosuresDone ==
    /\ pc = "closures"
    /\ to_run_ = <<>> \/ count = ClosuresPerEvent
    /\ total' = total + count
    /\ IF count = 0 \/ total + count >= ClosuresPerEvent
       THEN pc' = "alarms" /\ RefreshIfPrecise
       ELSE pc' = "drain" /\ UNCHANGED alarmVars
    /\ UNCHANGED <<should_end_, left, batch, count, queueVars, objectVars>>

\* The first alarm that is due is taken out of both containers and fires:
\* Alarm::Fire forgets the start, runs the user's closure and starts again
\* when the alarm repeats.
Due == {x \in alarms_ : x[1] <= 0 /\ x[1] = FirstDue}

FireAlarm ==
    /\ pc = "alarms" /\ firing_ = {}
    /\ \E x \in Due :
        /\ alarms_' = alarms_ \ {x}
        /\ reverse_alarms_' = [b \in DOMAIN reverse_alarms_ \ {x[2]} |-> reverse_alarms_[b]]
        /\ Callback(to_run_, [started EXCEPT ![x[2]] = FALSE])
        /\ firing_' = {x[2]}
    /\ UNCHANGED <<loopVars, signal, unsignalled, lag, deleted>>

Fired ==
    /\ \E a \in firing_ :
        IF a \in Repeating
        THEN /\ Push(to_run_, Register(a, timeout_[a]))
             /\ started' = [started EXCEPT ![a] = TRUE]
        ELSE UNCHANGED <<to_run_, late, started>>
    /\ firing_' = {}
    /\ UNCHANGED <<loopVars, signal, unsignalled, added, alarmVars, registered_, deleted, timeout_>>

AlarmsDone ==
    /\ pc = "alarms" /\ Due = {} /\ firing_ = {}
    /\ pc' = "top"
    /\ UNCHANGED <<should_end_, left, batch, count, total, queueVars, alarmVars, objectVars>>

-----------------------------------------------------------------------------
(* The end of Loop: CleanAndCloseAll, whose Close handlers delete their      *)
(* objects, RunClosures until one finds nothing, the CHECK, the alarms.      *)

CleanAndCloseAll ==
    /\ pc = "top" /\ should_end_
    /\ LET closing == SetToSeq({Delete(s) : s \in registered_}) IN
         /\ to_run_' = to_run_ \o closing
         /\ late' = late \cup Range(closing)
    /\ registered_' = {}
    /\ RefreshNow
    /\ pc' = "lastDrain"
    /\ UNCHANGED <<should_end_, left, batch, count, total, signal, unsignalled, added,
                   deleted, started, timeout_, firing_>>

\* Variant: one RunClosures at the end instead of as many as it takes.
LastClosuresDoneOnce ==
    /\ pc = "lastClosures"
    /\ to_run_ = <<>> \/ count = ClosuresPerEvent
    /\ pc' = "check"
    /\ UNCHANGED <<should_end_, left, batch, count, total, queueVars, alarmVars, objectVars>>

LastClosuresDone ==
    /\ pc = "lastClosures"
    /\ to_run_ = <<>> \/ count = ClosuresPerEvent
    /\ pc' = IF count = 0 THEN "check" ELSE "lastDrain"
    /\ UNCHANGED <<should_end_, left, batch, count, total, queueVars, alarmVars, objectVars>>

\* CHECK(to_run_.empty()); alarms that are due are erased, the others leak.
CheckEmpty ==
    /\ pc = "check"
    /\ pc' = IF to_run_ = <<>> THEN "ended" ELSE "aborted"
    /\ alarms_' = {x \in alarms_ : x[1] > lag}
    /\ reverse_alarms_' = [a \in {x[2] : x \in alarms_'} |-> reverse_alarms_[a]]
    /\ UNCHANGED <<should_end_, left, batch, count, total, queueVars, lag, objectVars>>

\* The clock.
Tick ==
    /\ ~Stopped
    /\ lag < MaxLag \/ (pc = "poll" /\ left > 0)
    /\ lag' = lag + 1
    /\ left' = IF pc = "poll" /\ left > 0 THEN left - 1 ELSE left
    /\ UNCHANGED <<pc, should_end_, batch, count, total, queueVars, alarms_,
                   reverse_alarms_, objectVars>>

LoopStep ==
    \/ Top \/ Wakes \/ Dispatch \/ Dispatched \/ Drain \/ RunClosure \/ ClosuresDone
    \/ FireAlarm \/ Fired \/ AlarmsDone \/ CleanAndCloseAll \/ LastClosuresDone \/ CheckEmpty

Next ==
    \/ LoopStep \/ EventsArrive \/ Interrupted \/ Tick
    \/ \E t \in Threads : AddJob(t) \/ Stop(t) \/ SendWakeSignal(t)

Terminating == Stopped /\ unsignalled = {} /\ UNCHANGED vars

Spec == Init /\ [][Next \/ Terminating]_vars
Fairness ==
    /\ WF_vars(LoopStep) /\ WF_vars(Tick)
    /\ \A t \in Threads : WF_vars(SendWakeSignal(t))

FairSpec == Spec /\ Fairness

-----------------------------------------------------------------------------
(* The type invariant. *)
TypeOK ==
    /\ pc \in Locations /\ should_end_ \in BOOLEAN /\ signal \in BOOLEAN
    /\ left \in Forever..WakeUp /\ batch \subseteq Selectables
    /\ count \in 0..ClosuresPerEvent
    /\ to_run_ \in Seq(Closures) /\ unsignalled \subseteq Threads
    /\ \A x \in alarms_ : x[1] \in Int /\ x[2] \in Alarms
    /\ DOMAIN reverse_alarms_ \subseteq Alarms /\ lag \in Nat
    /\ registered_ \subseteq Selectables /\ deleted \subseteq Selectables
    /\ started \in [Alarms -> BOOLEAN] /\ firing_ \subseteq Alarms

(* RunInSelectLoop (selector.cc:326) wakes a loop that is or goes to sleep: *)
(* while closures wait and the loop sleeps, event_fd_ is readable or the    *)
(* thread that added the closure is about to make it so.  RunClosures may   *)
(* therefore empty event_fd_ only before it takes closures.                 *)
NoClosureAsleep ==
    pc = "poll" /\ left # 0 /\ to_run_ # <<>> => signal \/ unsignalled # {}

(* A selectable that is closed and handed to DeleteInSelectLoop is deleted  *)
(* after the events of the poll it was in are dispatched and never while it *)
(* is registered: no handler of selector.cc:173-199 runs on a deleted one.  *)
NoEventToDeleted == deleted \cap (registered_ \cup batch) = {}

(* The end of Loop runs every closure that was added before MakeLoopExit    *)
(* took effect, the ones behind it in the queue included; what is left in   *)
(* the queue or makes the CHECK at selector.cc:280 fail was added later.    *)
ExitRunsClosures == Stopped => Range(to_run_) \subseteq late

(* An alarm that stays registered and is not restarted fires in the end     *)
(* (selector.h:135, "run after timeout_in_ms"), unless the loop ends.       *)
AlarmFires ==
    \A a \in Alarms :
        []<>(\/ Stopped \/ a \notin DOMAIN reverse_alarms_
             \/ \E t \in Timeouts : Register(a, t) \in Range(to_run_))
=============================================================================
