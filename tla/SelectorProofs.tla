--------------------------- MODULE SelectorProofs ---------------------------
(***************************************************************************)
(* Proofs about net::Selector for any sets of threads, closures and        *)
(* alarms, any finite set of selectables and any timeouts.                 *)
(***************************************************************************)
EXTENDS Selector, SequenceTheorems, FiniteSetTheorems, TLAPS

(* The types that the proofs need.                                         *)
ShapeOK ==
    /\ to_run_ \in Seq(Closures)
    /\ timeout_ \in [Alarms -> Timeouts]
    /\ registered_ \subseteq Selectables
    /\ firing_ \subseteq Alarms /\ DOMAIN reverse_alarms_ \subseteq Alarms

(* Events wait only while they are dispatched, an alarm is in Fire only    *)
(* while alarms are run, and the end of Loop is reached with should_end_.  *)
PlaceOK ==
    /\ pc # "dispatch" => batch = {}
    /\ firing_ # {} => pc = "alarms"
    /\ pc \in {"lastDrain", "lastClosures", "check", "ended", "aborted"} => should_end_

(* What waits to be deleted is not registered any more.                    *)
DeletesOK == \A c \in Range(to_run_) : c.op = "delete" => c.of \notin registered_

(* From the CHECK on the queue holds only closures that were added late.   *)
LateOK == pc \in {"check", "ended", "aborted"} => Range(to_run_) \subseteq late

(* alarms_ and reverse_alarms_ hold the same alarms with the same times:   *)
(* the CHECKs at selector.cc:237, 293 and 370, which abort the process     *)
(* when an alarm of one is missing in the other, hold.                     *)
AlarmsAgree == alarms_ = {<<reverse_alarms_[a], a>> : a \in DOMAIN reverse_alarms_}

Inv ==
    /\ ShapeOK /\ PlaceOK /\ DeletesOK /\ LateOK /\ AlarmsAgree
    /\ NoEventToDeleted /\ NoClosureAsleep

-----------------------------------------------------------------------------
(* A closure at the end of the queue.                                      *)
LEMMA PushAdds ==
    ASSUME NEW q \in Seq(Closures), NEW c \in Closures, Push(q, c)
    PROVE  /\ to_run_' \in Seq(Closures) /\ Range(to_run_') = Range(q) \cup {c}
           /\ late \subseteq late' /\ (should_end_ => c \in late')
<1> DEFINE t == Append(q, c)
<1>1. /\ t \in Seq(Closures) /\ Len(t) = Len(q) + 1 /\ Len(q) \in Nat
      /\ \A i \in 1 .. Len(q) : t[i] = q[i]
      /\ t[Len(q) + 1] = c
  BY AppendProperties, LenProperties
<1>2. /\ Range(t) = {t[i] : i \in 1 .. Len(t)}
      /\ Range(q) = {q[i] : i \in 1 .. Len(q)}
  BY <1>1, RangeEquality
<1>3. 1 .. Len(q) + 1 = (1 .. Len(q)) \cup {Len(q) + 1}
  BY <1>1
<1> HIDE DEF t
<1>4. Range(t) = Range(q) \cup {c}
  BY <1>1, <1>2, <1>3
<1>5. to_run_' = t
  BY DEF Push, t
<1> QED BY <1>1, <1>4, <1>5 DEF Push

(* The queue without its first closure.                                    *)
LEMMA TakeFirst ==
    ASSUME NEW q \in Seq(Closures), q # <<>>
    PROVE  /\ Head(q) \in Closures /\ Head(q) \in Range(q)
           /\ Tail(q) \in Seq(Closures) /\ Range(Tail(q)) \subseteq Range(q)
<1> DEFINE t == Tail(q)
<1>1. /\ Head(q) \in Closures /\ t \in Seq(Closures)
      /\ Len(t) = Len(q) - 1 /\ \A i \in 1 .. Len(t) : t[i] = q[i + 1]
  BY HeadTailProperties
<1>2. Len(q) \in Nat /\ Len(q) > 0 /\ Head(q) = q[1]
  OBVIOUS
<1> HIDE DEF t
<1>3. /\ Range(t) = {t[i] : i \in 1 .. Len(t)}
      /\ Range(q) = {q[i] : i \in 1 .. Len(q)}
  BY <1>1, RangeEquality
<1>4. Range(t) \subseteq Range(q)
  <2> SUFFICES ASSUME NEW i \in 1 .. Len(t) PROVE t[i] \in Range(q)
    BY <1>3
  <2>1. i + 1 \in 1 .. Len(q)
    BY <1>1, <1>2
  <2> QED BY <2>1, <1>1, <1>3
<1>5. Head(q) \in Range(q)
  BY <1>2, <1>3
<1> QED BY <1>1, <1>4, <1>5 DEF t

(* Whatever a callback does, it deletes only what it has unregistered.     *)
LEMMA CallbackKeeps ==
    ASSUME ShapeOK, NEW q \in Seq(Closures), NEW st, Callback(q, st)
    PROVE  /\ to_run_' \in Seq(Closures) /\ timeout_' \in [Alarms -> Timeouts]
           /\ registered_' \subseteq registered_ /\ late \subseteq late'
           /\ \A c \in Range(to_run_') : c \in Range(q) \/ (c.op = "delete" => c.of \notin registered_')
<1>1. CASE to_run_' = q /\ UNCHANGED <<late, registered_, timeout_>>
  BY <1>1 DEF ShapeOK
<1>2. CASE ResetTimeout(q, st)
  <2>1. PICK a \in Alarms, t \in Timeouts :
            /\ timeout_' = [timeout_ EXCEPT ![a] = t] /\ Push(q, Register(a, t))
            /\ UNCHANGED registered_
    BY <1>2 DEF ResetTimeout
  <2>2. Register(a, t) \in Closures /\ Register(a, t).op # "delete"
    BY DEF Closures, Register
  <2> QED BY <2>1, <2>2, PushAdds DEF ShapeOK
<1>3. CASE StopAlarm(q, st)
  <2>1. PICK a \in Alarms : Push(q, Unregister(a)) /\ UNCHANGED <<registered_, timeout_>>
    BY <1>3 DEF StopAlarm
  <2>2. Unregister(a) \in Closures /\ Unregister(a).op # "delete"
    BY DEF Closures, Unregister
  <2> QED BY <2>1, <2>2, PushAdds DEF ShapeOK
<1>4. CASE CloseAndDelete(q, st)
  <2>1. PICK s \in registered_ : registered_' = registered_ \ {s} /\ Push(q, Delete(s)) /\ UNCHANGED timeout_
    BY <1>4 DEF CloseAndDelete
  <2>2. Delete(s) \in Closures /\ Delete(s).of = s
    BY DEF Closures, Delete, ShapeOK
  <2> QED BY <2>1, <2>2, PushAdds DEF ShapeOK
<1>5. CASE ChainJob(q, st)
  <2>1. PICK j \in Jobs : Push(q, Job(j)) /\ UNCHANGED <<registered_, timeout_>>
    BY <1>5 DEF ChainJob
  <2>2. Job(j) \in Closures /\ Job(j).op # "delete"
    BY DEF Closures, Job
  <2> QED BY <2>1, <2>2, PushAdds DEF ShapeOK
<1> QED BY <1>1, <1>2, <1>3, <1>4, <1>5 DEF Callback

(* Reading the clock moves both alarm containers alike.                    *)
LEMMA RefreshKeeps ==
    ASSUME AlarmsAgree, RefreshNow \/ RefreshIfPrecise \/ UNCHANGED alarmVars
    PROVE  AlarmsAgree' /\ DOMAIN reverse_alarms_' = DOMAIN reverse_alarms_
<1>1. CASE RefreshNow
  <2>1. reverse_alarms_' = [a \in DOMAIN reverse_alarms_ |-> reverse_alarms_[a] - lag]
    BY <1>1 DEF RefreshNow
  <2>2. alarms_' = {<<x[1] - lag, x[2]>> : x \in alarms_}
    BY <1>1 DEF RefreshNow
  <2> DEFINE moved == {<<reverse_alarms_[a] - lag, a>> : a \in DOMAIN reverse_alarms_}
  <2>4. ASSUME NEW y \in alarms_' PROVE y \in moved
    <3>1. PICK x \in alarms_ : y = <<x[1] - lag, x[2]>>
      BY <2>2
    <3>2. PICK a \in DOMAIN reverse_alarms_ : x = <<reverse_alarms_[a], a>>
      BY DEF AlarmsAgree
    <3> QED BY <3>1, <3>2
  <2>5. ASSUME NEW a \in DOMAIN reverse_alarms_ PROVE <<reverse_alarms_[a] - lag, a>> \in alarms_'
    <3> DEFINE x == <<reverse_alarms_[a], a>>
    <3>1. x \in alarms_ /\ x[1] = reverse_alarms_[a] /\ x[2] = a
      BY DEF AlarmsAgree
    <3> HIDE DEF x
    <3> QED BY <3>1, <2>2
  <2>3. alarms_' = moved
    BY <2>4, <2>5
  <2> QED BY <2>1, <2>3 DEF AlarmsAgree
<1>2. CASE UNCHANGED alarmVars
  BY <1>2 DEF alarmVars, AlarmsAgree
<1> QED BY <1>1, <1>2 DEF RefreshIfPrecise

(* An alarm is taken out of both containers.                               *)
LEMMA RemoveKeeps ==
    ASSUME AlarmsAgree, NEW a,
           alarms_' = alarms_ \ PairOf(a),
           reverse_alarms_' = [b \in DOMAIN reverse_alarms_ \ {a} |-> reverse_alarms_[b]]
    PROVE  AlarmsAgree'
  BY DEF AlarmsAgree, PairOf

(* An alarm that is registered again has its new time in both.             *)
LEMMA RegisterKeeps ==
    ASSUME AlarmsAgree, NEW a, NEW t, RegisterAlarm(a, t)
    PROVE  AlarmsAgree'
<1> DEFINE rest == DOMAIN reverse_alarms_ \ {a}
<1>1. alarms_ \ PairOf(a) = {<<reverse_alarms_[b], b>> : b \in rest}
  BY DEF AlarmsAgree, PairOf
<1>2. alarms_' = {<<reverse_alarms_[b], b>> : b \in rest} \cup {<<t, a>>}
  BY <1>1 DEF RegisterAlarm
<1>3. /\ DOMAIN reverse_alarms_' = rest \cup {a}
      /\ reverse_alarms_'[a] = t /\ \A b \in rest : reverse_alarms_'[b] = reverse_alarms_[b]
  BY DEF RegisterAlarm
<1> QED BY <1>2, <1>3 DEF AlarmsAgree

(* The loop starts asleep, with nothing to do.                             *)
LEMMA InitInv == Init => Inv
<1> SUFFICES ASSUME Init PROVE Inv
  OBVIOUS
<1>1. ShapeOK /\ PlaceOK
  BY DEF Init, ShapeOK, PlaceOK
<1>2. Range(<<>>) = {}
  BY DEF Range
<1>3. DeletesOK /\ LateOK /\ AlarmsAgree
  BY <1>2 DEF Init, DeletesOK, LateOK, AlarmsAgree
<1>4. NoEventToDeleted /\ NoClosureAsleep
  BY DEF Init, NoEventToDeleted, NoClosureAsleep
<1> QED BY <1>1, <1>3, <1>4 DEF Inv

(* Steps of the loop that touch neither queue nor objects: the clock is    *)
(* read, the loop goes to its next place.                                  *)
LEMMA MoveInv ==
    ASSUME Inv, Top \/ Dispatched \/ ClosuresDone \/ AlarmsDone
    PROVE  Inv'
<1> USE DEF Inv
<1>1. /\ UNCHANGED <<should_end_, queueVars, objectVars, batch>>
      /\ pc' \in {"poll", "drain", "alarms", "top"} /\ pc \notin {"check", "ended", "aborted"}
      /\ pc' = "poll" => Top
      /\ pc = "dispatch" => batch = {}
      /\ pc = "alarms" => firing_ = {}
  BY DEF Top, Dispatched, ClosuresDone, AlarmsDone
<1>2. AlarmsAgree' /\ DOMAIN reverse_alarms_' = DOMAIN reverse_alarms_
  BY RefreshKeeps DEF Top, Dispatched, ClosuresDone, AlarmsDone
<1>3. ShapeOK'
  BY <1>1, <1>2 DEF ShapeOK, queueVars, objectVars
<1>4. PlaceOK'
  BY <1>1 DEF PlaceOK, objectVars
<1>5. DeletesOK' /\ LateOK' /\ NoEventToDeleted'
  BY <1>1 DEF DeletesOK, LateOK, NoEventToDeleted, queueVars, objectVars
<1>6. NoClosureAsleep'
  <2> SUFFICES ASSUME pc' = "poll", to_run_' # <<>> PROVE left' = 0
    BY DEF NoClosureAsleep
  <2> QED BY <1>1 DEF Top, ToSleep, queueVars
<1> QED BY <1>2, <1>3, <1>4, <1>5, <1>6

(* LoopStep returns events of registered selectables, hence of live ones.  *)
LEMMA ReturnInv ==
    ASSUME Inv, NEW ready \in SUBSET registered_, Return(ready)
    PROVE  Inv'
<1> USE DEF Inv
<1>1. /\ UNCHANGED <<should_end_, queueVars, objectVars>>
      /\ pc = "poll" /\ pc' = "dispatch" /\ batch' = ready
  BY DEF Return
<1>2. AlarmsAgree' /\ DOMAIN reverse_alarms_' = DOMAIN reverse_alarms_
  BY RefreshKeeps DEF Return
<1>3. ShapeOK'
  BY <1>1, <1>2 DEF ShapeOK, queueVars, objectVars
<1>4. PlaceOK'
  BY <1>1 DEF PlaceOK, objectVars
<1>5. DeletesOK' /\ LateOK'
  BY <1>1 DEF DeletesOK, LateOK, queueVars, objectVars
<1>6. NoEventToDeleted' /\ NoClosureAsleep'
  BY <1>1 DEF NoEventToDeleted, NoClosureAsleep, objectVars
<1> QED BY <1>2, <1>3, <1>4, <1>5, <1>6

(* The steps at the end of Loop, the signal, and the clock.                *)
LEMMA QuietInv ==
    ASSUME Inv, \/ Drain \/ LastClosuresDone \/ Tick \/ UNCHANGED vars
                \/ \E t \in Threads : SendWakeSignal(t)
    PROVE  Inv'
<1> USE DEF Inv
<1>1. UNCHANGED <<should_end_, to_run_, late, batch, alarms_, reverse_alarms_, objectVars>>
  BY DEF Drain, LastClosuresDone, Tick, SendWakeSignal, vars, loopVars, queueVars, alarmVars
<1>2. ShapeOK' /\ AlarmsAgree' /\ DeletesOK' /\ NoEventToDeleted'
  BY <1>1 DEF ShapeOK, AlarmsAgree, DeletesOK, NoEventToDeleted, objectVars
<1>3. PlaceOK'
  BY <1>1 DEF PlaceOK, objectVars, Drain, LastClosuresDone, Tick, SendWakeSignal, vars, loopVars
<1>4. LateOK'
  <2>1. CASE LastClosuresDone
    <3>1. pc' = "check" => to_run_ = <<>>
      BY <2>1, SelectorAssumption DEF LastClosuresDone
    <3>2. Range(<<>>) = {}
      BY DEF Range
    <3> QED BY <1>1, <2>1, <3>1, <3>2 DEF LateOK, LastClosuresDone
  <2>2. CASE ~LastClosuresDone
    BY <1>1, <2>2 DEF LateOK, Drain, Tick, SendWakeSignal, vars, loopVars
  <2> QED BY <2>1, <2>2
<1>5. NoClosureAsleep'
  BY <1>1 DEF NoClosureAsleep, Drain, LastClosuresDone, Tick, SendWakeSignal, vars, loopVars, queueVars
<1> QED BY <1>2, <1>3, <1>4, <1>5

(* CHECK and the end: the alarms that are due leave both containers.       *)
LEMMA CheckEmptyInv ==
    ASSUME Inv, CheckEmpty
    PROVE  Inv'
<1> USE DEF Inv
<1>1. /\ UNCHANGED <<should_end_, batch, queueVars, objectVars>>
      /\ pc = "check" /\ pc' \in {"ended", "aborted"}
      /\ alarms_' = {x \in alarms_ : x[1] > lag}
      /\ reverse_alarms_' = [a \in {x[2] : x \in alarms_'} |-> reverse_alarms_[a]]
  BY DEF CheckEmpty
<1>2. \A x \in alarms_' : x[2] \in DOMAIN reverse_alarms_ /\ x = <<reverse_alarms_[x[2]], x[2]>>
  BY <1>1 DEF AlarmsAgree
<1>3. AlarmsAgree'
  BY <1>1, <1>2 DEF AlarmsAgree
<1>4. ShapeOK'
  BY <1>1, <1>2 DEF ShapeOK, queueVars, objectVars
<1>5. PlaceOK' /\ DeletesOK' /\ LateOK' /\ NoEventToDeleted' /\ NoClosureAsleep'
  BY <1>1 DEF PlaceOK, DeletesOK, LateOK, NoEventToDeleted, NoClosureAsleep, queueVars, objectVars
<1> QED BY <1>3, <1>4, <1>5

(* Another thread adds a closure: it is about to signal, and what it adds  *)
(* after the loop has been told to end is late.                            *)
LEMMA RunInSelectLoopInv ==
    ASSUME Inv, NEW t \in Threads, NEW c \in Closures, c.op # "delete", RunInSelectLoop(t, c)
    PROVE  Inv'
<1> USE DEF Inv
<1>1. /\ to_run_' \in Seq(Closures) /\ Range(to_run_') = Range(to_run_) \cup {c}
      /\ late \subseteq late' /\ (should_end_ => c \in late')
  BY PushAdds DEF RunInSelectLoop, ShapeOK
<1>2. /\ UNCHANGED <<loopVars, alarmVars, objectVars>> /\ unsignalled' # {}
  BY DEF RunInSelectLoop
<1>3. ShapeOK' /\ AlarmsAgree'
  BY <1>1, <1>2 DEF ShapeOK, AlarmsAgree, objectVars, alarmVars
<1>4. PlaceOK' /\ NoEventToDeleted' /\ NoClosureAsleep'
  BY <1>2 DEF PlaceOK, NoEventToDeleted, NoClosureAsleep, loopVars, objectVars
<1>5. DeletesOK' /\ LateOK'
  BY <1>1, <1>2 DEF DeletesOK, LateOK, PlaceOK, loopVars, objectVars
<1> QED BY <1>3, <1>4, <1>5

(* A callback runs in the loop's thread, with the queue q it finds.        *)
LEMMA CallbackInv ==
    ASSUME Inv, NEW q \in Seq(Closures), Range(q) \subseteq Range(to_run_),
           NEW st, Callback(q, st),
           pc \in {"dispatch", "closures", "lastClosures", "alarms"}, pc' = pc,
           batch' \subseteq batch, UNCHANGED <<deleted, should_end_>>,
           AlarmsAgree', DOMAIN reverse_alarms_' \subseteq Alarms,
           firing_' \subseteq Alarms, firing_' # {} => pc = "alarms"
    PROVE  Inv'
<1> USE DEF Inv
<1>1. /\ to_run_' \in Seq(Closures) /\ timeout_' \in [Alarms -> Timeouts]
      /\ registered_' \subseteq registered_ /\ late \subseteq late'
      /\ \A c \in Range(to_run_') : c \in Range(q) \/ (c.op = "delete" => c.of \notin registered_')
  BY CallbackKeeps
<1>2. ShapeOK'
  BY <1>1 DEF ShapeOK
<1>3. PlaceOK'
  BY DEF PlaceOK
<1>4. DeletesOK'
  BY <1>1 DEF DeletesOK
<1>5. LateOK' /\ NoClosureAsleep'
  BY DEF LateOK, NoClosureAsleep
<1>6. NoEventToDeleted'
  BY <1>1 DEF NoEventToDeleted
<1> QED BY <1>2, <1>3, <1>4, <1>5, <1>6

(* The handler of an event.                                                *)
LEMMA DispatchInv ==
    ASSUME Inv, Dispatch
    PROVE  Inv'
<1>1. PICK s \in batch :
        /\ batch' = batch \ {s}
        /\ IF s \in registered_ THEN Callback(to_run_, started)
           ELSE UNCHANGED <<to_run_, added, late, started, registered_, timeout_>>
  BY DEF Dispatch
<1>2. /\ pc = "dispatch"
      /\ UNCHANGED <<pc, should_end_, left, signal, unsignalled, alarmVars, deleted, firing_>>
  BY DEF Dispatch
<1>3. AlarmsAgree' /\ DOMAIN reverse_alarms_' \subseteq Alarms
  BY <1>2, RefreshKeeps DEF Inv, ShapeOK
<1>4. CASE s \in registered_
  <2>1. to_run_ \in Seq(Closures) /\ batch' \subseteq batch
    BY <1>1 DEF Inv, ShapeOK
  <2>2. firing_' \subseteq Alarms /\ firing_' = {}
    BY <1>2 DEF Inv, ShapeOK, PlaceOK
  <2>3. UNCHANGED <<deleted, should_end_>> /\ pc' = pc /\ pc \in {"dispatch", "closures", "lastClosures", "alarms"}
    BY <1>2
  <2>4. Callback(to_run_, started)
    BY <1>1, <1>4
  <2> QED BY <1>3, <2>1, <2>2, <2>3, <2>4, CallbackInv
<1>5. CASE s \notin registered_
  BY <1>1, <1>2, <1>3, <1>5 DEF Inv, ShapeOK, PlaceOK, DeletesOK, LateOK, NoEventToDeleted, NoClosureAsleep
<1> QED BY <1>4, <1>5

(* The first closure of the queue runs: a user's closure is a callback;    *)
(* the selector's own end the loop, delete, register or unregister.        *)
LEMMA RunClosureInv ==
    ASSUME Inv, RunClosure
    PROVE  Inv'
<1> DEFINE c == Head(to_run_)
           q == Tail(to_run_)
<1>1. /\ pc \in {"closures", "lastClosures"} /\ to_run_ # <<>> /\ Run(c, q)
      /\ UNCHANGED <<pc, left, batch, signal, unsignalled, firing_>>
  BY DEF RunClosure
<1>2. c \in Closures /\ c \in Range(to_run_) /\ q \in Seq(Closures) /\ Range(q) \subseteq Range(to_run_)
  BY <1>1, TakeFirst DEF Inv, ShapeOK
<1>3. batch = {} /\ firing_ = {}
  BY <1>1 DEF Inv, PlaceOK
<1> HIDE DEF c, q
<1>4. CASE c.op = "job" /\ Callback(q, started) /\ UNCHANGED <<should_end_, alarms_, reverse_alarms_, deleted>>
  <2>1. AlarmsAgree' /\ DOMAIN reverse_alarms_' \subseteq Alarms
    BY <1>4 DEF Inv, ShapeOK, AlarmsAgree
  <2>2. batch' \subseteq batch /\ firing_' \subseteq Alarms /\ firing_' = {} /\ pc' = pc
        /\ pc \in {"dispatch", "closures", "lastClosures", "alarms"}
    BY <1>1, <1>3
  <2> QED BY <1>2, <1>4, <2>1, <2>2, CallbackInv
<1>5. CASE c.op # "job"
  <2>1. /\ to_run_' = q
        /\ should_end_' = (should_end_ \/ c.op = "exit")
        /\ deleted' = IF c.op = "delete" THEN deleted \cup {c.of} ELSE deleted
        /\ UNCHANGED <<added, late, started, registered_, timeout_>>
        /\ CASE c.op = "register" -> RegisterAlarm(c.of, c.timeout)
             [] c.op = "unregister" -> UnregisterAlarm(c.of)
             [] OTHER -> UNCHANGED <<alarms_, reverse_alarms_>>
    BY <1>1, <1>5 DEF Run
  <2>2. AlarmsAgree' /\ DOMAIN reverse_alarms_' \subseteq Alarms
    <3>1. CASE c.op = "register"
      <4>1. c.of \in Alarms
        BY <1>2, <3>1 DEF Closures, Job, Exit, Delete, Register, Unregister
      <4>2. RegisterAlarm(c.of, c.timeout)
        BY <2>1, <3>1
      <4>3. DOMAIN reverse_alarms_' = DOMAIN reverse_alarms_ \cup {c.of}
        BY <4>2 DEF RegisterAlarm
      <4> QED BY <4>1, <4>2, <4>3, RegisterKeeps DEF Inv, ShapeOK
    <3>2. CASE c.op = "unregister"
      <4>1. UnregisterAlarm(c.of)
        BY <2>1, <3>2
      <4> QED BY <4>1, RemoveKeeps DEF UnregisterAlarm, Inv, ShapeOK
    <3>3. CASE c.op \notin {"register", "unregister"}
      <4>1. UNCHANGED <<alarms_, reverse_alarms_>>
        BY <2>1, <3>3
      <4> QED BY <4>1 DEF Inv, ShapeOK, AlarmsAgree
    <3> QED BY <3>1, <3>2, <3>3
  <2>3. ShapeOK'
    BY <1>1, <1>2, <2>1, <2>2 DEF Inv, ShapeOK
  <2>4. PlaceOK' /\ DeletesOK' /\ LateOK' /\ NoClosureAsleep'
    BY <1>1, <1>2, <2>1 DEF Inv, PlaceOK, DeletesOK, LateOK, NoClosureAsleep
  <2>5. NoEventToDeleted'
    BY <1>1, <1>2, <1>3, <2>1 DEF Inv, NoEventToDeleted, DeletesOK
  <2> QED BY <2>2, <2>3, <2>4, <2>5 DEF Inv
<1> QED BY <1>1, <1>4, <1>5 DEF Run

(* An alarm that is due leaves both containers and fires.                  *)
LEMMA FireAlarmInv ==
    ASSUME Inv, FireAlarm
    PROVE  Inv'
<1>1. PICK x \in Due :
        /\ alarms_' = alarms_ \ {x}
        /\ reverse_alarms_' = [b \in DOMAIN reverse_alarms_ \ {x[2]} |-> reverse_alarms_[b]]
        /\ Callback(to_run_, [started EXCEPT ![x[2]] = FALSE])
        /\ firing_' = {x[2]}
  BY DEF FireAlarm
<1>2. pc = "alarms" /\ UNCHANGED <<loopVars, deleted>>
  BY DEF FireAlarm
<1>3. x \in alarms_ /\ x[2] \in DOMAIN reverse_alarms_ /\ x = <<reverse_alarms_[x[2]], x[2]>>
  BY DEF Due, Inv, AlarmsAgree
<1>4. PairOf(x[2]) = {x}
  BY <1>3 DEF PairOf
<1>5. AlarmsAgree'
  BY <1>1, <1>4, RemoveKeeps DEF Inv
<1>6. DOMAIN reverse_alarms_' \subseteq Alarms /\ firing_' \subseteq Alarms
  BY <1>1, <1>3 DEF Inv, ShapeOK
<1>7. to_run_ \in Seq(Closures) /\ batch' \subseteq batch /\ pc' = pc /\ UNCHANGED should_end_
  BY <1>2 DEF Inv, ShapeOK, loopVars
<1> DEFINE st == [started EXCEPT ![x[2]] = FALSE]
<1>8. Callback(to_run_, st)
  BY <1>1
<1> HIDE DEF st
<1> QED BY <1>2, <1>5, <1>6, <1>7, <1>8, CallbackInv

(* After the user's closure a repeating alarm asks to be registered again. *)
LEMMA FiredInv ==
    ASSUME Inv, Fired
    PROVE  Inv'
<1> USE DEF Inv
<1>1. PICK a \in firing_ :
        IF a \in Repeating
        THEN Push(to_run_, Register(a, timeout_[a]))
        ELSE UNCHANGED <<to_run_, late>>
  BY DEF Fired
<1>2. /\ firing_' = {} /\ UNCHANGED <<loopVars, signal, unsignalled, alarmVars, registered_, deleted, timeout_>>
  BY DEF Fired
<1>3. pc = "alarms" /\ pc' = "alarms"
  BY <1>1, <1>2 DEF PlaceOK, loopVars
<1>4. Register(a, timeout_[a]) \in Closures /\ Register(a, timeout_[a]).op # "delete"
  BY <1>1 DEF Closures, Register, ShapeOK
<1>5. /\ to_run_' \in Seq(Closures) /\ late \subseteq late'
      /\ \A c \in Range(to_run_') : c.op = "delete" => c \in Range(to_run_)
  BY <1>1, <1>4, PushAdds DEF ShapeOK
<1>6. ShapeOK' /\ AlarmsAgree'
  BY <1>2, <1>5 DEF ShapeOK, AlarmsAgree, alarmVars
<1>7. PlaceOK' /\ LateOK' /\ NoClosureAsleep' /\ NoEventToDeleted'
  BY <1>2, <1>3 DEF PlaceOK, LateOK, NoClosureAsleep, NoEventToDeleted, loopVars
<1>8. DeletesOK'
  BY <1>2, <1>5 DEF DeletesOK
<1> QED BY <1>6, <1>7, <1>8

(* SetToSeq makes a queue of any finite set of closures.                   *)
LEMMA QueueOfSet ==
    ASSUME NEW S, IsFiniteSet(S)
    PROVE  SetToSeq(S) \in Seq(S)
<1>1. Cardinality(S) \in Nat /\ ExistsBijection(1 .. Cardinality(S), S)
  BY FS_CardinalityType
<1>2. \E f \in [1 .. Cardinality(S) -> S] : IsInjective(f)
  BY <1>1 DEF ExistsBijection, Bijection, Injection
<1>3. SetToSeq(S) \in [1 .. Cardinality(S) -> S]
  BY <1>2 DEF SetToSeq
<1> QED BY <1>1, <1>3, SeqDef

(* CleanAndCloseAll unregisters everything before it queues the deletions. *)
LEMMA CleanAndCloseAllInv ==
    ASSUME Inv, CleanAndCloseAll
    PROVE  Inv'
<1> USE DEF Inv
<1> DEFINE closures == {Delete(s) : s \in registered_}
           closing == SetToSeq(closures)
<1>1. /\ pc = "top" /\ should_end_ /\ to_run_' = to_run_ \o closing
      /\ registered_' = {} /\ RefreshNow /\ pc' = "lastDrain"
      /\ UNCHANGED <<should_end_, batch, signal, unsignalled, deleted, timeout_, firing_>>
  BY DEF CleanAndCloseAll
<1>2. IsFiniteSet(closures)
  <2>1. IsFiniteSet(registered_)
    BY SelectorAssumption, FS_Subset DEF ShapeOK
  <2> DEFINE f == [s \in registered_ |-> Delete(s)]
  <2>2. f \in Surjection(registered_, closures)
    BY DEF Surjection
  <2> QED BY <2>1, <2>2, FS_Surjection
<1>3. closing \in Seq(Closures)
  <2>1. closures \subseteq Closures
    BY DEF Closures, ShapeOK
  <2>2. closing \in Seq(closures)
    BY <1>2, QueueOfSet
  <2> QED BY <2>1, <2>2, SeqMonotonic
<1> HIDE DEF closing
<1>4. to_run_' \in Seq(Closures)
  BY <1>1, <1>3, ConcatProperties DEF ShapeOK
<1>5. AlarmsAgree' /\ DOMAIN reverse_alarms_' = DOMAIN reverse_alarms_
  BY <1>1, RefreshKeeps
<1>6. ShapeOK'
  BY <1>1, <1>4, <1>5 DEF ShapeOK
<1>7. PlaceOK' /\ LateOK' /\ NoClosureAsleep' /\ NoEventToDeleted' /\ DeletesOK'
  BY <1>1 DEF PlaceOK, LateOK, NoClosureAsleep, NoEventToDeleted, DeletesOK
<1> QED BY <1>5, <1>6, <1>7

(* The inductive invariant holds in every reachable state.                 *)
LEMMA InvHolds == Spec => []Inv
<1>1. ASSUME Inv, [Next \/ Terminating]_vars PROVE Inv'
  <2>1. ASSUME NEW t \in Threads, AddJob(t) \/ Stop(t) PROVE Inv'
    <3>1. /\ Exit \in Closures /\ Exit.op # "delete"
          /\ \A j \in Jobs : Job(j) \in Closures /\ Job(j).op # "delete"
      BY DEF Closures, Job, Exit
    <3>2. RunInSelectLoop(t, Exit) \/ \E j \in Jobs : RunInSelectLoop(t, Job(j))
      BY <2>1 DEF AddJob, Stop
    <3> QED BY <1>1, <3>1, <3>2, RunInSelectLoopInv
  <2>2. CASE Wakes \/ EventsArrive \/ Interrupted
    BY <1>1, <2>2, ReturnInv DEF Wakes, EventsArrive, Interrupted
  <2>3. CASE Next
    BY <1>1, <2>1, <2>2, <2>3, MoveInv, QuietInv, CheckEmptyInv, DispatchInv, RunClosureInv,
       FireAlarmInv, FiredInv, CleanAndCloseAllInv DEF Next, LoopStep
  <2>4. CASE UNCHANGED vars
    BY <1>1, <2>4, QuietInv
  <2> QED BY <1>1, <2>3, <2>4 DEF Terminating
<1> QED BY <1>1, InitInv, PTL DEF Spec

(* A loop that sleeps while closures wait has been woken, or is about to   *)
(* be (selector.cc:326).                                                   *)
THEOREM ClosuresWakeLoop == Spec => []NoClosureAsleep
<1>1. Inv => NoClosureAsleep
  BY DEF Inv
<1> QED BY <1>1, InvHolds, PTL

(* No event is dispatched to a selectable that DeleteInSelectLoop has      *)
(* deleted (selector.cc:173-199).                                          *)
THEOREM DeletedGetsNoEvent == Spec => []NoEventToDeleted
<1>1. Inv => NoEventToDeleted
  BY DEF Inv
<1> QED BY <1>1, InvHolds, PTL

(* Only closures that were added after MakeLoopExit took effect are left   *)
(* when Loop ends, or make its CHECK fail (selector.cc:280).               *)
THEOREM LoopEndsEmpty == Spec => []ExitRunsClosures
<1>1. Inv => ExitRunsClosures
  BY DEF Inv, LateOK, ExitRunsClosures, Stopped
<1> QED BY <1>1, InvHolds, PTL

(* The two containers of alarms agree, so that no CHECK about them fails   *)
(* (selector.cc:237, 293, 370).                                            *)
THEOREM AlarmContainersAgree == Spec => []AlarmsAgree
<1>1. Inv => AlarmsAgree
  BY DEF Inv
<1> QED BY <1>1, InvHolds, PTL
=============================================================================
