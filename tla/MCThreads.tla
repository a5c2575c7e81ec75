------------------------------ MODULE MCThreads ------------------------------
(***************************************************************************)
(* Small instances of the event and the lock-free queue for TLC.  They     *)
(* share no variables: a behaviour belongs to one of them, the other stays *)
(* as it was made.                                                         *)
(***************************************************************************)
EXTENDS Event, LockFreeQueue

VARIABLES
    part        \* the component that runs

ASSUME LockFreeAssumption

all == <<part, vars, ringVars>>

ThreadsInit ==
    /\ part \in {"event", "ring"}
    /\ Init /\ RingInit
    /\ part # "event" => manualReset /\ signaled

ThreadsNext ==
    \/ part = "event" /\ Next /\ UNCHANGED <<part, ringVars>>
    \/ part = "ring" /\ RingNext /\ UNCHANGED <<part, vars>>

\* The fairness of each component's own specification, where it runs.
ThreadsFairness ==
    /\ \A t \in Threads : WF_vars(part = "event" /\ Resume(t))
    /\ \A p \in Producers : WF_ringVars(part = "ring" /\ PutStep(p))
    /\ \A c \in Consumers : WF_ringVars(part = "ring" /\ GetStep(c))

ThreadsSpec == ThreadsInit /\ [][ThreadsNext]_all /\ ThreadsFairness
==============================================================================
