--------------------------- MODULE MCQueueAndPool ---------------------------
(***************************************************************************)
(* Small instances of the blocking queue and of the thread pool for TLC: a *)
(* FIFO queue whose users only put at the back and take from the front, a  *)
(* queue with puts at both ends, GetAll and Clear, and a pool with two     *)
(* threads.  A behaviour belongs to one of the three.                      *)
(***************************************************************************)
EXTENDS ProducerConsumerQueue, ThreadPool

CONSTANTS
    DrainedValues,      \* the values of the second queue
    j1, j2, j3, b1, b2

VARIABLES
    part,               \* which of the three runs
    data2, condFull2, condEmpty2, wokenFull2, wokenEmpty2, call2, unput2,
    accepted2, delivered2       \* the state of the second queue

Drained == INSTANCE ProducerConsumerQueue WITH
    Values <- DrainedValues, FifoPolicy <- FALSE, Ends <- BOOLEAN,
    DrainOps <- {"GetAll", "Clear"},
    data <- data2, condFull <- condFull2, condEmpty <- condEmpty2,
    wokenFull <- wokenFull2, wokenEmpty <- wokenEmpty2, call <- call2,
    unput <- unput2, accepted <- accepted2, delivered <- delivered2

drainedVars ==
    <<data2, condFull2, condEmpty2, wokenFull2, wokenEmpty2, call2, unput2,
      accepted2, delivered2>>

\* The job j1 puts j2 into its own pool.
OneSpawner == [j \in Jobs |-> IF j = j1 THEN {j2} ELSE {}]

\* The batches share j3, and b1, whose caller waits, has a NULL among its jobs.
SharedJob == [b \in Batches |-> IF b = b1 THEN <<j3, NullJob, j3>> ELSE <<j3, j3>>]

ASSUME PoolAssumption

all == <<part, vars, drainedVars, poolVars>>

QueueInit ==
    /\ part \in {"fifo", "drained", "pool"}
    /\ Init
    /\ Drained!Init
    /\ PoolInit

QueueNext ==
    /\ UNCHANGED part
    /\ \/ part = "fifo" /\ Next /\ UNCHANGED <<drainedVars, poolVars>>
       \/ part = "drained" /\ Drained!Next /\ UNCHANGED <<vars, poolVars>>
       \/ part = "pool" /\ PoolNext /\ UNCHANGED <<vars, drainedVars>>

\* The fairness of each component's own specification, where it runs.
QueueFairness ==
    /\ \A t \in Threads : /\ WF_vars(part = "fifo" /\ PutResume(t))
                          /\ WF_vars(part = "fifo" /\ GetResume(t))
    /\ \A t \in Threads :
           /\ WF_drainedVars(part = "drained" /\ Drained!PutResume(t))
           /\ WF_drainedVars(part = "drained" /\ Drained!GetResume(t))
    /\ WF_poolVars(part = "pool" /\ OwnerStep)
    /\ WF_poolVars(part = "pool" /\ \E r \in Runners : ThreadRunGet(r))
    /\ \A r \in Runners : WF_poolVars(part = "pool" /\ WorkerStep(r))
    /\ \A b \in Batches : WF_poolVars(part = "pool" /\ CallerStep(b))

QueueSpec == QueueInit /\ [][QueueNext]_all /\ QueueFairness

-----------------------------------------------------------------------------
(* The properties of the first queue and of the pool are checked as they   *)
(* are stated there; the following one, of both queues.                    *)

(* An element does not stay in a queue beside a sleeping getter, also when *)
(* GetAll and Clear take what the getters that were woken came for.        *)
GetterIsServed == DataReachesGetter /\ Drained!DataReachesGetter
=============================================================================
