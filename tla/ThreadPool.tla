----------------------------- MODULE ThreadPool -----------------------------
(***************************************************************************)
(* thread::ThreadPool over its jobs_ queue: the worker loop (ThreadRun and *)
(* Run), clients that put jobs, RunBatch callers, and the owner that calls *)
(* Start, FinishWork and the destructor.                                   *)
(*                                                                         *)
(* jobs_ is used through its contract, BoundedQueue: a blocking Put is a   *)
(* step enabled while there is room, a blocking Get one enabled while      *)
(* there is an element (ProducerConsumerQueue shows that this is what the  *)
(* real queue does).  A runner is one pthread: <<t, g>> is the pthread     *)
(* that the g-th Start() created for threads_[t].                          *)
(***************************************************************************)
EXTENDS Integers, Sequences, FiniteSets

CONSTANTS
    NumThreads,     \* num_threads_
    Backlog,        \* backlog_size, the max_size_ of jobs_
    Jobs,           \* closures given to jobs()->Put, each once, not permanent
    Children,       \* the jobs that each job's own Run() puts into the pool
    Batches,        \* RunBatch calls; b also stands for its executor closure
    BatchJobs,      \* the jobs vector of each RunBatch call
    Blocking,       \* the RunBatch calls with completion == NULL
    NullJob,        \* the NULL closure that ends a worker
    MaxStarts       \* bound: how often the owner calls Start()

PoolAssumption ==
    /\ NumThreads \in Nat \ {0}
    /\ Backlog \in Nat
    /\ Backlog > NumThreads                 \* CHECK_GT in the constructor
    /\ Jobs \cap Batches = {} /\ NullJob \notin Jobs \cup Batches
    /\ Children \in [Jobs -> SUBSET Jobs]
    /\ BatchJobs \in [Batches -> Seq(Jobs \cup {NullJob})]
    /\ Blocking \subseteq Batches
    /\ MaxStarts \in Nat

VARIABLES
    jobs,           \* jobs_
    starts,         \* calls of Start(); started_ is starts > 0
    worker,         \* what each pthread is doing, and with which queue item
    numCompleted,   \* num_completed_
    callbackRuns,   \* how often completion_callback_ has run
    owner,          \* where the owner is, and the i of its sentinel loop
    batch,          \* the Batch objects and their RunBatch callers
    unputJobs,      \* jobs not put yet
    ran,            \* jobs whose Run() has returned
    promised        \* the jobs accepted before FinishWork was called

restVars == <<starts, numCompleted, callbackRuns, owner, unputJobs, promised>>
poolVars == <<jobs, worker, batch, ran, restVars>>

Queue == INSTANCE BoundedQueue WITH
             data <- jobs, MaxSize <- Backlog, Values <- Jobs \cup Batches \cup {NullJob}

-----------------------------------------------------------------------------
ThreadNumbers == 1 .. NumThreads
Runners == ThreadNumbers \X (1 .. MaxStarts)
Items == Jobs \cup Batches \cup {NullJob}

\* A worker that executes RunBatchJob(b) goes through these places.
BatchPlaces == {"batchPop", "batchRun", "batchLast"}
Places == {"none", "idle", "running", "leaving", "callback", "exited"} \cup BatchPlaces

\* Batch::Batch copies only the jobs that are not NULL.
ValidJobs(b) == Cardinality({i \in DOMAIN BatchJobs[b] : BatchJobs[b][i] # NullJob})

JobsHaveRoom == Queue!HasRoom(jobs)

\* The pthreads whose handles threads_[t]->thread_ hold: the last started.
Current == {r \in Runners : r[2] = starts}

GoTo(r, place, item) == worker' = [worker EXCEPT ![r] = [at |-> place, item |-> item]]

PoolInit ==
    /\ jobs = << >>
    /\ starts = 0
    /\ worker = [r \in Runners |-> [at |-> "none", item |-> NullJob]]
    /\ numCompleted = 0 /\ callbackRuns = 0
    /\ owner = [at |-> "using", i |-> 0]
    /\ batch = [b \in Batches |->
                  [state |-> "none", caller |-> "none", toPut |-> 0,
                   left |-> 0, toFinish |-> 0, signaled |-> FALSE]]
    /\ unputJobs = Jobs
    /\ ran = {} /\ promised = {}

-----------------------------------------------------------------------------
(* ThreadPoolBase::Start                                                   *)
Start ==
    /\ owner.at = "using"
    /\ starts < MaxStarts
    /\ starts' = starts + 1
    /\ worker' = [r \in Runners |-> IF r[2] = starts'
                                    THEN [at |-> "idle", item |-> NullJob]
                                    ELSE worker[r]]
    /\ UNCHANGED <<jobs, numCompleted, callbackRuns, owner, batch, unputJobs,
                   ran, promised>>

(* jobs()->Put(job) by a client of the pool, also while FinishWork runs.   *)
PutJob(j) ==
    /\ owner.at \in {"using", "finishing"}
    /\ j \in unputJobs
    /\ \A p \in Jobs : j \notin Children[p]
    /\ JobsHaveRoom
    /\ jobs' = Append(jobs, j)
    /\ unputJobs' = unputJobs \ {j}
    /\ UNCHANGED <<starts, worker, numCompleted, callbackRuns, owner, batch,
                   ran, promised>>

(* A job's Run() puts another job into the pool it runs on.                *)
PutChild(r, c) ==
    /\ worker[r].at = "running"
    /\ c \in Children[worker[r].item] \cap unputJobs
    /\ JobsHaveRoom
    /\ jobs' = Append(jobs, c)
    /\ unputJobs' = unputJobs \ {c}
    /\ UNCHANGED <<starts, worker, numCompleted, callbackRuns, owner, batch,
                   ran, promised>>

-----------------------------------------------------------------------------
(* ThreadRun: Closure* callback = jobs_.Get(), and what kind it is.        *)
ThreadRunGet(r) ==
    /\ worker[r].at = "idle"
    /\ jobs # << >>
    /\ jobs' = Tail(jobs)
    /\ GoTo(r, CASE Head(jobs) = NullJob -> "leaving"
                 [] Head(jobs) \in Jobs -> "running"
                 [] Head(jobs) \in Batches -> "batchPop", Head(jobs))
    /\ UNCHANGED <<batch, ran, restVars>>

(* callback->Run() returns (and has deleted the closure).                  *)
JobDone(r) ==
    /\ worker[r].at = "running"
    /\ Children[worker[r].item] \cap unputJobs = {}
    /\ ran' = ran \cup {worker[r].item}
    /\ GoTo(r, "idle", NullJob)
    /\ UNCHANGED <<jobs, batch, restVars>>

(* RunBatchJob: takes the front of batch->jobs_ under batch->mutex_.       *)
BatchPop(r) ==
    LET b == worker[r].item IN
    /\ worker[r].at = "batchPop"
    /\ batch' = [batch EXCEPT ![b].left = @ - 1]
    /\ GoTo(r, "batchRun", b)
    /\ UNCHANGED <<jobs, ran, restVars>>

\* Variant: the last job is the one that finds batch->jobs_ empty.
BatchJobDoneByList(r) ==
    LET b == worker[r].item IN
    /\ worker[r].at = "batchRun"
    /\ batch' = [batch EXCEPT ![b].toFinish = @ - 1]
    /\ IF batch[b].left = 0 THEN GoTo(r, "batchLast", b) ELSE GoTo(r, "idle", NullJob)
    /\ UNCHANGED <<jobs, ran, restVars>>

(* RunBatchJob: job->Run() returned; num_to_finish_ under batch->mutex_.   *)
BatchJobDone(r) ==
    LET b == worker[r].item IN
    /\ worker[r].at = "batchRun"
    /\ batch' = [batch EXCEPT ![b].toFinish = @ - 1]
    /\ IF batch'[b].toFinish = 0 THEN GoTo(r, "batchLast", b) ELSE GoTo(r, "idle", NullJob)
    /\ UNCHANGED <<jobs, ran, restVars>>

(* RunBatchJob, last job: runs the completion and deletes the batch, or    *)
(* signals the event the caller waits on.                                  *)
BatchComplete(r) ==
    LET b == worker[r].item IN
    /\ worker[r].at = "batchLast"
    /\ batch' = IF b \in Blocking THEN [batch EXCEPT ![b].signaled = TRUE]
                                  ELSE [batch EXCEPT ![b].state = "deleted"]
    /\ GoTo(r, "idle", NullJob)
    /\ UNCHANGED <<jobs, ran, restVars>>

\* Variant: every thread that leaves runs the completion callback.
LeaveEachDone(r) ==
    /\ worker[r].at = "leaving"
    /\ numCompleted' = numCompleted + 1
    /\ GoTo(r, "callback", NullJob)
    /\ UNCHANGED <<jobs, starts, callbackRuns, owner, batch, unputJobs, ran, promised>>

(* ThreadPoolBase::Run after ThreadRun: counts under completion_mutex_.    *)
(* threads_ still holds num_threads_ entries: it is cleared only after     *)
(* every Join.                                                             *)
Leave(r) ==
    /\ worker[r].at = "leaving"
    /\ numCompleted' = numCompleted + 1
    /\ IF numCompleted' >= NumThreads THEN GoTo(r, "callback", NullJob)
                                      ELSE GoTo(r, "exited", NullJob)
    /\ UNCHANGED <<jobs, starts, callbackRuns, owner, batch, unputJobs, ran, promised>>

(* completion_callback_->Run(), outside completion_mutex_.                 *)
CompletionCallback(r) ==
    /\ worker[r].at = "callback"
    /\ callbackRuns' = callbackRuns + 1
    /\ GoTo(r, "exited", NullJob)
    /\ UNCHANGED <<jobs, starts, numCompleted, owner, batch, unputJobs, ran, promised>>

-----------------------------------------------------------------------------
(* RunBatch: creates the batch and its executor.                           *)
RunBatch(b) ==
    /\ owner.at = "using"
    /\ batch[b].state = "none"
    /\ batch' = [batch EXCEPT ![b] =
                   [state |-> "alive", caller |-> "putting", toPut |-> ValidJobs(b),
                    left |-> ValidJobs(b), toFinish |-> ValidJobs(b),
                    signaled |-> FALSE]]
    /\ UNCHANGED <<jobs, worker, ran, restVars>>

(* RunBatch: one jobs_.Put(batch->executor()) of its loop.                 *)
BatchPut(b) ==
    /\ batch[b].caller = "putting"
    /\ batch[b].toPut > 0
    /\ JobsHaveRoom
    /\ jobs' = Append(jobs, b)
    /\ batch' = [batch EXCEPT ![b].toPut = @ - 1]
    /\ UNCHANGED <<worker, ran, restVars>>

\* Variant: waits for completion without having put every executor.
BatchReturnEarly(b) ==
    /\ batch[b].caller = "putting"
    /\ batch[b].toPut <= 1
    /\ batch' = IF b \in Blocking THEN [batch EXCEPT ![b].caller = "waiting"]
                                  ELSE [batch EXCEPT ![b].caller = "returned"]
    /\ UNCHANGED <<jobs, worker, ran, restVars>>

(* RunBatch after its loop: waits for the event, or returns.               *)
BatchReturn(b) ==
    /\ batch[b].caller = "putting"
    /\ batch[b].toPut = 0
    /\ batch' = IF b \in Blocking THEN [batch EXCEPT ![b].caller = "waiting"]
                                  ELSE [batch EXCEPT ![b].caller = "returned"]
    /\ UNCHANGED <<jobs, worker, ran, restVars>>

(* RunBatch: batch->Wait() returned; delete batch.                         *)
BatchWaitDone(b) ==
    /\ batch[b].caller = "waiting"
    /\ batch[b].signaled
    /\ batch' = [batch EXCEPT ![b].state = "deleted", ![b].caller = "returned"]
    /\ UNCHANGED <<jobs, worker, ran, restVars>>

-----------------------------------------------------------------------------
\* No RunBatch call is in progress in another thread.
NoCallInProgress == \A b \in Batches : batch[b].caller \in {"none", "returned"}

(* FinishWork takes wait_mutex_.                                           *)
FinishWork ==
    /\ owner.at = "using"
    /\ NoCallInProgress
    /\ owner' = [at |-> "finishing", i |-> 0]
    /\ promised' = Jobs \ unputJobs
    /\ UNCHANGED <<jobs, worker, batch, ran, starts, numCompleted,
                   callbackRuns, unputJobs>>

\* Variant: the sentinel goes to the front of the queue.
FinishPutNullFront ==
    /\ owner.at = "finishing"
    /\ owner.i < NumThreads
    /\ JobsHaveRoom
    /\ jobs' = <<NullJob>> \o jobs
    /\ owner' = [owner EXCEPT !.i = @ + 1]
    /\ UNCHANGED <<worker, batch, ran, starts, numCompleted, callbackRuns,
                   unputJobs, promised>>

(* FinishWork: one jobs_.Put(NULL) of its loop.                            *)
FinishPutNull ==
    /\ owner.at = "finishing"
    /\ owner.i < NumThreads
    /\ JobsHaveRoom
    /\ jobs' = Append(jobs, NullJob)
    /\ owner' = [owner EXCEPT !.i = @ + 1]
    /\ UNCHANGED <<worker, batch, ran, starts, numCompleted, callbackRuns,
                   unputJobs, promised>>

(* ~ThreadPool, by an owner whose callers are done with the pool.          *)
Destroy ==
    /\ owner.at \in {"using", "finished"}
    /\ NoCallInProgress
    /\ owner' = [owner EXCEPT !.at = "draining", !.i = 0]
    /\ UNCHANGED <<jobs, worker, batch, ran, starts, numCompleted,
                   callbackRuns, unputJobs, promised>>

(* ~ThreadPool: jobs_.Get(0) and delete, until it returns NULL (which a    *)
(* queued NULL does too).                                                  *)
DestroyDrain ==
    /\ owner.at = "draining"
    /\ IF jobs = << >> \/ Head(jobs) = NullJob
       THEN owner' = [owner EXCEPT !.at = "stopping"]
       ELSE UNCHANGED owner
    /\ jobs' = IF jobs = << >> THEN jobs ELSE Tail(jobs)
    /\ UNCHANGED <<worker, batch, ran, starts, numCompleted, callbackRuns,
                   unputJobs, promised>>

\* Variant: one sentinel too few.
DestroyPutNullShort ==
    /\ owner.at = "stopping"
    /\ owner.i < NumThreads
    /\ JobsHaveRoom
    /\ owner' = [owner EXCEPT !.i = @ + 1]
    /\ jobs' = IF owner.i = 0 THEN jobs ELSE Append(jobs, NullJob)
    /\ UNCHANGED <<worker, batch, ran, starts, numCompleted, callbackRuns,
                   unputJobs, promised>>

(* ~ThreadPool: jobs_.Put(NULL, 0) succeeds.                               *)
DestroyPutNull ==
    /\ owner.at = "stopping"
    /\ owner.i < NumThreads
    /\ JobsHaveRoom
    /\ owner' = [owner EXCEPT !.i = @ + 1]
    /\ jobs' = Append(jobs, NullJob)
    /\ UNCHANGED <<worker, batch, ran, starts, numCompleted, callbackRuns,
                   unputJobs, promised>>

(* ~ThreadPool: jobs_.Put(NULL, 0) fails, so jobs_.Get(0) makes room; what *)
(* it takes is deleted when it is a job.                                   *)
DestroyMakeRoom ==
    /\ owner.at = "stopping"
    /\ owner.i < NumThreads
    /\ ~JobsHaveRoom
    /\ jobs' = Tail(jobs)
    /\ UNCHANGED <<worker, batch, ran, restVars>>

(* WaitForFinishLocked: joins every thread, if they were started, and      *)
(* clears threads_; after an earlier FinishWork nothing is left to join    *)
(* (all current runners have exited).                                      *)
JoinAll ==
    /\ owner.at \in {"finishing", "stopping"}
    /\ owner.i = NumThreads
    /\ \A r \in Current : worker[r].at = "exited"
    /\ owner' = [owner EXCEPT !.at = IF owner.at = "finishing"
                                     THEN "finished" ELSE "destroyed"]
    /\ UNCHANGED <<jobs, worker, batch, ran, starts, numCompleted,
                   callbackRuns, unputJobs, promised>>

-----------------------------------------------------------------------------
WorkerStep(r) == \/ \E c \in Jobs : PutChild(r, c)
                 \/ JobDone(r) \/ BatchPop(r) \/ BatchJobDone(r)
                 \/ BatchComplete(r) \/ Leave(r) \/ CompletionCallback(r)

OwnerStep == FinishPutNull \/ DestroyDrain \/ DestroyPutNull \/ DestroyMakeRoom \/ JoinAll

CallerStep(b) == BatchPut(b) \/ BatchReturn(b) \/ BatchWaitDone(b)

PoolNext ==
    \/ Start \/ FinishWork \/ Destroy
    \/ \E j \in Jobs : PutJob(j)
    \/ \E b \in Batches : RunBatch(b) \/ CallerStep(b)
    \/ \E r \in Runners : ThreadRunGet(r) \/ WorkerStep(r)
    \/ OwnerStep

(* A thread inside an operation runs on, and jobs return (a job that never *)
(* returns keeps its worker).  Of the workers that wait in Get only some   *)
(* one is sure to get the element.  Nobody has to start an operation.      *)
PoolSpec == PoolInit /\ [][PoolNext]_poolVars

FairPoolSpec ==
    /\ PoolSpec
    /\ WF_poolVars(OwnerStep)
    /\ WF_poolVars(\E r \in Runners : ThreadRunGet(r))
    /\ \A r \in Runners : WF_poolVars(WorkerStep(r))
    /\ \A b \in Batches : WF_poolVars(CallerStep(b))

-----------------------------------------------------------------------------
(* Type invariant of the pool, its batches and its callers; a batch never  *)
(* gives out or finishes more jobs than it has (front() of an empty list,  *)
(* num_to_finish_ below zero).                                             *)
PoolTypeOK ==
    /\ jobs \in Seq(Items) /\ Len(jobs) <= Backlog
    /\ starts \in 0 .. MaxStarts
    /\ worker \in [Runners -> [at : Places, item : Items]]
    /\ numCompleted \in 0 .. NumThreads * MaxStarts
    /\ callbackRuns \in 0 .. NumThreads * MaxStarts
    /\ owner \in [at : {"using", "finishing", "finished", "draining",
                        "stopping", "destroyed"},
                  i : 0 .. NumThreads]
    /\ batch \in [Batches ->
                    [state : {"none", "alive", "deleted"},
                     caller : {"none", "putting", "waiting", "returned"},
                     toPut : Nat, left : Nat, toFinish : Nat,
                     signaled : BOOLEAN]]
    /\ unputJobs \subseteq Jobs /\ ran \subseteq Jobs /\ promised \subseteq Jobs

Sentinels == Cardinality({k \in DOMAIN jobs : jobs[k] = NullJob})

Alive == {r \in Current : worker[r].at \notin {"leaving", "callback", "exited"}}

(* While the owner waits in the joins of WaitForFinishLocked there is a    *)
(* NULL in jobs_ for every thread that has not taken one: no job of the    *)
(* clients, no batch and no drain of the destructor eats a sentinel.       *)
SentinelForEachThread ==
    owner.at \in {"finishing", "stopping"} /\ owner.i = NumThreads /\ starts > 0 =>
        Sentinels >= Cardinality(Alive)

(* completion_callback_ runs only when every thread has left ThreadRun,    *)
(* runs once, and has run before FinishWork or the destructor returns.     *)
CompletionOnce ==
    /\ callbackRuns <= 1
    /\ callbackRuns = 1 => numCompleted = NumThreads
    /\ owner.at \in {"finished", "destroyed"} /\ starts > 0 => callbackRuns = 1

(* FinishWork "terminates the threads waiting for all of their work to be  *)
(* done": when it returns, every job that was accepted before it was       *)
(* called has run, whatever was put while it was putting its sentinels.    *)
FinishRunsAll ==
    owner.at = "finished" /\ starts > 0 => promised \subseteq ran

(* Once a Batch is deleted, by its last worker or by the RunBatch caller,  *)
(* nobody uses it: no executor of it is queued, no worker is inside        *)
(* RunBatchJob with it and its caller has put everything.                  *)
BatchNotUsedAfterDelete ==
    \A b \in Batches : batch[b].state = "deleted" =>
        /\ \A k \in DOMAIN jobs : jobs[k] # b
        /\ \A r \in Runners : worker[r].at \in BatchPlaces => worker[r].item # b
        /\ batch[b].toPut = 0 /\ batch[b].left = 0 /\ batch[b].toFinish = 0

(* RunBatch on a started pool returns: a call with completion == NULL      *)
(* "blocks until all jobs completed", and jobs do complete.                *)
BatchReturns == \A b \in Batches :
    (starts > 0 /\ batch[b].caller = "putting") ~> (batch[b].caller = "returned")

(* ~ThreadPool "stops all threads (as soon as they are idle)": it returns. *)
DestructorTerminates == (owner.at = "draining") ~> (owner.at = "destroyed")
=============================================================================
