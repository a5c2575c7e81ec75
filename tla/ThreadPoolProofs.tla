-------------------------- MODULE ThreadPoolProofs --------------------------
(***************************************************************************)
(* Proofs about ThreadPool, for every number of threads, every backlog and *)
(* any jobs and batches.  A batch is safe because its counters count what  *)
(* is still under way: executors to be put, in the queue and in a worker.  *)
(* The others are about a pool that is started at most once, as its users  *)
(* do; that no sentinel is lost also needs that jobs put no jobs into      *)
(* their own pool, or the destructor may take a NULL out to make room.     *)
(***************************************************************************)
EXTENDS ThreadPool, SequenceTheorems, FiniteSetTheorems, TLAPS

-----------------------------------------------------------------------------
StartedOnce == MaxStarts <= 1
NoSpawning == \A j \in Jobs : Children[j] = {}

\* Where the items of jobs_ are, and the workers in a place with an item.
Indices(s, x) == {k \in DOMAIN s : s[k] = x}
Queued(x) == Indices(jobs, x)
InPlace(place, b) == {r \in Runners : worker[r].at = place /\ worker[r].item = b}

\* Workers past their NULL, and past the count of completed threads.
At(places) == {r \in Runners : worker[r].at \in places}
Left == At({"leaving", "callback", "exited"})
Counted == At({"callback", "exited"})
Calling == At({"callback"})

OwnerPlaces == {"using", "finishing", "finished", "draining", "stopping", "destroyed"}

BatchRecords ==
    [state : {"none", "alive", "deleted"}, caller : {"none", "putting", "waiting", "returned"},
     toPut : Nat, left : Int, toFinish : Int, signaled : BOOLEAN]

Shape ==
    /\ jobs \in Seq(Items)
    /\ starts \in 0 .. MaxStarts
    /\ worker \in [Runners -> [at : Places, item : Items]]
    /\ numCompleted \in Nat /\ callbackRuns \in Nat
    /\ owner \in [at : OwnerPlaces, i : 0 .. NumThreads]
    /\ batch \in [Batches -> BatchRecords]

\* A worker runs a job, or a batch, or nothing; it is there once it is started.
PlacesOK ==
    \A r \in Runners :
        /\ worker[r].at = "running" => worker[r].item \in Jobs
        /\ worker[r].at \in BatchPlaces => worker[r].item \in Batches
        /\ worker[r].at = "none" <=> r[2] > starts

\* Each counter of a batch is at least what is still to come down to it; the
\* last job is one, and it comes before the batch is signaled or deleted.
BatchOK(b) ==
    /\ batch[b].left >= batch[b].toPut + Cardinality(Queued(b))
                          + Cardinality(InPlace("batchPop", b))
    /\ batch[b].toFinish = batch[b].left + Cardinality(InPlace("batchRun", b))
    /\ batch[b].state = "none" =>
          ~batch[b].signaled /\ batch[b].toFinish = 0 /\ InPlace("batchLast", b) = {}
    /\ batch[b].signaled \/ batch[b].state = "deleted" =>
          batch[b].toFinish = 0 /\ InPlace("batchLast", b) = {}
    /\ \A r \in InPlace("batchLast", b) :
          batch[b].toFinish = 0 /\ InPlace("batchLast", b) = {r}

BatchInv == Shape /\ PlacesOK /\ \A b \in Batches : BatchOK(b)

\* num_completed_ counts the threads that have left; the last one calls back.
CountsOK ==
    /\ numCompleted = Cardinality(Counted)
    /\ callbackRuns + Cardinality(Calling) = IF numCompleted = NumThreads THEN 1 ELSE 0

JoinedOK ==
    owner.at \in {"finished", "destroyed"} => \A r \in Current : worker[r].at = "exited"

CompletionInv == Shape /\ PlacesOK /\ CountsOK /\ JoinedOK

\* Before FinishWork there is no NULL and nobody has left; ...
NobodyLeft == Queued(NullJob) = {} /\ Left = {}

\* ... an accepted job has run, runs or waits in jobs_; ...
Running(j) == \E r \in Runners : worker[r].at = "running" /\ worker[r].item = j
AcceptedOK ==
    owner.at = "using" =>
        /\ NobodyLeft
        /\ \A j \in Jobs \ unputJobs : j \in ran \/ Running(j) \/ Queued(j) # {}

\* ... and what waits when FinishWork is called waits before every NULL.
PromisedOK ==
    owner.at = "finishing" =>
        \A j \in promised \ ran :
            \/ Running(j)
            \/ Left = {} /\ \E k \in Queued(j) : \A l \in 1 .. k : jobs[l] # NullJob

FinishOK ==
    /\ AcceptedOK /\ PromisedOK /\ FinishRunsAll
    /\ promised \subseteq Jobs /\ unputJobs \subseteq Jobs

FinishInv == Shape /\ PlacesOK /\ FinishOK

\* No caller is inside RunBatch once the owner has begun to stop the pool.
CallersDone == owner.at # "using" => NoCallInProgress

\* The NULLs put so far are in jobs_ or have been taken by a thread that left.
SentinelsCount == Cardinality(Queued(NullJob)) + Cardinality(Left) = owner.i

SentinelsOK ==
    /\ owner.at = "using" => NobodyLeft
    /\ starts > 0 =>
        /\ owner.at = "finishing" => SentinelsCount
        /\ owner.at = "draining" => Left = Runners \/ (NobodyLeft /\ owner.i = 0)
        /\ owner.at = "stopping" => \/ Left = Runners
                                    \/ SentinelsCount /\ Queued(NullJob) = DOMAIN jobs
        /\ owner.at \in {"finished", "destroyed"} => Left = Runners

SentinelInv == Shape /\ PlacesOK /\ CallersDone /\ SentinelsOK

-----------------------------------------------------------------------------
(* Counting: one element more or less, an item put at the back, the item   *)
(* at the front taken.                                                     *)

(* How the size of a finite set changes when at most one element does.     *)
LEMMA Moved ==
    ASSUME NEW S, IsFiniteSet(S), NEW T, NEW r, T \ {r} = S \ {r}
    PROVE  /\ IsFiniteSet(T) /\ Cardinality(S) \in Nat /\ Cardinality(T) \in Nat
           /\ (r \in T <=> r \in S) => T = S
           /\ r \in T /\ r \notin S => Cardinality(T) = Cardinality(S) + 1
           /\ r \notin T /\ r \in S => Cardinality(T) = Cardinality(S) - 1
  <1>1. (r \in T <=> r \in S) => T = S
    <2>1. ASSUME NEW x, r \in T <=> r \in S PROVE x \in T <=> x \in S
      BY <2>1, x \in T \ {r} <=> x \in S \ {r}
    <2> QED BY <2>1
  <1>2. CASE r \in T <=> r \in S
    BY <1>1, <1>2, FS_CardinalityType
  <1>3. CASE r \in T /\ r \notin S
    <2>1. T = S \cup {r}
      <3>1. \A x : x \in T \ {r} <=> x \in S \ {r}
        OBVIOUS
      <3> QED BY <3>1, <1>3
    <2> QED BY <1>3, <2>1, FS_AddElement, FS_CardinalityType
  <1>4. CASE r \notin T /\ r \in S
    <2>1. T = S \ {r}
      BY <1>4
    <2>2. IsFiniteSet(T) /\ Cardinality(T) = Cardinality(S) - 1
      BY <1>4, <2>1, FS_RemoveElement
    <2> QED BY <1>4, <2>2, FS_CardinalityType
  <1> QED BY <1>1, <1>2, <1>3, <1>4

(* The places of an item in a sequence are finitely many.                  *)
LEMMA IndicesFinite ==
    ASSUME NEW S, NEW s \in Seq(S), NEW x
    PROVE  /\ IsFiniteSet(Indices(s, x))
           /\ Cardinality(Indices(s, x)) \in 0 .. Len(s)
  <1>1. DOMAIN s = 1 .. Len(s) /\ Len(s) \in Nat
    BY LenProperties
  <1>2. IsFiniteSet(1 .. Len(s)) /\ Cardinality(1 .. Len(s)) = Len(s)
    BY <1>1, FS_Interval, SMTT(30)
  <1>3. Indices(s, x) \in SUBSET (1 .. Len(s))
    BY <1>1 DEF Indices
  <1>4. IsFiniteSet(Indices(s, x)) /\ Cardinality(Indices(s, x)) <= Len(s)
    BY <1>2, <1>3, FS_Subset
  <1>5. Cardinality(Indices(s, x)) \in Nat
    BY <1>4, FS_CardinalityType
  <1> QED BY <1>1, <1>4, <1>5

(* Put at the back: one more of that item, the others as before.           *)
LEMMA CountAppend ==
    ASSUME NEW S, NEW s \in Seq(S), NEW e \in S, NEW x
    PROVE  /\ e = x => Cardinality(Indices(Append(s, e), x)) = Cardinality(Indices(s, x)) + 1
           /\ e # x => Indices(Append(s, e), x) = Indices(s, x)
  <1> DEFINE n == Len(s) + 1
             A == Append(s, e)
  <1>1. Len(s) \in Nat /\ DOMAIN s = 1 .. Len(s) /\ DOMAIN A = 1 .. n
    BY LenProperties, AppendProperties
  <1>2. A[n] = e /\ \A k \in 1 .. Len(s) : A[k] = s[k]
    BY AppendProperties
  <1> HIDE DEF A
  <1>3. Indices(A, x) \ {n} = Indices(s, x) \ {n} /\ n \notin Indices(s, x)
    BY <1>1, <1>2 DEF Indices
  <1>4. n \in Indices(A, x) <=> e = x
    BY <1>1, <1>2 DEF Indices
  <1>5. IsFiniteSet(Indices(s, x))
    BY IndicesFinite
  <1> HIDE DEF n
  <1>6. /\ (n \in Indices(A, x) <=> n \in Indices(s, x)) => Indices(A, x) = Indices(s, x)
        /\ n \in Indices(A, x) /\ n \notin Indices(s, x) =>
              Cardinality(Indices(A, x)) = Cardinality(Indices(s, x)) + 1
    BY <1>3, <1>5, Moved
  <1> QED BY <1>3, <1>4, <1>6 DEF A

(* Taken from the front: one less of that item, as many of the others.     *)
LEMMA CountTail ==
    ASSUME NEW S, NEW s \in Seq(S), s # << >>, NEW x
    PROVE  /\ Head(s) \in S /\ Tail(s) \in Seq(S)
           /\ Head(s) = x => Cardinality(Indices(Tail(s), x)) = Cardinality(Indices(s, x)) - 1
           /\ Head(s) # x => Cardinality(Indices(Tail(s), x)) = Cardinality(Indices(s, x))
  <1> DEFINE T == Tail(s)
             f == [k \in Indices(s, x) \ {1} |-> k - 1]
  <1>1. Len(s) \in Nat \ {0} /\ DOMAIN s = 1 .. Len(s) /\ Head(s) = s[1] /\ Head(s) \in S
    BY LenProperties, EmptySeq, HeadTailProperties
  <1>2. /\ T \in Seq(S) /\ Len(T) = Len(s) - 1 /\ DOMAIN T = 1 .. Len(s) - 1
        /\ \A k \in 1 .. Len(s) - 1 : T[k] = s[k + 1]
    BY <1>1, HeadTailProperties, LenProperties
  <1> HIDE DEF T
  <1>3. f \in Bijection(Indices(s, x) \ {1}, Indices(T, x))
    <2>1. f \in [Indices(s, x) \ {1} -> Indices(T, x)]
      <3>1. ASSUME NEW k \in Indices(s, x) \ {1} PROVE k - 1 \in Indices(T, x)
        <4>1. k \in 2 .. Len(s) /\ s[k] = x
          BY <1>1 DEF Indices
        <4>2. k - 1 \in 1 .. Len(s) - 1 /\ T[k - 1] = s[(k - 1) + 1] /\ (k - 1) + 1 = k
          BY <4>1, <1>1, <1>2
        <4> QED BY <4>1, <4>2, <1>2 DEF Indices
      <3> QED BY <3>1
    <2>2. \A a, b \in Indices(s, x) \ {1} : f[a] = f[b] => a = b
      BY <1>1 DEF Indices
    <2>3. \A m \in Indices(T, x) : \E k \in Indices(s, x) \ {1} : f[k] = m
      <3> SUFFICES ASSUME NEW m \in Indices(T, x)
                   PROVE  m + 1 \in Indices(s, x) \ {1} /\ f[m + 1] = m
        OBVIOUS
      <3>1. m \in 1 .. Len(s) - 1 /\ T[m] = x
        BY <1>2 DEF Indices
      <3>2. m + 1 \in 2 .. Len(s) /\ s[m + 1] = x
        BY <1>1, <1>2, <3>1
      <3>3. m + 1 \in Indices(s, x) \ {1}
        BY <1>1, <3>2 DEF Indices
      <3> QED BY <3>1, <3>3
    <2> HIDE DEF f
    <2>4. f \in Injection(Indices(s, x) \ {1}, Indices(T, x))
      BY <2>1, <2>2 DEF Injection, IsInjective
    <2>5. f \in Surjection(Indices(s, x) \ {1}, Indices(T, x))
      BY <2>1, <2>3 DEF Surjection
    <2> QED BY <2>4, <2>5 DEF Bijection
  <1>4. IsFiniteSet(Indices(s, x))
    BY IndicesFinite
  <1>5. IsFiniteSet(Indices(s, x) \ {1})
        /\ Cardinality(Indices(s, x) \ {1}) =
             IF 1 \in Indices(s, x) THEN Cardinality(Indices(s, x)) - 1
             ELSE Cardinality(Indices(s, x))
    BY <1>4, FS_RemoveElement
  <1>6. Cardinality(Indices(T, x)) = Cardinality(Indices(s, x) \ {1})
    <2>1. ExistsBijection(Indices(s, x) \ {1}, Indices(T, x))
      BY <1>3 DEF ExistsBijection
    <2> QED BY <2>1, <1>5, FS_Bijection
  <1>7. 1 \in Indices(s, x) <=> Head(s) = x
    BY <1>1 DEF Indices
  <1> HIDE DEF f
  <1> QED BY <1>1, <1>2, <1>5, <1>6, <1>7 DEF T

(* The pthreads of the pool are finitely many.                             *)
LEMMA RunnersFinite ==
    ASSUME PoolAssumption
    PROVE  /\ IsFiniteSet(Runners)
           /\ StartedOnce /\ MaxStarts > 0 => Cardinality(Runners) = NumThreads
  <1>1. /\ IsFiniteSet(ThreadNumbers) /\ Cardinality(ThreadNumbers) = NumThreads
        /\ IsFiniteSet(1 .. MaxStarts)
        /\ StartedOnce /\ MaxStarts > 0 => Cardinality(1 .. MaxStarts) = 1
    BY FS_Interval DEF PoolAssumption, ThreadNumbers, StartedOnce
  <1>2. /\ IsFiniteSet(Runners)
        /\ Cardinality(Runners) = NumThreads * Cardinality(1 .. MaxStarts)
    BY <1>1, FS_Product DEF Runners
  <1>3. NumThreads * 1 = NumThreads
    BY DEF PoolAssumption
  <1> QED BY <1>1, <1>2, <1>3

-----------------------------------------------------------------------------
(* What one worker does to the places of all.                              *)
LEMMA Goes ==
    ASSUME Shape, NEW r \in Runners, NEW place \in Places, NEW item \in Items,
           GoTo(r, place, item)
    PROVE  /\ worker'[r].at = place /\ worker'[r].item = item
           /\ \A q \in Runners \ {r} : worker'[q] = worker[q]
           /\ worker' \in [Runners -> [at : Places, item : Items]]
  BY DEF Shape, GoTo

(* The updates of a Batch by its workers keep its type.                    *)
LEMMA BatchKept ==
    ASSUME batch \in [Batches -> BatchRecords], NEW b \in Batches,
           \/ batch' = [batch EXCEPT ![b].left = @ - 1]
           \/ batch' = [batch EXCEPT ![b].toFinish = @ - 1]
           \/ batch' = [batch EXCEPT ![b].signaled = TRUE]
           \/ batch' = [batch EXCEPT ![b].state = "deleted"]
    PROVE  batch' \in [Batches -> BatchRecords]
  <1>1. CASE batch' = [batch EXCEPT ![b].left = @ - 1]
    BY <1>1 DEF BatchRecords
  <1>2. CASE batch' = [batch EXCEPT ![b].toFinish = @ - 1]
    BY <1>2 DEF BatchRecords
  <1>3. CASE batch' = [batch EXCEPT ![b].signaled = TRUE]
    BY <1>3, ZenonT(60) DEF BatchRecords
  <1>4. CASE batch' = [batch EXCEPT ![b].state = "deleted"]
    BY <1>4 DEF BatchRecords
  <1> QED BY <1>1, <1>2, <1>3, <1>4

(* A Batch has a number of jobs.                                           *)
LEMMA ValidJobsType == ASSUME PoolAssumption, NEW b \in Batches PROVE ValidJobs(b) \in Nat
  <1> DEFINE s == BatchJobs[b]
             V == {i \in DOMAIN s : s[i] # NullJob}
  <1>1. s \in Seq(Jobs \cup {NullJob})
    BY DEF PoolAssumption
  <1>2. DOMAIN s = 1 .. Len(s) /\ IsFiniteSet(1 .. Len(s))
    BY <1>1, LenProperties, FS_Interval, SMTT(30)
  <1>3. V \in SUBSET (1 .. Len(s))
    BY <1>2
  <1>4. Cardinality(V) \in Nat
    BY <1>2, <1>3, FS_Subset, FS_CardinalityType
  <1> QED BY <1>4 DEF ValidJobs

(* Every step keeps the types, and every worker where it may be.           *)
LEMMA ShapeStep == PoolAssumption /\ Shape /\ PlacesOK /\ PoolNext => (Shape /\ PlacesOK)'
  <1> SUFFICES ASSUME PoolAssumption, Shape, PlacesOK, PoolNext PROVE (Shape /\ PlacesOK)'
    OBVIOUS
  <1> USE DEF PoolAssumption
  <1>A. /\ jobs \in Seq(Items) /\ starts \in 0 .. MaxStarts
        /\ worker \in [Runners -> [at : Places, item : Items]]
        /\ numCompleted \in Nat /\ callbackRuns \in Nat
        /\ owner \in [at : OwnerPlaces, i : 0 .. NumThreads]
        /\ owner.at \in OwnerPlaces /\ owner.i \in 0 .. NumThreads
    BY DEF Shape
  <1>B. batch \in [Batches -> BatchRecords]
    BY DEF Shape
  <1>1. ASSUME Start PROVE (Shape /\ PlacesOK)'
    <2>2. worker' \in [Runners -> [at : Places, item : Items]]
      BY <1>1, <1>A DEF Start, Places, Items
    <2>6. Shape'
      BY <1>1, <1>A, <1>B, <2>2 DEF Start, Shape, restVars, OwnerPlaces
    <2>7. PlacesOK'
      BY <1>1, <1>A, <2>2 DEF Start, PlacesOK, restVars, BatchPlaces, Runners, ThreadNumbers
    <2> QED BY <2>6, <2>7
  <1>2. ASSUME FinishWork PROVE (Shape /\ PlacesOK)'
    <2>6. Shape'
      BY <1>2, <1>A, <1>B DEF FinishWork, Shape, restVars, OwnerPlaces
    <2>7. PlacesOK'
      BY <1>2, <1>A DEF FinishWork, PlacesOK, restVars
    <2> QED BY <2>6, <2>7
  <1>3. ASSUME Destroy PROVE (Shape /\ PlacesOK)'
    <2>2. owner' \in [at : OwnerPlaces, i : 0 .. NumThreads]
      <3>1. 0 \in 0 .. NumThreads /\ (owner.i < NumThreads => owner.i + 1 \in 0 .. NumThreads)
        BY <1>A
      <3> QED BY <1>3, <1>A, <3>1 DEF Destroy, OwnerPlaces
    <2>6. Shape'
      BY <1>3, <1>A, <1>B, <2>2 DEF Destroy, Shape, restVars, OwnerPlaces
    <2>7. PlacesOK'
      BY <1>3, <1>A, <2>2 DEF Destroy, PlacesOK, restVars
    <2> QED BY <2>6, <2>7
  <1>4. ASSUME NEW j \in Jobs, PutJob(j) PROVE (Shape /\ PlacesOK)'
    <2>3. jobs' \in Seq(Items)
      BY <1>4, <1>A, AppendProperties DEF PutJob, Items
    <2>6. Shape'
      BY <1>4, <1>A, <1>B, <2>3 DEF PutJob, Shape, restVars, OwnerPlaces
    <2>7. PlacesOK'
      BY <1>4, <1>A DEF PutJob, PlacesOK, restVars
    <2> QED BY <2>6, <2>7
  <1>5. ASSUME NEW b \in Batches, RunBatch(b) PROVE (Shape /\ PlacesOK)'
    <2>4. batch' \in [Batches -> BatchRecords]
      BY <1>5, <1>B, ValidJobsType DEF RunBatch, BatchRecords
    <2>6. Shape'
      BY <1>5, <1>A, <1>B, <2>4 DEF RunBatch, Shape, restVars, OwnerPlaces
    <2>7. PlacesOK'
      BY <1>5, <1>A DEF RunBatch, PlacesOK, restVars
    <2> QED BY <2>6, <2>7
  <1>6. ASSUME NEW b \in Batches, BatchPut(b) PROVE (Shape /\ PlacesOK)'
    <2>3. jobs' \in Seq(Items)
      BY <1>6, <1>A, AppendProperties DEF BatchPut, Items
    <2>8. batch[b].toPut - 1 \in Nat /\ batch' = [batch EXCEPT ![b].toPut = @ - 1]
      BY <1>6, <1>B DEF BatchPut, BatchRecords
    <2>4. batch' \in [Batches -> BatchRecords]
      BY <1>B, <2>8, ZenonT(60) DEF BatchRecords
    <2>6. Shape'
      BY <1>6, <1>A, <1>B, <2>3, <2>4 DEF BatchPut, Shape, restVars, OwnerPlaces
    <2>7. PlacesOK'
      BY <1>6, <1>A DEF BatchPut, PlacesOK, restVars
    <2> QED BY <2>6, <2>7
  <1>7. ASSUME NEW b \in Batches, BatchReturn(b) PROVE (Shape /\ PlacesOK)'
    <2>4. batch' \in [Batches -> BatchRecords]
      BY <1>7, <1>B, ZenonT(60) DEF BatchReturn, BatchRecords
    <2>6. Shape'
      BY <1>7, <1>A, <1>B, <2>4 DEF BatchReturn, Shape, restVars, OwnerPlaces
    <2>7. PlacesOK'
      BY <1>7, <1>A DEF BatchReturn, PlacesOK, restVars
    <2> QED BY <2>6, <2>7
  <1>8. ASSUME NEW b \in Batches, BatchWaitDone(b) PROVE (Shape /\ PlacesOK)'
    <2>4. batch' \in [Batches -> BatchRecords]
      BY <1>8, <1>B, ZenonT(60) DEF BatchWaitDone, BatchRecords
    <2>6. Shape'
      BY <1>8, <1>A, <1>B, <2>4 DEF BatchWaitDone, Shape, restVars, OwnerPlaces
    <2>7. PlacesOK'
      BY <1>8, <1>A DEF BatchWaitDone, PlacesOK, restVars
    <2> QED BY <2>6, <2>7
  <1>9. ASSUME NEW r \in Runners, ThreadRunGet(r) PROVE (Shape /\ PlacesOK)'
    <2>h. jobs # << >> /\ Head(jobs) \in Items /\ Tail(jobs) \in Seq(Items)
      BY <1>9, <1>A, HeadTailProperties DEF ThreadRunGet
    <2>1. PICK place \in Places, item \in Items :
             /\ GoTo(r, place, item) /\ place # "none"
             /\ place = "running" => item \in Jobs
             /\ place \in BatchPlaces => item \in Batches
      BY <1>9, <2>h DEF ThreadRunGet, Places, BatchPlaces, Items
    <2>2. worker'[r].at = place /\ worker'[r].item = item
          /\ (\A q \in Runners \ {r} : worker'[q] = worker[q])
          /\ worker' \in [Runners -> [at : Places, item : Items]]
      BY <2>1, Goes
    <2>3. jobs' \in Seq(Items)
      BY <1>9, <2>h DEF ThreadRunGet
    <2>6. Shape'
      BY <1>9, <1>A, <1>B, <2>1, <2>2, <2>3 DEF ThreadRunGet, Shape, restVars, OwnerPlaces
    <2>7. PlacesOK'
      BY <1>9, <1>A, <2>1, <2>2 DEF ThreadRunGet, PlacesOK, restVars, BatchPlaces
    <2> QED BY <2>6, <2>7
  <1>10. ASSUME NEW r \in Runners, NEW c \in Jobs, PutChild(r, c) PROVE (Shape /\ PlacesOK)'
    <2>3. jobs' \in Seq(Items)
      BY <1>10, <1>A, AppendProperties DEF PutChild, Items
    <2>6. Shape'
      BY <1>10, <1>A, <1>B, <2>3 DEF PutChild, Shape, restVars, OwnerPlaces
    <2>7. PlacesOK'
      BY <1>10, <1>A DEF PutChild, PlacesOK, restVars
    <2> QED BY <2>6, <2>7
  <1>11. ASSUME NEW r \in Runners, JobDone(r) PROVE (Shape /\ PlacesOK)'
    <2>1. PICK place \in {"idle"}, item \in Items :
             GoTo(r, place, item) /\ (place \in BatchPlaces => item \in Batches)
      BY <1>11, <1>A DEF JobDone, PlacesOK, Places, BatchPlaces, Items
    <2>2. worker'[r].at = place /\ worker'[r].item = item
          /\ (\A q \in Runners \ {r} : worker'[q] = worker[q])
          /\ worker' \in [Runners -> [at : Places, item : Items]]
      BY <2>1, Goes DEF Places, BatchPlaces
    <2>6. Shape'
      BY <1>11, <1>A, <1>B, <2>1, <2>2 DEF JobDone, Shape, restVars, OwnerPlaces
    <2>7. PlacesOK'
      BY <1>11, <1>A, <2>1, <2>2 DEF JobDone, PlacesOK, restVars, BatchPlaces
    <2> QED BY <2>6, <2>7
  <1>12. ASSUME NEW r \in Runners, BatchPop(r) PROVE (Shape /\ PlacesOK)'
    <2>1. PICK place \in {"batchRun"}, item \in Items :
             GoTo(r, place, item) /\ (place \in BatchPlaces => item \in Batches)
      BY <1>12, <1>A DEF BatchPop, PlacesOK, Places, BatchPlaces, Items
    <2>2. worker'[r].at = place /\ worker'[r].item = item
          /\ (\A q \in Runners \ {r} : worker'[q] = worker[q])
          /\ worker' \in [Runners -> [at : Places, item : Items]]
      BY <2>1, Goes DEF Places, BatchPlaces
    <2>5. PICK b \in Batches : worker[r].item = b
      BY <1>12 DEF BatchPop, PlacesOK, BatchPlaces
    <2>8. batch' = [batch EXCEPT ![b].left = @ - 1]
      BY <1>12, <2>5 DEF BatchPop
    <2>4. batch' \in [Batches -> BatchRecords]
      BY <1>B, <2>8, BatchKept
    <2>6. Shape'
      BY <1>12, <1>A, <1>B, <2>1, <2>2, <2>4 DEF BatchPop, Shape, restVars, OwnerPlaces
    <2>7. PlacesOK'
      BY <1>12, <1>A, <2>1, <2>2 DEF BatchPop, PlacesOK, restVars, BatchPlaces
    <2> QED BY <2>6, <2>7
  <1>13. ASSUME NEW r \in Runners, BatchJobDone(r) PROVE (Shape /\ PlacesOK)'
    <2>1. PICK place \in {"batchLast", "idle"}, item \in Items :
             GoTo(r, place, item) /\ (place \in BatchPlaces => item \in Batches)
      BY <1>13, <1>A DEF BatchJobDone, PlacesOK, Places, BatchPlaces, Items
    <2>2. worker'[r].at = place /\ worker'[r].item = item
          /\ (\A q \in Runners \ {r} : worker'[q] = worker[q])
          /\ worker' \in [Runners -> [at : Places, item : Items]]
      BY <2>1, Goes DEF Places, BatchPlaces
    <2>5. PICK b \in Batches : worker[r].item = b
      BY <1>13 DEF BatchJobDone, PlacesOK, BatchPlaces
    <2>8. batch' = [batch EXCEPT ![b].toFinish = @ - 1]
      BY <1>13, <2>5 DEF BatchJobDone
    <2>4. batch' \in [Batches -> BatchRecords]
      BY <1>B, <2>8, BatchKept
    <2>6. Shape'
      BY <1>13, <1>A, <1>B, <2>1, <2>2, <2>4 DEF BatchJobDone, Shape, restVars, OwnerPlaces
    <2>7. PlacesOK'
      BY <1>13, <1>A, <2>1, <2>2 DEF BatchJobDone, PlacesOK, restVars, BatchPlaces
    <2> QED BY <2>6, <2>7
  <1>14. ASSUME NEW r \in Runners, BatchComplete(r) PROVE (Shape /\ PlacesOK)'
    <2>1. PICK place \in {"idle"}, item \in Items :
             GoTo(r, place, item) /\ (place \in BatchPlaces => item \in Batches)
      BY <1>14, <1>A DEF BatchComplete, PlacesOK, Places, BatchPlaces, Items
    <2>2. worker'[r].at = place /\ worker'[r].item = item
          /\ (\A q \in Runners \ {r} : worker'[q] = worker[q])
          /\ worker' \in [Runners -> [at : Places, item : Items]]
      BY <2>1, Goes DEF Places, BatchPlaces
    <2>5. PICK b \in Batches : worker[r].item = b
      BY <1>14 DEF BatchComplete, PlacesOK, BatchPlaces
    <2>8. \/ batch' = [batch EXCEPT ![b].signaled = TRUE]
          \/ batch' = [batch EXCEPT ![b].state = "deleted"]
      BY <1>14, <2>5 DEF BatchComplete
    <2>4. batch' \in [Batches -> BatchRecords]
      BY <1>B, <2>8, BatchKept
    <2>6. Shape'
      BY <1>14, <1>A, <1>B, <2>1, <2>2, <2>4 DEF BatchComplete, Shape, restVars, OwnerPlaces
    <2>7. PlacesOK'
      BY <1>14, <1>A, <2>1, <2>2 DEF BatchComplete, PlacesOK, restVars, BatchPlaces
    <2> QED BY <2>6, <2>7
  <1>15. ASSUME NEW r \in Runners, Leave(r) PROVE (Shape /\ PlacesOK)'
    <2>1. PICK place \in {"callback", "exited"}, item \in Items :
             GoTo(r, place, item) /\ (place \in BatchPlaces => item \in Batches)
      BY <1>15, <1>A DEF Leave, PlacesOK, Places, BatchPlaces, Items
    <2>2. worker'[r].at = place /\ worker'[r].item = item
          /\ (\A q \in Runners \ {r} : worker'[q] = worker[q])
          /\ worker' \in [Runners -> [at : Places, item : Items]]
      BY <2>1, Goes DEF Places, BatchPlaces
    <2>6. Shape'
      BY <1>15, <1>A, <1>B, <2>1, <2>2 DEF Leave, Shape, restVars, OwnerPlaces
    <2>7. PlacesOK'
      BY <1>15, <1>A, <2>1, <2>2 DEF Leave, PlacesOK, restVars, BatchPlaces
    <2> QED BY <2>6, <2>7
  <1>16. ASSUME NEW r \in Runners, CompletionCallback(r) PROVE (Shape /\ PlacesOK)'
    <2>1. PICK place \in {"exited"}, item \in Items :
             GoTo(r, place, item) /\ (place \in BatchPlaces => item \in Batches)
      BY <1>16, <1>A DEF CompletionCallback, PlacesOK, Places, BatchPlaces, Items
    <2>2. worker'[r].at = place /\ worker'[r].item = item
          /\ (\A q \in Runners \ {r} : worker'[q] = worker[q])
          /\ worker' \in [Runners -> [at : Places, item : Items]]
      BY <2>1, Goes DEF Places, BatchPlaces
    <2>6. Shape'
      BY <1>16, <1>A, <1>B, <2>1, <2>2 DEF CompletionCallback, Shape, restVars, OwnerPlaces
    <2>7. PlacesOK'
      BY <1>16, <1>A, <2>1, <2>2 DEF CompletionCallback, PlacesOK, restVars, BatchPlaces
    <2> QED BY <2>6, <2>7
  <1>17. ASSUME FinishPutNull PROVE (Shape /\ PlacesOK)'
    <2>3. jobs' \in Seq(Items)
      BY <1>17, <1>A, AppendProperties DEF FinishPutNull, Items
    <2>2. owner' \in [at : OwnerPlaces, i : 0 .. NumThreads]
      <3>1. 0 \in 0 .. NumThreads /\ (owner.i < NumThreads => owner.i + 1 \in 0 .. NumThreads)
        BY <1>A
      <3> QED BY <1>17, <1>A, <3>1 DEF FinishPutNull, OwnerPlaces
    <2>6. Shape'
      BY <1>17, <1>A, <1>B, <2>3, <2>2 DEF FinishPutNull, Shape, restVars, OwnerPlaces
    <2>7. PlacesOK'
      BY <1>17, <1>A, <2>2 DEF FinishPutNull, PlacesOK, restVars
    <2> QED BY <2>6, <2>7
  <1>18. ASSUME DestroyDrain PROVE (Shape /\ PlacesOK)'
    <2>3. jobs' \in Seq(Items)
      BY <1>18, <1>A, HeadTailProperties DEF DestroyDrain
    <2>6. Shape'
      BY <1>18, <1>A, <1>B, <2>3 DEF DestroyDrain, Shape, restVars, OwnerPlaces
    <2>7. PlacesOK'
      BY <1>18, <1>A DEF DestroyDrain, PlacesOK, restVars
    <2> QED BY <2>6, <2>7
  <1>19. ASSUME DestroyPutNull PROVE (Shape /\ PlacesOK)'
    <2>3. jobs' \in Seq(Items)
      BY <1>19, <1>A, AppendProperties DEF DestroyPutNull, Items
    <2>2. owner' \in [at : OwnerPlaces, i : 0 .. NumThreads]
      <3>1. 0 \in 0 .. NumThreads /\ (owner.i < NumThreads => owner.i + 1 \in 0 .. NumThreads)
        BY <1>A
      <3> QED BY <1>19, <1>A, <3>1 DEF DestroyPutNull, OwnerPlaces
    <2>6. Shape'
      BY <1>19, <1>A, <1>B, <2>3, <2>2 DEF DestroyPutNull, Shape, restVars, OwnerPlaces
    <2>7. PlacesOK'
      BY <1>19, <1>A, <2>2 DEF DestroyPutNull, PlacesOK, restVars
    <2> QED BY <2>6, <2>7
  <1>20. ASSUME DestroyMakeRoom PROVE (Shape /\ PlacesOK)'
    <2>3. jobs' \in Seq(Items)
      <3>1. jobs # << >>
        BY <1>20, EmptySeq DEF DestroyMakeRoom, JobsHaveRoom, Queue!HasRoom
      <3> QED BY <1>20, <1>A, <3>1, HeadTailProperties DEF DestroyMakeRoom
    <2>6. Shape'
      BY <1>20, <1>A, <1>B, <2>3 DEF DestroyMakeRoom, Shape, restVars, OwnerPlaces
    <2>7. PlacesOK'
      BY <1>20, <1>A DEF DestroyMakeRoom, PlacesOK, restVars
    <2> QED BY <2>6, <2>7
  <1>21. ASSUME JoinAll PROVE (Shape /\ PlacesOK)'
    <2>6. Shape'
      BY <1>21, <1>A, <1>B DEF JoinAll, Shape, restVars, OwnerPlaces
    <2>7. PlacesOK'
      BY <1>21, <1>A DEF JoinAll, PlacesOK, restVars
    <2> QED BY <2>6, <2>7
  <1> QED BY <1>1, <1>2, <1>3, <1>4, <1>5, <1>6, <1>7, <1>8, <1>9, <1>10, <1>11, <1>12, <1>13,
      <1>14,
         <1>15, <1>16, <1>17, <1>18, <1>19, <1>20, <1>21 DEF PoolNext, CallerStep, WorkerStep, OwnerStep

(* What is counted is finite.                                              *)
LEMMA Finite ==
    ASSUME PoolAssumption, Shape
    PROVE  \A x : /\ IsFiniteSet(Queued(x)) /\ Cardinality(Queued(x)) \in Nat
                  /\ \A p : IsFiniteSet(InPlace(p, x)) /\ Cardinality(InPlace(p, x)) \in Nat
  <1> SUFFICES ASSUME NEW x, NEW p
               PROVE  /\ IsFiniteSet(Queued(x)) /\ Cardinality(Queued(x)) \in Nat
                      /\ IsFiniteSet(InPlace(p, x)) /\ Cardinality(InPlace(p, x)) \in Nat
    OBVIOUS
  <1>1. IsFiniteSet(Queued(x))
    BY IndicesFinite DEF Queued, Shape
  <1>2. IsFiniteSet(InPlace(p, x))
    BY RunnersFinite, FS_Subset DEF InPlace
  <1> QED BY <1>1, <1>2, FS_CardinalityType

(* A worker r goes from one place to another: how the sets InPlace change. *)
LEMMA PlaceMoved ==
    ASSUME PoolAssumption, Shape, NEW r \in Runners,
           \A q \in Runners \ {r} : worker'[q] = worker[q], NEW p, NEW x
    PROVE  LET old == worker[r].at = p /\ worker[r].item = x
               new == worker'[r].at = p /\ worker'[r].item = x
           IN  /\ (old <=> new) => InPlace(p, x)' = InPlace(p, x)
               /\ new /\ ~old => Cardinality(InPlace(p, x)') = Cardinality(InPlace(p, x)) + 1
               /\ old /\ ~new => Cardinality(InPlace(p, x)') = Cardinality(InPlace(p, x)) - 1
  <1> DEFINE S == InPlace(p, x)
             T == InPlace(p, x)'
  <1>1. T \ {r} = S \ {r}
    BY DEF InPlace
  <1>2. IsFiniteSet(S)
    BY Finite
  <1>3. /\ r \in S <=> worker[r].at = p /\ worker[r].item = x
        /\ r \in T <=> worker'[r].at = p /\ worker'[r].item = x
    BY DEF InPlace
  <1> HIDE DEF S, T
  <1>4. /\ (r \in T <=> r \in S) => T = S
        /\ r \in T /\ r \notin S => Cardinality(T) = Cardinality(S) + 1
        /\ r \notin T /\ r \in S => Cardinality(T) = Cardinality(S) - 1
    BY <1>1, <1>2, Moved
  <1> QED BY <1>3, <1>4 DEF S, T

(* A batch that nothing is added to keeps what its counters say.           *)
LEMMA BatchFrame ==
    ASSUME PoolAssumption, Shape, Shape', NEW x \in Batches, BatchOK(x),
           batch'[x].left = batch[x].left, batch'[x].toPut = batch[x].toPut,
           batch'[x].toFinish = batch[x].toFinish, batch'[x].state = batch[x].state,
           batch'[x].signaled = batch[x].signaled,
           Cardinality(Queued(x)') <= Cardinality(Queued(x)),
           \A p \in BatchPlaces : InPlace(p, x)' = InPlace(p, x)
    PROVE  BatchOK(x)'
  <1>1. /\ InPlace("batchPop", x)' = InPlace("batchPop", x)
        /\ InPlace("batchRun", x)' = InPlace("batchRun", x)
        /\ InPlace("batchLast", x)' = InPlace("batchLast", x)
    BY DEF BatchPlaces
  <1>2. /\ Cardinality(Queued(x)) \in Nat /\ Cardinality(InPlace("batchPop", x)) \in Nat
        /\ batch[x].left \in Int /\ batch[x].toPut \in Nat
    BY Finite DEF Shape, BatchRecords
  <1>3. Cardinality(Queued(x)') \in Nat
    <2>1. IsFiniteSet(Indices(jobs', x))
      BY IndicesFinite DEF Shape
    <2> QED BY <2>1, FS_CardinalityType DEF Queued
  <1>4. batch'[x].left >= batch'[x].toPut + Cardinality(Queued(x)') + Cardinality(InPlace("batchPop", x)')
    <2>1. batch[x].left >= batch[x].toPut + Cardinality(Queued(x)) + Cardinality(InPlace("batchPop", x))
      BY DEF BatchOK
    <2> QED BY <1>1, <1>2, <1>3, <2>1
  <1> QED BY <1>1, <1>4 DEF BatchOK


(* Every step keeps the counters of every batch.                           *)
LEMMA BatchStep == PoolAssumption /\ BatchInv /\ PoolNext => (\A b \in Batches : BatchOK(b))'
  <1> SUFFICES ASSUME PoolAssumption, BatchInv, PoolNext PROVE (\A b \in Batches : BatchOK(b))'
    OBVIOUS
  <1> SUFFICES ASSUME NEW x \in Batches PROVE BatchOK(x)'
    OBVIOUS
  <1>A. /\ Shape /\ PlacesOK /\ BatchOK(x) /\ Shape'
        /\ jobs \in Seq(Items) /\ NullJob \in Items /\ NullJob \notin Batches
        /\ batch \in [Batches -> BatchRecords]
        /\ worker \in [Runners -> [at : Places, item : Items]]
    BY ShapeStep DEF BatchInv, Shape, PoolAssumption, Items
  <1>1. ASSUME Start PROVE BatchOK(x)'
    <2>1. Cardinality(Queued(x)') <= Cardinality(Queued(x))
      <3>1. jobs' = jobs
        BY <1>1 DEF Start
      <3> QED BY <3>1, <1>A, Finite DEF Queued
    <2>2. batch' = batch
      BY <1>1 DEF Start
    <2>4. \A p \in BatchPlaces : InPlace(p, x)' = InPlace(p, x)
      <3>1. \A r \in Runners : \A p \in BatchPlaces :
               worker'[r].at = p /\ worker'[r].item = x <=> worker[r].at = p /\ worker[r].item = x
        BY <1>1, <1>A DEF Start, BatchPlaces, PlacesOK, Shape, Runners, ThreadNumbers,
           PoolAssumption
      <3> QED BY <3>1 DEF InPlace
    <2> QED BY <2>1, <2>2, <2>4, <1>A, BatchFrame
  <1>2. ASSUME FinishWork PROVE BatchOK(x)'
    <2>1. Cardinality(Queued(x)') <= Cardinality(Queued(x))
      <3>1. jobs' = jobs
        BY <1>2 DEF FinishWork
      <3> QED BY <3>1, <1>A, Finite DEF Queued
    <2>2. batch' = batch
      BY <1>2 DEF FinishWork
    <2>4. \A p \in BatchPlaces : InPlace(p, x)' = InPlace(p, x)
      BY <1>2 DEF FinishWork, InPlace
    <2> QED BY <2>1, <2>2, <2>4, <1>A, BatchFrame
  <1>3. ASSUME Destroy PROVE BatchOK(x)'
    <2>1. Cardinality(Queued(x)') <= Cardinality(Queued(x))
      <3>1. jobs' = jobs
        BY <1>3 DEF Destroy
      <3> QED BY <3>1, <1>A, Finite DEF Queued
    <2>2. batch' = batch
      BY <1>3 DEF Destroy
    <2>4. \A p \in BatchPlaces : InPlace(p, x)' = InPlace(p, x)
      BY <1>3 DEF Destroy, InPlace
    <2> QED BY <2>1, <2>2, <2>4, <1>A, BatchFrame
  <1>4. ASSUME NEW j \in Jobs, PutJob(j) PROVE BatchOK(x)'
    <2>1. Cardinality(Queued(x)') <= Cardinality(Queued(x))
      <3>1. jobs' = Append(jobs, j) /\ j \in Items /\ j # x
        BY <1>4, <1>A DEF PutJob, Items, PoolAssumption
      <3>2. Queued(x)' = Queued(x)
        BY <3>1, <1>A, CountAppend DEF Queued
      <3> QED BY <3>2, <1>A, Finite
    <2>2. batch' = batch
      BY <1>4 DEF PutJob
    <2>4. \A p \in BatchPlaces : InPlace(p, x)' = InPlace(p, x)
      BY <1>4 DEF PutJob, InPlace
    <2> QED BY <2>1, <2>2, <2>4, <1>A, BatchFrame
  <1>5. ASSUME NEW b \in Batches, RunBatch(b) PROVE BatchOK(x)'
    <2>1. worker' = worker
      BY <1>5 DEF RunBatch
    <2>2. /\ InPlace("batchPop", x)' = InPlace("batchPop", x)
          /\ InPlace("batchRun", x)' = InPlace("batchRun", x)
          /\ InPlace("batchLast", x)' = InPlace("batchLast", x)
      BY <2>1 DEF InPlace
    <2>3. CASE x # b
      <3>1. batch'[x] = batch[x]
        BY <1>5, <2>3, <1>A DEF RunBatch
      <3>2. Cardinality(Queued(x)') <= Cardinality(Queued(x))
        <4>1. Queued(x)' = Queued(x)
          BY <1>5 DEF RunBatch, Queued
        <4> QED BY <4>1, <1>A, Finite
      <3>3. \A p \in BatchPlaces : InPlace(p, x)' = InPlace(p, x)
        BY <2>2 DEF BatchPlaces
      <3> QED BY <3>1, <3>2, <3>3, <1>A, BatchFrame
    <2>4. CASE x = b
      <3>9. /\ Cardinality(Queued(x)) \in Nat /\ Cardinality(InPlace("batchPop", x)) \in Nat
            /\ Cardinality(InPlace("batchRun", x)) \in Nat
            /\ batch[x].left \in Int /\ batch[x].toPut \in Nat /\ batch[x].toFinish \in Int
        BY <1>A, Finite DEF BatchRecords
      <3>3. /\ batch[x].left >= batch[x].toPut + Cardinality(Queued(x)) + Cardinality(InPlace("batchPop", x))
            /\ batch[x].toFinish = batch[x].left + Cardinality(InPlace("batchRun", x))
        BY <1>A DEF BatchOK
      <3>1. batch[x].toFinish = 0 /\ InPlace("batchLast", x) = {}
        BY <1>5, <2>4, <1>A DEF RunBatch, BatchOK
      <3>2. /\ Cardinality(Queued(x)) = 0 /\ Cardinality(InPlace("batchPop", x)) = 0
            /\ Cardinality(InPlace("batchRun", x)) = 0
        <4>1. batch[x].left >= 0 /\ batch[x].left <= 0
          BY <3>1, <3>3, <3>9
        <4>2. Cardinality(InPlace("batchRun", x)) = 0
          BY <4>1, <3>1, <3>3, <3>9
        <4>3. batch[x].toPut + Cardinality(Queued(x)) + Cardinality(InPlace("batchPop", x)) <= 0
          BY <4>1, <3>3, <3>9
        <4> QED BY <4>2, <4>3, <3>9
      <3>4. batch'[x] = [state |-> "alive", caller |-> "putting", toPut |-> ValidJobs(x),
                         left |-> ValidJobs(x), toFinish |-> ValidJobs(x), signaled |-> FALSE]
        BY <1>5, <2>4, <1>A DEF RunBatch
      <3>5. ValidJobs(x) \in Nat
        BY ValidJobsType
      <3>6. Queued(x)' = Queued(x)
        BY <1>5 DEF RunBatch, Queued
      <3>7. /\ batch'[x].left >= batch'[x].toPut + Cardinality(Queued(x)') + Cardinality(InPlace("batchPop", x)')
            /\ batch'[x].toFinish = batch'[x].left + Cardinality(InPlace("batchRun", x)')
        BY <2>2, <3>2, <3>4, <3>5, <3>6
      <3> QED BY <2>2, <3>1, <3>4, <3>7 DEF BatchOK
    <2> QED BY <2>3, <2>4
  <1>6. ASSUME NEW b \in Batches, BatchPut(b) PROVE BatchOK(x)'
    <2>1. worker' = worker
      BY <1>6 DEF BatchPut
    <2>2. /\ InPlace("batchPop", x)' = InPlace("batchPop", x)
          /\ InPlace("batchRun", x)' = InPlace("batchRun", x)
          /\ InPlace("batchLast", x)' = InPlace("batchLast", x)
      BY <2>1 DEF InPlace
    <2>3. CASE x # b
      <3>1. batch'[x] = batch[x]
        BY <1>6, <2>3, <1>A DEF BatchPut
      <3>2. Cardinality(Queued(x)') <= Cardinality(Queued(x))
        <4>1. Queued(x)' = Queued(x)
          BY <1>6, <2>3, <1>A, CountAppend DEF BatchPut, Queued, Items
        <4> QED BY <4>1, <1>A, Finite
      <3>3. \A p \in BatchPlaces : InPlace(p, x)' = InPlace(p, x)
        BY <2>2 DEF BatchPlaces
      <3> QED BY <3>1, <3>2, <3>3, <1>A, BatchFrame
    <2>4. CASE x = b
      <3>9. /\ Cardinality(Queued(x)) \in Nat /\ Cardinality(InPlace("batchPop", x)) \in Nat
            /\ Cardinality(InPlace("batchRun", x)) \in Nat
            /\ batch[x].left \in Int /\ batch[x].toPut \in Nat /\ batch[x].toFinish \in Int
        BY <1>A, Finite DEF BatchRecords
      <3>3. /\ batch[x].left >= batch[x].toPut + Cardinality(Queued(x)) + Cardinality(InPlace("batchPop", x))
            /\ batch[x].toFinish = batch[x].left + Cardinality(InPlace("batchRun", x))
        BY <1>A DEF BatchOK
      <3>1. Cardinality(Queued(x)') = Cardinality(Queued(x)) + 1
        BY <1>6, <2>4, <1>A, CountAppend DEF BatchPut, Queued, Items
      <3>2. /\ batch'[x].left = batch[x].left /\ batch'[x].toPut = batch[x].toPut - 1
            /\ batch'[x].toFinish = batch[x].toFinish /\ batch'[x].state = batch[x].state
            /\ batch'[x].signaled = batch[x].signaled
        BY <1>6, <2>4, <1>A DEF BatchPut, BatchRecords
      <3>4. batch'[x].left >= batch'[x].toPut + Cardinality(Queued(x)') + Cardinality(InPlace("batchPop", x)')
        BY <2>2, <3>1, <3>2, <3>3, <3>9
      <3> QED BY <2>2, <3>2, <3>4, <1>A DEF BatchOK
    <2> QED BY <2>3, <2>4
  <1>7. ASSUME NEW b \in Batches, BatchReturn(b) PROVE BatchOK(x)'
    <2>1. Cardinality(Queued(x)') <= Cardinality(Queued(x))
      <3>1. jobs' = jobs
        BY <1>7 DEF BatchReturn
      <3> QED BY <3>1, <1>A, Finite DEF Queued
    <2>2. batch'[x].left = batch[x].left /\ batch'[x].toPut = batch[x].toPut
          /\ batch'[x].toFinish = batch[x].toFinish /\ batch'[x].state = batch[x].state
          /\ batch'[x].signaled = batch[x].signaled
      BY <1>7, <1>A DEF BatchReturn, BatchRecords
    <2>4. \A p \in BatchPlaces : InPlace(p, x)' = InPlace(p, x)
      BY <1>7 DEF BatchReturn, InPlace
    <2> QED BY <2>1, <2>2, <2>4, <1>A, BatchFrame
  <1>8. ASSUME NEW b \in Batches, BatchWaitDone(b) PROVE BatchOK(x)'
    <2>1. worker' = worker
      BY <1>8 DEF BatchWaitDone
    <2>2. /\ InPlace("batchPop", x)' = InPlace("batchPop", x)
          /\ InPlace("batchRun", x)' = InPlace("batchRun", x)
          /\ InPlace("batchLast", x)' = InPlace("batchLast", x)
      BY <2>1 DEF InPlace
    <2>3. CASE x # b
      <3>1. batch'[x] = batch[x]
        BY <1>8, <2>3, <1>A DEF BatchWaitDone
      <3>2. Cardinality(Queued(x)') <= Cardinality(Queued(x))
        <4>1. Queued(x)' = Queued(x)
          BY <1>8 DEF BatchWaitDone, Queued
        <4> QED BY <4>1, <1>A, Finite
      <3>3. \A p \in BatchPlaces : InPlace(p, x)' = InPlace(p, x)
        BY <2>2 DEF BatchPlaces
      <3> QED BY <3>1, <3>2, <3>3, <1>A, BatchFrame
    <2>4. CASE x = b
      <3>9. /\ Cardinality(Queued(x)) \in Nat /\ Cardinality(InPlace("batchPop", x)) \in Nat
            /\ Cardinality(InPlace("batchRun", x)) \in Nat
            /\ batch[x].left \in Int /\ batch[x].toPut \in Nat /\ batch[x].toFinish \in Int
        BY <1>A, Finite DEF BatchRecords
      <3>3. /\ batch[x].left >= batch[x].toPut + Cardinality(Queued(x)) + Cardinality(InPlace("batchPop", x))
            /\ batch[x].toFinish = batch[x].left + Cardinality(InPlace("batchRun", x))
        BY <1>A DEF BatchOK
      <3>1. batch[x].toFinish = 0 /\ InPlace("batchLast", x) = {}
        BY <1>8, <2>4, <1>A DEF BatchWaitDone, BatchOK
      <3>2. /\ batch'[x].left = batch[x].left /\ batch'[x].toPut = batch[x].toPut
            /\ batch'[x].toFinish = batch[x].toFinish /\ batch'[x].state = "deleted"
        BY <1>8, <2>4, <1>A DEF BatchWaitDone, BatchRecords
      <3>4. Queued(x)' = Queued(x)
        BY <1>8 DEF BatchWaitDone, Queued
      <3> QED BY <2>2, <3>1, <3>2, <3>3, <3>4 DEF BatchOK
    <2> QED BY <2>3, <2>4
  <1>9. ASSUME NEW r \in Runners, ThreadRunGet(r) PROVE BatchOK(x)'
    <2>1. jobs # << >> /\ jobs' = Tail(jobs) /\ Head(jobs) \in Items /\ batch' = batch
      BY <1>9, <1>A, HeadTailProperties DEF ThreadRunGet
    <2>2. /\ \A q \in Runners \ {r} : worker'[q] = worker[q]
          /\ worker[r].at = "idle" /\ worker'[r].item = Head(jobs)
          /\ worker'[r].at \in {"leaving", "running", "batchPop"}
          /\ Head(jobs) \in Batches <=> worker'[r].at = "batchPop"
      BY <1>9, <1>A, <2>1 DEF ThreadRunGet, GoTo, Items, PoolAssumption
    <2>3. /\ InPlace("batchRun", x)' = InPlace("batchRun", x)
          /\ InPlace("batchLast", x)' = InPlace("batchLast", x)
      BY <2>2, <1>A, PlaceMoved
    <2>4. CASE Head(jobs) = x
      <3>1. Cardinality(Queued(x)') = Cardinality(Queued(x)) - 1
        BY <2>1, <2>4, <1>A, CountTail DEF Queued
      <3>2. Cardinality(InPlace("batchPop", x)') = Cardinality(InPlace("batchPop", x)) + 1
        BY <2>2, <2>4, <1>A, PlaceMoved
      <3>9. /\ Cardinality(Queued(x)) \in Nat /\ Cardinality(InPlace("batchPop", x)) \in Nat
            /\ Cardinality(InPlace("batchRun", x)) \in Nat
            /\ batch[x].left \in Int /\ batch[x].toPut \in Nat /\ batch[x].toFinish \in Int
        BY <1>A, Finite DEF BatchRecords
      <3>3. batch'[x].left >= batch'[x].toPut + Cardinality(Queued(x)') + Cardinality(InPlace("batchPop", x)')
        <4>1. batch[x].left >= batch[x].toPut + Cardinality(Queued(x)) + Cardinality(InPlace("batchPop", x))
          BY <1>A DEF BatchOK
        <4>2. batch'[x] = batch[x]
          BY <2>1
        <4> QED BY <4>1, <4>2, <3>1, <3>2, <3>9
      <3> QED BY <2>1, <2>3, <3>3, <1>A DEF BatchOK
    <2>5. CASE Head(jobs) # x
      <3>1. Cardinality(Queued(x)') <= Cardinality(Queued(x))
        <4>1. Cardinality(Queued(x)) \in Nat
          BY <1>A, Finite
        <4> QED BY <2>1, <2>5, <4>1, <1>A, CountTail DEF Queued
      <3>2. InPlace("batchPop", x)' = InPlace("batchPop", x)
        BY <2>2, <2>5, <1>A, PlaceMoved
      <3>3. \A p \in BatchPlaces : InPlace(p, x)' = InPlace(p, x)
        BY <2>3, <3>2 DEF BatchPlaces
      <3> QED BY <2>1, <3>1, <3>3, <1>A, BatchFrame
    <2> QED BY <2>4, <2>5
  <1>10. ASSUME NEW r \in Runners, NEW c \in Jobs, PutChild(r, c) PROVE BatchOK(x)'
    <2>1. Cardinality(Queued(x)') <= Cardinality(Queued(x))
      <3>1. jobs' = Append(jobs, c) /\ c \in Items /\ c # x
        BY <1>10, <1>A DEF PutChild, Items, PoolAssumption
      <3>2. Queued(x)' = Queued(x)
        BY <3>1, <1>A, CountAppend DEF Queued
      <3> QED BY <3>2, <1>A, Finite
    <2>2. batch' = batch
      BY <1>10 DEF PutChild
    <2>4. \A p \in BatchPlaces : InPlace(p, x)' = InPlace(p, x)
      BY <1>10 DEF PutChild, InPlace
    <2> QED BY <2>1, <2>2, <2>4, <1>A, BatchFrame
  <1>11. ASSUME NEW r \in Runners, JobDone(r) PROVE BatchOK(x)'
    <2>1. Cardinality(Queued(x)') <= Cardinality(Queued(x))
      <3>1. jobs' = jobs
        BY <1>11 DEF JobDone
      <3> QED BY <3>1, <1>A, Finite DEF Queued
    <2>2. batch' = batch
      BY <1>11 DEF JobDone
    <2>3. /\ \A q \in Runners \ {r} : worker'[q] = worker[q]
          /\ worker[r].at \notin BatchPlaces /\ worker'[r].at \notin BatchPlaces
      BY <1>11, <1>A DEF JobDone, GoTo, BatchPlaces
    <2>4. \A p \in BatchPlaces : InPlace(p, x)' = InPlace(p, x)
      BY <2>3, <1>A, PlaceMoved
    <2> QED BY <2>1, <2>2, <2>4, <1>A, BatchFrame
  <1>12. ASSUME NEW r \in Runners, BatchPop(r) PROVE BatchOK(x)'
    <2>1. PICK b \in Batches : worker[r].item = b
      BY <1>12, <1>A DEF BatchPop, PlacesOK, BatchPlaces
    <2>2. jobs' = jobs /\ batch' = [batch EXCEPT ![b].left = @ - 1]
      BY <1>12, <2>1 DEF BatchPop
    <2>3. Queued(x)' = Queued(x)
      BY <2>2 DEF Queued
    <2>4. /\ \A q \in Runners \ {r} : worker'[q] = worker[q]
          /\ worker[r].at = "batchPop"
          /\ worker'[r].at = "batchRun" /\ worker'[r].item = b
      BY <1>12, <2>1, <2>2, <1>A DEF BatchPop, GoTo, BatchRecords
    <2>5. CASE x # b
      <3>1. batch'[x] = batch[x]
        BY <2>2, <2>5, <1>A
      <3>2. \A p \in BatchPlaces : InPlace(p, x)' = InPlace(p, x)
        BY <2>1, <2>4, <2>5, <1>A, PlaceMoved DEF BatchPlaces, PoolAssumption
      <3>3. Cardinality(Queued(x)') <= Cardinality(Queued(x))
        BY <2>3, <1>A, Finite
      <3> QED BY <3>1, <3>2, <3>3, <1>A, BatchFrame
    <2>6. CASE x = b
      <3>9. /\ Cardinality(Queued(x)) \in Nat /\ Cardinality(InPlace("batchPop", x)) \in Nat
            /\ Cardinality(InPlace("batchRun", x)) \in Nat
            /\ batch[x].left \in Int /\ batch[x].toPut \in Nat /\ batch[x].toFinish \in Int
        BY <1>A, Finite DEF BatchRecords
      <3>1. /\ Cardinality(InPlace("batchPop", x)') = Cardinality(InPlace("batchPop", x)) - 1
            /\ Cardinality(InPlace("batchRun", x)') = Cardinality(InPlace("batchRun", x)) + 1
            /\ InPlace("batchLast", x)' = InPlace("batchLast", x)
        BY <2>1, <2>4, <2>6, <1>A, PlaceMoved
      <3>2. /\ batch'[x].left = batch[x].left - 1 /\ batch'[x].toPut = batch[x].toPut
            /\ batch'[x].toFinish = batch[x].toFinish /\ batch'[x].state = batch[x].state
            /\ batch'[x].signaled = batch[x].signaled
        BY <2>2, <2>6, <1>A DEF BatchRecords
      <3>3. /\ batch[x].left >= batch[x].toPut + Cardinality(Queued(x)) + Cardinality(InPlace("batchPop", x))
            /\ batch[x].toFinish = batch[x].left + Cardinality(InPlace("batchRun", x))
        BY <1>A DEF BatchOK
      <3>4. /\ batch'[x].left >= batch'[x].toPut + Cardinality(Queued(x)') + Cardinality(InPlace("batchPop", x)')
            /\ batch'[x].toFinish = batch'[x].left + Cardinality(InPlace("batchRun", x)')
        BY <2>3, <3>1, <3>2, <3>3, <3>9
      <3> QED BY <3>1, <3>2, <3>4, <1>A DEF BatchOK
    <2> QED BY <2>5, <2>6
  <1>13. ASSUME NEW r \in Runners, BatchJobDone(r) PROVE BatchOK(x)'
    <2>1. PICK b \in Batches : worker[r].item = b
      BY <1>13, <1>A DEF BatchJobDone, PlacesOK, BatchPlaces
    <2>2. jobs' = jobs /\ batch' = [batch EXCEPT ![b].toFinish = @ - 1]
      BY <1>13, <2>1 DEF BatchJobDone
    <2>3. Queued(x)' = Queued(x)
      BY <2>2 DEF Queued
    <2>4. /\ \A q \in Runners \ {r} : worker'[q] = worker[q]
          /\ worker[r].at = "batchRun"
          /\ \/ worker'[r].at = "idle" /\ worker'[r].item = NullJob
             \/ worker'[r].at = "batchLast" /\ worker'[r].item = b /\ batch'[b].toFinish = 0
      BY <1>13, <2>1, <2>2, <1>A DEF BatchJobDone, GoTo, BatchRecords
    <2>5. CASE x # b
      <3>1. batch'[x] = batch[x]
        BY <2>2, <2>5, <1>A
      <3>2. \A p \in BatchPlaces : InPlace(p, x)' = InPlace(p, x)
        BY <2>1, <2>4, <2>5, <1>A, PlaceMoved DEF BatchPlaces, PoolAssumption
      <3>3. Cardinality(Queued(x)') <= Cardinality(Queued(x))
        BY <2>3, <1>A, Finite
      <3> QED BY <3>1, <3>2, <3>3, <1>A, BatchFrame
    <2>6. CASE x = b
      <3>9. /\ Cardinality(Queued(x)) \in Nat /\ Cardinality(InPlace("batchPop", x)) \in Nat
            /\ Cardinality(InPlace("batchRun", x)) \in Nat
            /\ batch[x].left \in Int /\ batch[x].toPut \in Nat /\ batch[x].toFinish \in Int
        BY <1>A, Finite DEF BatchRecords
      <3>1. /\ InPlace("batchPop", x)' = InPlace("batchPop", x)
            /\ Cardinality(InPlace("batchRun", x)') = Cardinality(InPlace("batchRun", x)) - 1
        <4>1. worker[r].at = "batchRun" /\ worker[r].item = x /\ worker'[r].at \in {"idle", "batchLast"}
          BY <2>1, <2>4, <2>6
        <4> QED BY <2>4, <4>1, <1>A, PlaceMoved
      <3>2. /\ batch'[x].left = batch[x].left /\ batch'[x].toPut = batch[x].toPut
            /\ batch'[x].toFinish = batch[x].toFinish - 1 /\ batch'[x].state = batch[x].state
            /\ batch'[x].signaled = batch[x].signaled
        BY <2>2, <2>6, <1>A DEF BatchRecords
      <3>3. /\ batch[x].left >= batch[x].toPut + Cardinality(Queued(x)) + Cardinality(InPlace("batchPop", x))
            /\ batch[x].toFinish = batch[x].left + Cardinality(InPlace("batchRun", x))
        BY <1>A DEF BatchOK
      <3>4. batch[x].toFinish > 0
        <4>1. Cardinality(InPlace("batchRun", x)) > 0
          <5>1. r \in InPlace("batchRun", x)
            BY <2>1, <2>4, <2>6 DEF InPlace
          <5>2. IsFiniteSet(InPlace("batchRun", x))
            BY <1>A, Finite
          <5> QED BY <5>1, <5>2, <3>9, FS_EmptySet
        <4> QED BY <4>1, <3>3, <3>9
      <3>5. /\ batch'[x].left >= batch'[x].toPut + Cardinality(Queued(x)') + Cardinality(InPlace("batchPop", x)')
            /\ batch'[x].toFinish = batch'[x].left + Cardinality(InPlace("batchRun", x)')
        <4>1. batch'[x].left >= batch'[x].toPut + Cardinality(Queued(x)') + Cardinality(InPlace("batchPop", x)')
          BY <2>3, <3>1, <3>2, <3>3
        <4>2. batch'[x].toFinish = batch'[x].left + Cardinality(InPlace("batchRun", x)')
          BY <3>1, <3>2, <3>3, <3>9
        <4> QED BY <4>1, <4>2
      <3>6. /\ batch[x].state # "none" /\ ~batch[x].signaled /\ batch[x].state # "deleted"
            /\ InPlace("batchLast", x) = {}
        BY <3>4, <3>9, <1>A DEF BatchOK
      <3>7. \A q \in InPlace("batchLast", x)' :
               batch'[x].toFinish = 0 /\ InPlace("batchLast", x)' = {q}
        <4>1. InPlace("batchLast", x)' \subseteq {r}
          BY <2>4, <3>6 DEF InPlace
        <4>2. r \in InPlace("batchLast", x)' => batch'[x].toFinish = 0
          BY <2>4, <2>6 DEF InPlace
        <4> QED BY <4>1, <4>2
      <3> QED BY <3>2, <3>5, <3>6, <3>7 DEF BatchOK
    <2> QED BY <2>5, <2>6
  <1>14. ASSUME NEW r \in Runners, BatchComplete(r) PROVE BatchOK(x)'
    <2>1. PICK b \in Batches : worker[r].item = b
      BY <1>14, <1>A DEF BatchComplete, PlacesOK, BatchPlaces
    <2>2. jobs' = jobs /\ (\/ batch' = [batch EXCEPT ![b].signaled = TRUE]
                            \/ batch' = [batch EXCEPT ![b].state = "deleted"])
      BY <1>14, <2>1 DEF BatchComplete
    <2>3. Queued(x)' = Queued(x)
      BY <2>2 DEF Queued
    <2>4. /\ \A q \in Runners \ {r} : worker'[q] = worker[q]
          /\ worker[r].at = "batchLast"
          /\ worker'[r].at = "idle" /\ worker'[r].item = NullJob
      BY <1>14, <2>1, <2>2, <1>A DEF BatchComplete, GoTo, BatchRecords
    <2>5. CASE x # b
      <3>1. batch'[x] = batch[x]
        BY <2>2, <2>5, <1>A
      <3>2. \A p \in BatchPlaces : InPlace(p, x)' = InPlace(p, x)
        BY <2>1, <2>4, <2>5, <1>A, PlaceMoved DEF BatchPlaces, PoolAssumption
      <3>3. Cardinality(Queued(x)') <= Cardinality(Queued(x))
        BY <2>3, <1>A, Finite
      <3> QED BY <3>1, <3>2, <3>3, <1>A, BatchFrame
    <2>6. CASE x = b
      <3>1. r \in InPlace("batchLast", x)
        BY <2>1, <2>4, <2>6 DEF InPlace
      <3>2. batch[x].toFinish = 0 /\ InPlace("batchLast", x) = {r}
        BY <3>1, <1>A DEF BatchOK
      <3>3. InPlace("batchLast", x)' = {}
        BY <2>4, <3>2 DEF InPlace
      <3>4. /\ InPlace("batchPop", x)' = InPlace("batchPop", x)
            /\ InPlace("batchRun", x)' = InPlace("batchRun", x)
        BY <2>1, <2>4, <2>6, <1>A, PlaceMoved
      <3>5. /\ batch'[x].left = batch[x].left /\ batch'[x].toPut = batch[x].toPut
            /\ batch'[x].toFinish = batch[x].toFinish
            /\ batch'[x].state = "none" => batch[x].state = "none"
        BY <2>2, <2>6, <1>A DEF BatchRecords
      <3>6. batch[x].state # "none"
        BY <3>1, <1>A DEF BatchOK
      <3> QED BY <2>3, <3>2, <3>3, <3>4, <3>5, <3>6, <1>A DEF BatchOK
    <2> QED BY <2>5, <2>6
  <1>15. ASSUME NEW r \in Runners, Leave(r) PROVE BatchOK(x)'
    <2>1. Cardinality(Queued(x)') <= Cardinality(Queued(x))
      <3>1. jobs' = jobs
        BY <1>15 DEF Leave
      <3> QED BY <3>1, <1>A, Finite DEF Queued
    <2>2. batch' = batch
      BY <1>15 DEF Leave
    <2>3. /\ \A q \in Runners \ {r} : worker'[q] = worker[q]
          /\ worker[r].at \notin BatchPlaces /\ worker'[r].at \notin BatchPlaces
      BY <1>15, <1>A DEF Leave, GoTo, BatchPlaces
    <2>4. \A p \in BatchPlaces : InPlace(p, x)' = InPlace(p, x)
      BY <2>3, <1>A, PlaceMoved
    <2> QED BY <2>1, <2>2, <2>4, <1>A, BatchFrame
  <1>16. ASSUME NEW r \in Runners, CompletionCallback(r) PROVE BatchOK(x)'
    <2>1. Cardinality(Queued(x)') <= Cardinality(Queued(x))
      <3>1. jobs' = jobs
        BY <1>16 DEF CompletionCallback
      <3> QED BY <3>1, <1>A, Finite DEF Queued
    <2>2. batch' = batch
      BY <1>16 DEF CompletionCallback
    <2>3. /\ \A q \in Runners \ {r} : worker'[q] = worker[q]
          /\ worker[r].at \notin BatchPlaces /\ worker'[r].at \notin BatchPlaces
      BY <1>16, <1>A DEF CompletionCallback, GoTo, BatchPlaces
    <2>4. \A p \in BatchPlaces : InPlace(p, x)' = InPlace(p, x)
      BY <2>3, <1>A, PlaceMoved
    <2> QED BY <2>1, <2>2, <2>4, <1>A, BatchFrame
  <1>17. ASSUME FinishPutNull PROVE BatchOK(x)'
    <2>1. Cardinality(Queued(x)') <= Cardinality(Queued(x))
      <3>1. jobs' = Append(jobs, NullJob) /\ NullJob \in Items /\ NullJob # x
        BY <1>17, <1>A DEF FinishPutNull, Items, PoolAssumption
      <3>2. Queued(x)' = Queued(x)
        BY <3>1, <1>A, CountAppend DEF Queued
      <3> QED BY <3>2, <1>A, Finite
    <2>2. batch' = batch
      BY <1>17 DEF FinishPutNull
    <2>4. \A p \in BatchPlaces : InPlace(p, x)' = InPlace(p, x)
      BY <1>17 DEF FinishPutNull, InPlace
    <2> QED BY <2>1, <2>2, <2>4, <1>A, BatchFrame
  <1>18. ASSUME DestroyDrain PROVE BatchOK(x)'
    <2>1. Cardinality(Queued(x)') <= Cardinality(Queued(x))
      <3>1. (jobs' = Tail(jobs) /\ jobs # << >>) \/ jobs' = jobs
        BY <1>18 DEF DestroyDrain
      <3>2. CASE jobs' = jobs
        BY <3>2, <1>A, Finite DEF Queued
      <3>3. CASE jobs' = Tail(jobs) /\ jobs # << >>
        <4>1. Cardinality(Queued(x)) \in Nat
          BY <1>A, Finite
        <4> QED BY <3>3, <4>1, <1>A, CountTail DEF Queued
      <3> QED BY <3>1, <3>2, <3>3
    <2>2. batch' = batch
      BY <1>18 DEF DestroyDrain
    <2>4. \A p \in BatchPlaces : InPlace(p, x)' = InPlace(p, x)
      BY <1>18 DEF DestroyDrain, InPlace
    <2> QED BY <2>1, <2>2, <2>4, <1>A, BatchFrame
  <1>19. ASSUME DestroyPutNull PROVE BatchOK(x)'
    <2>1. Cardinality(Queued(x)') <= Cardinality(Queued(x))
      <3>1. jobs' = Append(jobs, NullJob) /\ NullJob \in Items /\ NullJob # x
        BY <1>19, <1>A DEF DestroyPutNull, Items, PoolAssumption
      <3>2. Queued(x)' = Queued(x)
        BY <3>1, <1>A, CountAppend DEF Queued
      <3> QED BY <3>2, <1>A, Finite
    <2>2. batch' = batch
      BY <1>19 DEF DestroyPutNull
    <2>4. \A p \in BatchPlaces : InPlace(p, x)' = InPlace(p, x)
      BY <1>19 DEF DestroyPutNull, InPlace
    <2> QED BY <2>1, <2>2, <2>4, <1>A, BatchFrame
  <1>20. ASSUME DestroyMakeRoom PROVE BatchOK(x)'
    <2>1. Cardinality(Queued(x)') <= Cardinality(Queued(x))
      <3>1. (jobs' = Tail(jobs) /\ jobs # << >>) \/ jobs' = jobs
        BY <1>20, EmptySeq DEF DestroyMakeRoom, JobsHaveRoom, Queue!HasRoom, PoolAssumption
      <3>2. CASE jobs' = jobs
        BY <3>2, <1>A, Finite DEF Queued
      <3>3. CASE jobs' = Tail(jobs) /\ jobs # << >>
        <4>1. Cardinality(Queued(x)) \in Nat
          BY <1>A, Finite
        <4> QED BY <3>3, <4>1, <1>A, CountTail DEF Queued
      <3> QED BY <3>1, <3>2, <3>3
    <2>2. batch' = batch
      BY <1>20 DEF DestroyMakeRoom
    <2>4. \A p \in BatchPlaces : InPlace(p, x)' = InPlace(p, x)
      BY <1>20 DEF DestroyMakeRoom, InPlace
    <2> QED BY <2>1, <2>2, <2>4, <1>A, BatchFrame
  <1>21. ASSUME JoinAll PROVE BatchOK(x)'
    <2>1. Cardinality(Queued(x)') <= Cardinality(Queued(x))
      <3>1. jobs' = jobs
        BY <1>21 DEF JoinAll
      <3> QED BY <3>1, <1>A, Finite DEF Queued
    <2>2. batch' = batch
      BY <1>21 DEF JoinAll
    <2>4. \A p \in BatchPlaces : InPlace(p, x)' = InPlace(p, x)
      BY <1>21 DEF JoinAll, InPlace
    <2> QED BY <2>1, <2>2, <2>4, <1>A, BatchFrame
  <1> QED BY <1>1, <1>2, <1>3, <1>4, <1>5, <1>6, <1>7, <1>8, <1>9, <1>10, <1>11, <1>12, <1>13,
      <1>14,
         <1>15, <1>16, <1>17, <1>18, <1>19, <1>20, <1>21 DEF PoolNext, CallerStep, WorkerStep, OwnerStep

-----------------------------------------------------------------------------
(* A worker r goes from one place to another: how the sets At change.      *)
LEMMA AtMoved ==
    ASSUME PoolAssumption, Shape, NEW r \in Runners,
           \A q \in Runners \ {r} : worker'[q] = worker[q], NEW P
    PROVE  /\ IsFiniteSet(At(P)) /\ Cardinality(At(P)) \in Nat
           /\ (worker[r].at \in P <=> worker'[r].at \in P) => At(P)' = At(P)
           /\ worker'[r].at \in P /\ worker[r].at \notin P =>
                 Cardinality(At(P)') = Cardinality(At(P)) + 1
           /\ worker[r].at \in P /\ worker'[r].at \notin P =>
                 Cardinality(At(P)') = Cardinality(At(P)) - 1
  <1> DEFINE S == At(P)
             T == At(P)'
  <1>1. T \ {r} = S \ {r}
    BY DEF At
  <1>2. IsFiniteSet(S) /\ Cardinality(S) \in Nat
    BY RunnersFinite, FS_Subset, FS_CardinalityType DEF At
  <1>3. (r \in S <=> worker[r].at \in P) /\ (r \in T <=> worker'[r].at \in P)
    BY DEF At
  <1> HIDE DEF S, T
  <1>4. /\ (r \in T <=> r \in S) => T = S
        /\ r \in T /\ r \notin S => Cardinality(T) = Cardinality(S) + 1
        /\ r \notin T /\ r \in S => Cardinality(T) = Cardinality(S) - 1
    BY <1>1, <1>2, Moved
  <1> QED BY <1>2, <1>3, <1>4 DEF S, T

(* No more workers are anywhere than the pool has threads.                 *)
LEMMA AtMost ==
    ASSUME PoolAssumption, StartedOnce, MaxStarts > 0, NEW T \in SUBSET Runners
    PROVE  IsFiniteSet(T) /\ Cardinality(T) \in 0 .. NumThreads
  <1>1. IsFiniteSet(Runners) /\ Cardinality(Runners) = NumThreads
    BY RunnersFinite
  <1>2. IsFiniteSet(T) /\ Cardinality(T) <= Cardinality(Runners)
    BY <1>1, FS_Subset
  <1>3. Cardinality(T) \in Nat
    BY <1>2, FS_CardinalityType
  <1> QED BY <1>1, <1>2, <1>3 DEF PoolAssumption

(* Every step keeps the count of the threads that have left.               *)
LEMMA CompletionStep == PoolAssumption /\ StartedOnce /\ CompletionInv /\ PoolNext => (CountsOK /\ JoinedOK)'
  <1> SUFFICES ASSUME PoolAssumption, StartedOnce, CompletionInv, PoolNext PROVE (CountsOK /\ JoinedOK)'
    OBVIOUS
  <1>A. /\ Shape /\ PlacesOK /\ CountsOK /\ JoinedOK
        /\ worker \in [Runners -> [at : Places, item : Items]]
        /\ owner \in [at : OwnerPlaces, i : 0 .. NumThreads]
        /\ numCompleted \in Nat /\ callbackRuns \in Nat
    BY DEF CompletionInv, Shape
  <1>1. ASSUME Start PROVE (CountsOK /\ JoinedOK)'
    <2>2. Counted' = Counted /\ Calling' = Calling
      <3>1. \A r \in Runners : worker'[r] = worker[r] \/ (worker[r].at = "none" /\ worker'[r].at = "idle")
        BY <1>1, <1>A DEF Start, PlacesOK, Shape, Runners, ThreadNumbers, PoolAssumption
      <3> QED BY <3>1 DEF Counted, Calling, At
    <2>3. CountsOK'
      BY <1>1, <2>2, <1>A DEF Start, CountsOK, restVars
    <2>4. JoinedOK'
      BY <1>1, <1>A DEF Start, JoinedOK, restVars, Current
    <2> QED BY <2>3, <2>4
  <1>2. ASSUME FinishWork PROVE (CountsOK /\ JoinedOK)'
    <2>2. Counted' = Counted /\ Calling' = Calling
      BY <1>2 DEF FinishWork, Counted, Calling, At
    <2>3. CountsOK'
      BY <1>2, <2>2, <1>A DEF FinishWork, CountsOK, restVars
    <2>4. JoinedOK'
      BY <1>2, <1>A DEF FinishWork, JoinedOK, restVars, Current
    <2> QED BY <2>3, <2>4
  <1>3. ASSUME Destroy PROVE (CountsOK /\ JoinedOK)'
    <2>2. Counted' = Counted /\ Calling' = Calling
      BY <1>3 DEF Destroy, Counted, Calling, At
    <2>3. CountsOK'
      BY <1>3, <2>2, <1>A DEF Destroy, CountsOK, restVars
    <2>4. JoinedOK'
      BY <1>3, <1>A DEF Destroy, JoinedOK, restVars, Current
    <2> QED BY <2>3, <2>4
  <1>4. ASSUME NEW j \in Jobs, PutJob(j) PROVE (CountsOK /\ JoinedOK)'
    <2>2. Counted' = Counted /\ Calling' = Calling
      BY <1>4 DEF PutJob, Counted, Calling, At
    <2>3. CountsOK'
      BY <1>4, <2>2, <1>A DEF PutJob, CountsOK, restVars
    <2>4. JoinedOK'
      BY <1>4, <1>A DEF PutJob, JoinedOK, restVars, Current
    <2> QED BY <2>3, <2>4
  <1>5. ASSUME NEW b \in Batches, RunBatch(b) PROVE (CountsOK /\ JoinedOK)'
    <2>2. Counted' = Counted /\ Calling' = Calling
      BY <1>5 DEF RunBatch, Counted, Calling, At
    <2>3. CountsOK'
      BY <1>5, <2>2, <1>A DEF RunBatch, CountsOK, restVars
    <2>4. JoinedOK'
      BY <1>5, <1>A DEF RunBatch, JoinedOK, restVars, Current
    <2> QED BY <2>3, <2>4
  <1>6. ASSUME NEW b \in Batches, BatchPut(b) PROVE (CountsOK /\ JoinedOK)'
    <2>2. Counted' = Counted /\ Calling' = Calling
      BY <1>6 DEF BatchPut, Counted, Calling, At
    <2>3. CountsOK'
      BY <1>6, <2>2, <1>A DEF BatchPut, CountsOK, restVars
    <2>4. JoinedOK'
      BY <1>6, <1>A DEF BatchPut, JoinedOK, restVars, Current
    <2> QED BY <2>3, <2>4
  <1>7. ASSUME NEW b \in Batches, BatchReturn(b) PROVE (CountsOK /\ JoinedOK)'
    <2>2. Counted' = Counted /\ Calling' = Calling
      BY <1>7 DEF BatchReturn, Counted, Calling, At
    <2>3. CountsOK'
      BY <1>7, <2>2, <1>A DEF BatchReturn, CountsOK, restVars
    <2>4. JoinedOK'
      BY <1>7, <1>A DEF BatchReturn, JoinedOK, restVars, Current
    <2> QED BY <2>3, <2>4
  <1>8. ASSUME NEW b \in Batches, BatchWaitDone(b) PROVE (CountsOK /\ JoinedOK)'
    <2>2. Counted' = Counted /\ Calling' = Calling
      BY <1>8 DEF BatchWaitDone, Counted, Calling, At
    <2>3. CountsOK'
      BY <1>8, <2>2, <1>A DEF BatchWaitDone, CountsOK, restVars
    <2>4. JoinedOK'
      BY <1>8, <1>A DEF BatchWaitDone, JoinedOK, restVars, Current
    <2> QED BY <2>3, <2>4
  <1>9. ASSUME NEW r \in Runners, ThreadRunGet(r) PROVE (CountsOK /\ JoinedOK)'
    <2>0. jobs # << >> => Head(jobs) \in Items
      BY <1>A, HeadTailProperties DEF Shape
    <2>1. /\ \A q \in Runners \ {r} : worker'[q] = worker[q]
          /\ worker[r].at = "idle" /\ worker'[r].at \in {"leaving", "running", "batchPop"}
      BY <1>9, <1>A, <2>0 DEF ThreadRunGet, GoTo, Items, PoolAssumption
    <2>2. Counted' = Counted /\ Calling' = Calling
      <3>1. At({"callback", "exited"})' = At({"callback", "exited"}) /\ At({"callback"})' = At({"callback"})
        BY <2>1, <1>A, AtMoved
      <3> QED BY <3>1 DEF Counted, Calling
    <2>3. CountsOK'
      BY <1>9, <2>2, <1>A DEF ThreadRunGet, CountsOK, restVars
    <2>4. JoinedOK'
      BY <1>9, <2>1, <1>A DEF ThreadRunGet, JoinedOK, restVars, Current
    <2> QED BY <2>3, <2>4
  <1>10. ASSUME NEW r \in Runners, NEW c \in Jobs, PutChild(r, c) PROVE (CountsOK /\ JoinedOK)'
    <2>2. Counted' = Counted /\ Calling' = Calling
      BY <1>10 DEF PutChild, Counted, Calling, At
    <2>3. CountsOK'
      BY <1>10, <2>2, <1>A DEF PutChild, CountsOK, restVars
    <2>4. JoinedOK'
      BY <1>10, <1>A DEF PutChild, JoinedOK, restVars, Current
    <2> QED BY <2>3, <2>4
  <1>11. ASSUME NEW r \in Runners, JobDone(r) PROVE (CountsOK /\ JoinedOK)'
    <2>1. /\ \A q \in Runners \ {r} : worker'[q] = worker[q]
          /\ worker[r].at = "running" /\ worker'[r].at \in {"idle"}
      BY <1>11, <1>A DEF JobDone, GoTo
    <2>2. Counted' = Counted /\ Calling' = Calling
      <3>1. At({"callback", "exited"})' = At({"callback", "exited"}) /\ At({"callback"})' = At({"callback"})
        BY <2>1, <1>A, AtMoved
      <3> QED BY <3>1 DEF Counted, Calling
    <2>3. CountsOK'
      BY <1>11, <2>2, <1>A DEF JobDone, CountsOK, restVars
    <2>4. JoinedOK'
      BY <1>11, <2>1, <1>A DEF JobDone, JoinedOK, restVars, Current
    <2> QED BY <2>3, <2>4
  <1>12. ASSUME NEW r \in Runners, BatchPop(r) PROVE (CountsOK /\ JoinedOK)'
    <2>1. /\ \A q \in Runners \ {r} : worker'[q] = worker[q]
          /\ worker[r].at = "batchPop" /\ worker'[r].at \in {"batchRun"}
      BY <1>12, <1>A DEF BatchPop, GoTo
    <2>2. Counted' = Counted /\ Calling' = Calling
      <3>1. At({"callback", "exited"})' = At({"callback", "exited"}) /\ At({"callback"})' = At({"callback"})
        BY <2>1, <1>A, AtMoved
      <3> QED BY <3>1 DEF Counted, Calling
    <2>3. CountsOK'
      BY <1>12, <2>2, <1>A DEF BatchPop, CountsOK, restVars
    <2>4. JoinedOK'
      BY <1>12, <2>1, <1>A DEF BatchPop, JoinedOK, restVars, Current
    <2> QED BY <2>3, <2>4
  <1>13. ASSUME NEW r \in Runners, BatchJobDone(r) PROVE (CountsOK /\ JoinedOK)'
    <2>1. /\ \A q \in Runners \ {r} : worker'[q] = worker[q]
          /\ worker[r].at = "batchRun" /\ worker'[r].at \in {"batchLast", "idle"}
      BY <1>13, <1>A DEF BatchJobDone, GoTo
    <2>2. Counted' = Counted /\ Calling' = Calling
      <3>1. At({"callback", "exited"})' = At({"callback", "exited"}) /\ At({"callback"})' = At({"callback"})
        BY <2>1, <1>A, AtMoved
      <3> QED BY <3>1 DEF Counted, Calling
    <2>3. CountsOK'
      BY <1>13, <2>2, <1>A DEF BatchJobDone, CountsOK, restVars
    <2>4. JoinedOK'
      BY <1>13, <2>1, <1>A DEF BatchJobDone, JoinedOK, restVars, Current
    <2> QED BY <2>3, <2>4
  <1>14. ASSUME NEW r \in Runners, BatchComplete(r) PROVE (CountsOK /\ JoinedOK)'
    <2>1. /\ \A q \in Runners \ {r} : worker'[q] = worker[q]
          /\ worker[r].at = "batchLast" /\ worker'[r].at \in {"idle"}
      BY <1>14, <1>A DEF BatchComplete, GoTo
    <2>2. Counted' = Counted /\ Calling' = Calling
      <3>1. At({"callback", "exited"})' = At({"callback", "exited"}) /\ At({"callback"})' = At({"callback"})
        BY <2>1, <1>A, AtMoved
      <3> QED BY <3>1 DEF Counted, Calling
    <2>3. CountsOK'
      BY <1>14, <2>2, <1>A DEF BatchComplete, CountsOK, restVars
    <2>4. JoinedOK'
      BY <1>14, <2>1, <1>A DEF BatchComplete, JoinedOK, restVars, Current
    <2> QED BY <2>3, <2>4
  <1>15. ASSUME NEW r \in Runners, Leave(r) PROVE (CountsOK /\ JoinedOK)'
    <2>1. /\ \A q \in Runners \ {r} : worker'[q] = worker[q]
          /\ worker[r].at = "leaving" /\ worker'[r].at \in {"callback", "exited"}
      BY <1>15, <1>A DEF Leave, GoTo
    <2>2. /\ Cardinality(Counted') = Cardinality(Counted) + 1
          /\ Cardinality(Counted) \in Nat /\ Cardinality(Calling) \in Nat
          /\ worker'[r].at = "exited" => Calling' = Calling
          /\ worker'[r].at = "callback" => Cardinality(Calling') = Cardinality(Calling) + 1
      <3>1. Cardinality(Counted') = Cardinality(Counted) + 1
        BY <2>1, <1>A, AtMoved DEF Counted
      <3>2. Cardinality(Counted) \in Nat /\ Cardinality(Calling) \in Nat
        BY <2>1, <1>A, AtMoved DEF Counted, Calling
      <3>3. worker'[r].at = "exited" => Calling' = Calling
        BY <2>1, <1>A, AtMoved DEF Calling
      <3>4. worker'[r].at = "callback" => Cardinality(Calling') = Cardinality(Calling) + 1
        BY <2>1, <1>A, AtMoved DEF Calling
      <3> QED BY <3>1, <3>2, <3>3, <3>4
    <2>3. Cardinality(Counted') <= NumThreads
      <3>1. MaxStarts > 0
        BY DEF Runners, PoolAssumption
      <3>2. Counted' \in SUBSET Runners
        BY DEF Counted, At
      <3>3. Cardinality(Counted') \in 0 .. NumThreads
        BY <3>1, <3>2, AtMost
      <3> QED BY <3>3 DEF PoolAssumption
    <2>4. /\ numCompleted' = numCompleted + 1 /\ callbackRuns' = callbackRuns
          /\ worker'[r].at = IF numCompleted' >= NumThreads THEN "callback" ELSE "exited"
      BY <1>15, <1>A DEF Leave, GoTo
    <2>5. CountsOK'
      <3>1. numCompleted = Cardinality(Counted)
            /\ callbackRuns + Cardinality(Calling) = IF numCompleted = NumThreads THEN 1 ELSE 0
        BY <1>A DEF CountsOK
      <3>2. numCompleted' = Cardinality(Counted') /\ numCompleted' <= NumThreads /\ numCompleted # NumThreads
        BY <2>2, <2>3, <2>4, <3>1, <1>A DEF PoolAssumption
      <3>3. CASE numCompleted' = NumThreads
        <4>1. callbackRuns + Cardinality(Calling) = 0
          BY <3>1, <3>2
        <4>2. Cardinality(Calling') = Cardinality(Calling) + 1
          <5>1. NumThreads \in Nat /\ numCompleted' >= NumThreads
            BY <3>3 DEF PoolAssumption
          <5>2. worker'[r].at = "callback"
            BY <5>1, <2>4
          <5> QED BY <5>2, <2>2
        <4>3. callbackRuns' + Cardinality(Calling') = 1
          BY <4>1, <4>2, <2>2, <2>4, <1>A
        <4> QED BY <4>3, <3>2, <3>3 DEF CountsOK
      <3>4. CASE numCompleted' # NumThreads
        BY <3>1, <3>2, <3>4, <2>2, <2>4, <1>A DEF CountsOK, PoolAssumption
      <3> QED BY <3>3, <3>4
    <2>6. JoinedOK'
      BY <1>15, <2>1, <1>A DEF Leave, JoinedOK, Current
    <2> QED BY <2>5, <2>6
  <1>16. ASSUME NEW r \in Runners, CompletionCallback(r) PROVE (CountsOK /\ JoinedOK)'
    <2>1. /\ \A q \in Runners \ {r} : worker'[q] = worker[q]
          /\ worker[r].at = "callback" /\ worker'[r].at \in {"exited"}
      BY <1>16, <1>A DEF CompletionCallback, GoTo
    <2>2. Counted' = Counted /\ Cardinality(Calling') = Cardinality(Calling) - 1 /\ Cardinality(Calling) \in Nat
      <3>1. Counted' = Counted
        BY <2>1, <1>A, AtMoved DEF Counted
      <3>2. Cardinality(Calling') = Cardinality(Calling) - 1 /\ Cardinality(Calling) \in Nat
        BY <2>1, <1>A, AtMoved DEF Calling
      <3> QED BY <3>1, <3>2
    <2>3. callbackRuns' = callbackRuns + 1 /\ numCompleted' = numCompleted
      BY <1>16 DEF CompletionCallback
    <2>4. CountsOK'
      BY <2>2, <2>3, <1>A DEF CountsOK
    <2>5. JoinedOK'
      BY <1>16, <2>1, <1>A DEF CompletionCallback, JoinedOK, Current
    <2> QED BY <2>4, <2>5
  <1>17. ASSUME FinishPutNull PROVE (CountsOK /\ JoinedOK)'
    <2>2. Counted' = Counted /\ Calling' = Calling
      BY <1>17 DEF FinishPutNull, Counted, Calling, At
    <2>3. CountsOK'
      BY <1>17, <2>2, <1>A DEF FinishPutNull, CountsOK, restVars
    <2>4. JoinedOK'
      BY <1>17, <1>A DEF FinishPutNull, JoinedOK, restVars, Current
    <2> QED BY <2>3, <2>4
  <1>18. ASSUME DestroyDrain PROVE (CountsOK /\ JoinedOK)'
    <2>2. Counted' = Counted /\ Calling' = Calling
      BY <1>18 DEF DestroyDrain, Counted, Calling, At
    <2>3. CountsOK'
      BY <1>18, <2>2, <1>A DEF DestroyDrain, CountsOK, restVars
    <2>4. JoinedOK'
      BY <1>18, <1>A DEF DestroyDrain, JoinedOK, restVars, Current
    <2> QED BY <2>3, <2>4
  <1>19. ASSUME DestroyPutNull PROVE (CountsOK /\ JoinedOK)'
    <2>2. Counted' = Counted /\ Calling' = Calling
      BY <1>19 DEF DestroyPutNull, Counted, Calling, At
    <2>3. CountsOK'
      BY <1>19, <2>2, <1>A DEF DestroyPutNull, CountsOK, restVars
    <2>4. JoinedOK'
      BY <1>19, <1>A DEF DestroyPutNull, JoinedOK, restVars, Current
    <2> QED BY <2>3, <2>4
  <1>20. ASSUME DestroyMakeRoom PROVE (CountsOK /\ JoinedOK)'
    <2>2. Counted' = Counted /\ Calling' = Calling
      BY <1>20 DEF DestroyMakeRoom, Counted, Calling, At
    <2>3. CountsOK'
      BY <1>20, <2>2, <1>A DEF DestroyMakeRoom, CountsOK, restVars
    <2>4. JoinedOK'
      BY <1>20, <1>A DEF DestroyMakeRoom, JoinedOK, restVars, Current
    <2> QED BY <2>3, <2>4
  <1>21. ASSUME JoinAll PROVE (CountsOK /\ JoinedOK)'
    <2>2. Counted' = Counted /\ Calling' = Calling
      BY <1>21 DEF JoinAll, Counted, Calling, At
    <2>3. CountsOK'
      BY <1>21, <2>2, <1>A DEF JoinAll, CountsOK, restVars
    <2>4. JoinedOK'
      BY <1>21, <1>A DEF JoinAll, JoinedOK, restVars, Current
    <2> QED BY <2>3, <2>4
  <1> QED BY <1>1, <1>2, <1>3, <1>4, <1>5, <1>6, <1>7, <1>8, <1>9, <1>10, <1>11, <1>12, <1>13,
      <1>14,
         <1>15, <1>16, <1>17, <1>18, <1>19, <1>20, <1>21 DEF PoolNext, CallerStep, WorkerStep, OwnerStep

-----------------------------------------------------------------------------
(* What a Put at the back, and a Get at the front, leave of jobs_.         *)
LEMMA QueueEnds ==
    ASSUME Shape
    PROVE  /\ \A e \in Items : jobs' = Append(jobs, e) =>
                 /\ \A x : Queued(x)' = Queued(x) \cup (IF x = e THEN {Len(jobs) + 1} ELSE {})
                 /\ \A l \in 1 .. Len(jobs) : jobs'[l] = jobs[l]
           /\ jobs # << >> /\ jobs' = Tail(jobs) =>
                 /\ Head(jobs) = jobs[1] /\ Head(jobs) \in Items
                 /\ \A x : \A k \in Queued(x) : k # 1 => k - 1 \in Queued(x)'
                 /\ \A l \in 1 .. Len(jobs) - 1 : jobs'[l] = jobs[l + 1]
                 /\ \A x : Queued(x) = {} => Queued(x)' = {}
  <1>0. jobs \in Seq(Items) /\ DOMAIN jobs = 1 .. Len(jobs) /\ Len(jobs) \in Nat
    BY LenProperties DEF Shape
  <1>1. ASSUME NEW e \in Items, jobs' = Append(jobs, e)
        PROVE  /\ \A x : Queued(x)' = Queued(x) \cup (IF x = e THEN {Len(jobs) + 1} ELSE {})
               /\ \A l \in 1 .. Len(jobs) : jobs'[l] = jobs[l]
    <2>1. /\ DOMAIN jobs' = 1 .. Len(jobs) + 1 /\ jobs'[Len(jobs) + 1] = e
          /\ \A l \in 1 .. Len(jobs) : jobs'[l] = jobs[l]
      BY <1>0, <1>1, AppendProperties, LenProperties
    <2>2. ASSUME NEW x PROVE Queued(x)' = Queued(x) \cup (IF x = e THEN {Len(jobs) + 1} ELSE {})
      BY <1>0, <2>1 DEF Queued, Indices
    <2> QED BY <2>1, <2>2
  <1>2. ASSUME jobs # << >>, jobs' = Tail(jobs)
        PROVE  /\ Head(jobs) = jobs[1] /\ Head(jobs) \in Items
               /\ \A x : \A k \in Queued(x) : k # 1 => k - 1 \in Queued(x)'
               /\ \A l \in 1 .. Len(jobs) - 1 : jobs'[l] = jobs[l + 1]
               /\ \A x : Queued(x) = {} => Queued(x)' = {}
    <2>1. /\ Head(jobs) \in Items /\ DOMAIN jobs' = 1 .. Len(jobs) - 1
          /\ \A l \in 1 .. Len(jobs) - 1 : jobs'[l] = jobs[l + 1]
      BY <1>0, <1>2, HeadTailProperties, LenProperties
    <2>2. ASSUME NEW x, NEW k \in Queued(x), k # 1 PROVE k - 1 \in Queued(x)'
      <3>1. k \in 2 .. Len(jobs) /\ jobs[k] = x
        BY <1>0, <2>2 DEF Queued, Indices
      <3>2. k - 1 \in 1 .. Len(jobs) - 1 /\ jobs'[k - 1] = jobs[(k - 1) + 1] /\ (k - 1) + 1 = k
        BY <1>0, <2>1, <3>1
      <3> QED BY <2>1, <3>1, <3>2 DEF Queued, Indices
    <2>3. ASSUME NEW x, Queued(x) = {} PROVE Queued(x)' = {}
      BY <1>0, <2>1, <2>3 DEF Queued, Indices
    <2>4. Head(jobs) = jobs[1]
      BY <1>0, <1>2
    <2> QED BY <2>1, <2>2, <2>3, <2>4
  <1> QED BY <1>1, <1>2

(* Every step keeps the accepted jobs in front of the sentinels.           *)
LEMMA FinishStep == PoolAssumption /\ StartedOnce /\ FinishInv /\ PoolNext => FinishOK'
  <1> SUFFICES ASSUME PoolAssumption, StartedOnce, FinishInv, PoolNext PROVE FinishOK'
    OBVIOUS
  <1>A. /\ Shape /\ PlacesOK /\ AcceptedOK /\ PromisedOK /\ FinishRunsAll
        /\ jobs \in Seq(Items) /\ DOMAIN jobs = 1 .. Len(jobs) /\ Len(jobs) \in Nat
        /\ worker \in [Runners -> [at : Places, item : Items]]
        /\ owner \in [at : OwnerPlaces, i : 0 .. NumThreads]
        /\ promised \subseteq Jobs /\ unputJobs \subseteq Jobs
        /\ NullJob \in Items /\ NullJob \notin Jobs /\ Jobs \subseteq Items
    BY LenProperties DEF FinishInv, FinishOK, Shape, PoolAssumption, Items
  <1>1. ASSUME Start PROVE FinishOK'
    <2>1. jobs' = jobs /\ \A x : Queued(x)' = Queued(x)
      BY <1>1 DEF Start, Queued
    <2>3. \A r \in Runners : worker'[r] = worker[r] \/ (worker[r].at = "none" /\ worker'[r].at = "idle")
      BY <1>1, <1>A DEF Start, PlacesOK, Shape, Runners, ThreadNumbers, PoolAssumption
    <2>4. \A y : Running(y) => Running(y)'
      BY <2>3 DEF Running
    <2>5. (Left = {} => Left' = {}) /\ ran' = ran
      BY <1>1, <2>3 DEF Start, Left, At
    <2>6. owner'.at = owner.at /\ promised' = promised /\ unputJobs' = unputJobs
      BY <1>1, <1>A DEF Start, restVars
    <2>8. AcceptedOK'
      <3>1. owner.at = "using" => NobodyLeft'
        BY <2>1, <2>5, <1>A DEF AcceptedOK, NobodyLeft
      <3>2. owner.at = "using" => \A i \in Jobs \ unputJobs' : i \in ran' \/ Running(i)' \/ Queued(i)' # {}
        BY <2>1, <2>4, <2>5, <2>6, <1>A DEF AcceptedOK
      <3> QED BY <3>1, <3>2, <2>6 DEF AcceptedOK
    <2>9. PromisedOK'
      <3> SUFFICES ASSUME owner.at = "finishing", NEW i \in promised \ ran, i \notin ran'
                   PROVE  \/ Running(i)'
                          \/ Left' = {} /\ \E k \in Queued(i)' : \A l \in 1 .. k : jobs'[l] # NullJob
        BY <2>5, <2>6 DEF PromisedOK
      <3>1. CASE Running(i)
        BY <3>1, <2>4
      <3>2. CASE Left = {} /\ \E k \in Queued(i) : \A l \in 1 .. k : jobs[l] # NullJob
        BY <3>2, <2>1, <2>5
      <3> QED BY <3>1, <3>2, <1>A DEF PromisedOK
    <2>10. FinishRunsAll'
      BY <1>1, <2>5, <2>6, <1>A DEF FinishRunsAll, Start
    <2> QED BY <2>6, <2>8, <2>9, <2>10, <1>A DEF FinishOK
  <1>2. ASSUME FinishWork PROVE FinishOK'
    <2>1. jobs' = jobs /\ \A x : Queued(x)' = Queued(x)
      BY <1>2 DEF FinishWork, Queued
    <2>4. \A y : Running(y) => Running(y)'
      BY <1>2 DEF FinishWork, Running
    <2>5. (Left = {} => Left' = {}) /\ ran' = ran
      BY <1>2 DEF FinishWork, Left, At
    <2>6. /\ owner.at = "using" /\ owner'.at = "finishing" /\ promised' = Jobs \ unputJobs /\ unputJobs' = unputJobs
      BY <1>2, <1>A DEF FinishWork, restVars
    <2>7. PromisedOK'
      <3> SUFFICES ASSUME NEW j \in promised' \ ran'
                   PROVE  \/ Running(j)'
                          \/ Left' = {} /\ \E k \in Queued(j)' : \A l \in 1 .. k : jobs'[l] # NullJob
        BY DEF PromisedOK
      <3>1. Running(j) \/ Queued(j) # {}
        BY <2>5, <2>6, <1>A DEF AcceptedOK
      <3>2. ASSUME NEW k \in Queued(j), NEW l \in 1 .. k PROVE jobs'[l] # NullJob
        <4>1. k \in 1 .. Len(jobs) /\ l \in DOMAIN jobs
          BY <1>A DEF Queued, Indices
        <4> QED BY <4>1, <2>1, <2>6, <1>A DEF AcceptedOK, NobodyLeft, Queued, Indices
      <3>3. Left' = {}
        BY <2>5, <2>6, <1>A DEF AcceptedOK, NobodyLeft
      <3> QED BY <3>1, <3>2, <3>3, <2>1, <2>4
    <2> QED BY <2>6, <2>7, <1>A DEF AcceptedOK, FinishRunsAll, FinishOK
  <1>3. ASSUME Destroy PROVE FinishOK'
    <2>1. owner'.at \notin {"using", "finishing", "finished"}
          /\ promised' = promised /\ unputJobs' = unputJobs
      BY <1>3, <1>A DEF Destroy, restVars
    <2> QED BY <2>1, <1>A DEF AcceptedOK, PromisedOK, FinishRunsAll, FinishOK
  <1>4. ASSUME NEW j \in Jobs, PutJob(j) PROVE FinishOK'
    <2>1. /\ \A x : Queued(x)' = Queued(x) \cup (IF x = j THEN {Len(jobs) + 1} ELSE {})
          /\ \A l \in 1 .. Len(jobs) : jobs'[l] = jobs[l]
      <3>1. j \in Items /\ jobs' = Append(jobs, j)
        BY <1>4, <1>A DEF PutJob, Items
      <3> QED BY <3>1, <1>A, QueueEnds
    <2>4. \A y : Running(y) => Running(y)'
      BY <1>4 DEF PutJob, Running
    <2>5. (Left = {} => Left' = {}) /\ ran' = ran
      BY <1>4 DEF PutJob, Left, At
    <2>6. owner'.at = owner.at /\ promised' = promised /\ unputJobs' = unputJobs \ {j} /\ starts' = starts
      BY <1>4, <1>A DEF PutJob, restVars
    <2>7. j # NullJob
      BY <1>A DEF PoolAssumption
    <2>8. AcceptedOK'
      <3>1. owner.at = "using" => NobodyLeft'
        BY <2>1, <2>5, <2>7, <1>A DEF AcceptedOK, NobodyLeft
      <3>2. owner.at = "using" => \A i \in Jobs \ unputJobs' : i \in ran' \/ Running(i)' \/ Queued(i)' # {}
        BY <2>1, <2>4, <2>5, <2>6, <1>A DEF AcceptedOK
      <3> QED BY <3>1, <3>2, <2>6 DEF AcceptedOK
    <2>9. PromisedOK'
      <3> SUFFICES ASSUME owner.at = "finishing", NEW i \in promised \ ran, i \notin ran'
                   PROVE  \/ Running(i)'
                          \/ Left' = {} /\ \E k \in Queued(i)' : \A l \in 1 .. k : jobs'[l] # NullJob
        BY <2>5, <2>6 DEF PromisedOK
      <3>1. CASE Running(i)
        BY <3>1, <2>4
      <3>2. CASE Left = {} /\ \E k \in Queued(i) : \A l \in 1 .. k : jobs[l] # NullJob
        <4>1. PICK k \in Queued(i) : \A l \in 1 .. k : jobs[l] # NullJob
          BY <3>2
        <4>2. k \in Queued(i)' /\ k \in 1 .. Len(jobs)
          BY <4>1, <2>1, <1>A DEF Queued, Indices
        <4>3. \A l \in 1 .. k : jobs'[l] # NullJob
          BY <4>1, <4>2, <2>1, <1>A
        <4> QED BY <4>2, <4>3, <3>2, <2>5
      <3> QED BY <3>1, <3>2, <1>A DEF PromisedOK
    <2>10. FinishRunsAll'
      BY <1>4, <2>5, <2>6, <1>A DEF FinishRunsAll, PutJob
    <2> QED BY <2>6, <2>8, <2>9, <2>10, <1>A DEF FinishOK
  <1>5. ASSUME NEW b \in Batches, RunBatch(b) PROVE FinishOK'
    <2>1. jobs' = jobs /\ \A x : Queued(x)' = Queued(x)
      BY <1>5 DEF RunBatch, Queued
    <2>4. \A y : Running(y) => Running(y)'
      BY <1>5 DEF RunBatch, Running
    <2>5. (Left = {} => Left' = {}) /\ ran' = ran
      BY <1>5 DEF RunBatch, Left, At
    <2>6. owner'.at = owner.at /\ promised' = promised /\ unputJobs' = unputJobs /\ starts' = starts
      BY <1>5, <1>A DEF RunBatch, restVars
    <2>8. AcceptedOK'
      <3>1. owner.at = "using" => NobodyLeft'
        BY <2>1, <2>5, <1>A DEF AcceptedOK, NobodyLeft
      <3>2. owner.at = "using" => \A i \in Jobs \ unputJobs' : i \in ran' \/ Running(i)' \/ Queued(i)' # {}
        BY <2>1, <2>4, <2>5, <2>6, <1>A DEF AcceptedOK
      <3> QED BY <3>1, <3>2, <2>6 DEF AcceptedOK
    <2>9. PromisedOK'
      <3> SUFFICES ASSUME owner.at = "finishing", NEW i \in promised \ ran, i \notin ran'
                   PROVE  \/ Running(i)'
                          \/ Left' = {} /\ \E k \in Queued(i)' : \A l \in 1 .. k : jobs'[l] # NullJob
        BY <2>5, <2>6 DEF PromisedOK
      <3>1. CASE Running(i)
        BY <3>1, <2>4
      <3>2. CASE Left = {} /\ \E k \in Queued(i) : \A l \in 1 .. k : jobs[l] # NullJob
        BY <3>2, <2>1, <2>5
      <3> QED BY <3>1, <3>2, <1>A DEF PromisedOK
    <2>10. FinishRunsAll'
      BY <1>5, <2>5, <2>6, <1>A DEF FinishRunsAll, RunBatch
    <2> QED BY <2>6, <2>8, <2>9, <2>10, <1>A DEF FinishOK
  <1>6. ASSUME NEW b \in Batches, BatchPut(b) PROVE FinishOK'
    <2>1. /\ \A x : Queued(x)' = Queued(x) \cup (IF x = b THEN {Len(jobs) + 1} ELSE {})
          /\ \A l \in 1 .. Len(jobs) : jobs'[l] = jobs[l]
      <3>1. b \in Items /\ jobs' = Append(jobs, b)
        BY <1>6, <1>A DEF BatchPut, Items
      <3> QED BY <3>1, <1>A, QueueEnds
    <2>4. \A y : Running(y) => Running(y)'
      BY <1>6 DEF BatchPut, Running
    <2>5. (Left = {} => Left' = {}) /\ ran' = ran
      BY <1>6 DEF BatchPut, Left, At
    <2>6. owner'.at = owner.at /\ promised' = promised /\ unputJobs' = unputJobs /\ starts' = starts
      BY <1>6, <1>A DEF BatchPut, restVars
    <2>7. b # NullJob
      BY <1>A DEF PoolAssumption
    <2>8. AcceptedOK'
      <3>1. owner.at = "using" => NobodyLeft'
        BY <2>1, <2>5, <2>7, <1>A DEF AcceptedOK, NobodyLeft
      <3>2. owner.at = "using" => \A i \in Jobs \ unputJobs' : i \in ran' \/ Running(i)' \/ Queued(i)' # {}
        BY <2>1, <2>4, <2>5, <2>6, <1>A DEF AcceptedOK
      <3> QED BY <3>1, <3>2, <2>6 DEF AcceptedOK
    <2>9. PromisedOK'
      <3> SUFFICES ASSUME owner.at = "finishing", NEW i \in promised \ ran, i \notin ran'
                   PROVE  \/ Running(i)'
                          \/ Left' = {} /\ \E k \in Queued(i)' : \A l \in 1 .. k : jobs'[l] # NullJob
        BY <2>5, <2>6 DEF PromisedOK
      <3>1. CASE Running(i)
        BY <3>1, <2>4
      <3>2. CASE Left = {} /\ \E k \in Queued(i) : \A l \in 1 .. k : jobs[l] # NullJob
        <4>1. PICK k \in Queued(i) : \A l \in 1 .. k : jobs[l] # NullJob
          BY <3>2
        <4>2. k \in Queued(i)' /\ k \in 1 .. Len(jobs)
          BY <4>1, <2>1, <1>A, ZenonT(60) DEF Queued, Indices
        <4>3. \A l \in 1 .. k : jobs'[l] # NullJob
          BY <4>1, <4>2, <2>1, <1>A
        <4> QED BY <4>2, <4>3, <3>2, <2>5
      <3> QED BY <3>1, <3>2, <1>A DEF PromisedOK
    <2>10. FinishRunsAll'
      BY <1>6, <2>5, <2>6, <1>A DEF FinishRunsAll, BatchPut
    <2> QED BY <2>6, <2>8, <2>9, <2>10, <1>A DEF FinishOK
  <1>7. ASSUME NEW b \in Batches, BatchReturn(b) PROVE FinishOK'
    <2>1. jobs' = jobs /\ \A x : Queued(x)' = Queued(x)
      BY <1>7 DEF BatchReturn, Queued
    <2>4. \A y : Running(y) => Running(y)'
      BY <1>7 DEF BatchReturn, Running
    <2>5. (Left = {} => Left' = {}) /\ ran' = ran
      BY <1>7 DEF BatchReturn, Left, At
    <2>6. owner'.at = owner.at /\ promised' = promised /\ unputJobs' = unputJobs /\ starts' = starts
      BY <1>7, <1>A DEF BatchReturn, restVars
    <2>8. AcceptedOK'
      <3>1. owner.at = "using" => NobodyLeft'
        BY <2>1, <2>5, <1>A DEF AcceptedOK, NobodyLeft
      <3>2. owner.at = "using" => \A i \in Jobs \ unputJobs' : i \in ran' \/ Running(i)' \/ Queued(i)' # {}
        BY <2>1, <2>4, <2>5, <2>6, <1>A DEF AcceptedOK
      <3> QED BY <3>1, <3>2, <2>6 DEF AcceptedOK
    <2>9. PromisedOK'
      <3> SUFFICES ASSUME owner.at = "finishing", NEW i \in promised \ ran, i \notin ran'
                   PROVE  \/ Running(i)'
                          \/ Left' = {} /\ \E k \in Queued(i)' : \A l \in 1 .. k : jobs'[l] # NullJob
        BY <2>5, <2>6 DEF PromisedOK
      <3>1. CASE Running(i)
        BY <3>1, <2>4
      <3>2. CASE Left = {} /\ \E k \in Queued(i) : \A l \in 1 .. k : jobs[l] # NullJob
        BY <3>2, <2>1, <2>5
      <3> QED BY <3>1, <3>2, <1>A DEF PromisedOK
    <2>10. FinishRunsAll'
      BY <1>7, <2>5, <2>6, <1>A DEF FinishRunsAll, BatchReturn
    <2> QED BY <2>6, <2>8, <2>9, <2>10, <1>A DEF FinishOK
  <1>8. ASSUME NEW b \in Batches, BatchWaitDone(b) PROVE FinishOK'
    <2>1. jobs' = jobs /\ \A x : Queued(x)' = Queued(x)
      BY <1>8 DEF BatchWaitDone, Queued
    <2>4. \A y : Running(y) => Running(y)'
      BY <1>8 DEF BatchWaitDone, Running
    <2>5. (Left = {} => Left' = {}) /\ ran' = ran
      BY <1>8 DEF BatchWaitDone, Left, At
    <2>6. owner'.at = owner.at /\ promised' = promised /\ unputJobs' = unputJobs /\ starts' = starts
      BY <1>8, <1>A DEF BatchWaitDone, restVars
    <2>8. AcceptedOK'
      <3>1. owner.at = "using" => NobodyLeft'
        BY <2>1, <2>5, <1>A DEF AcceptedOK, NobodyLeft
      <3>2. owner.at = "using" => \A i \in Jobs \ unputJobs' : i \in ran' \/ Running(i)' \/ Queued(i)' # {}
        BY <2>1, <2>4, <2>5, <2>6, <1>A DEF AcceptedOK
      <3> QED BY <3>1, <3>2, <2>6 DEF AcceptedOK
    <2>9. PromisedOK'
      <3> SUFFICES ASSUME owner.at = "finishing", NEW i \in promised \ ran, i \notin ran'
                   PROVE  \/ Running(i)'
                          \/ Left' = {} /\ \E k \in Queued(i)' : \A l \in 1 .. k : jobs'[l] # NullJob
        BY <2>5, <2>6 DEF PromisedOK
      <3>1. CASE Running(i)
        BY <3>1, <2>4
      <3>2. CASE Left = {} /\ \E k \in Queued(i) : \A l \in 1 .. k : jobs[l] # NullJob
        BY <3>2, <2>1, <2>5
      <3> QED BY <3>1, <3>2, <1>A DEF PromisedOK
    <2>10. FinishRunsAll'
      BY <1>8, <2>5, <2>6, <1>A DEF FinishRunsAll, BatchWaitDone
    <2> QED BY <2>6, <2>8, <2>9, <2>10, <1>A DEF FinishOK
  <1>9. ASSUME NEW r \in Runners, ThreadRunGet(r) PROVE FinishOK'
    <2>1. jobs # << >> /\ jobs' = Tail(jobs)
      BY <1>9 DEF ThreadRunGet
    <2>2. /\ Head(jobs) = jobs[1] /\ Head(jobs) \in Items
          /\ \A x : \A k \in Queued(x) : k # 1 => k - 1 \in Queued(x)'
          /\ \A l \in 1 .. Len(jobs) - 1 : jobs'[l] = jobs[l + 1]
          /\ \A x : Queued(x) = {} => Queued(x)' = {}
      BY <2>1, <1>A, QueueEnds
    <2>3. /\ \A q \in Runners \ {r} : worker'[q] = worker[q]
          /\ worker[r].at = "idle" /\ worker'[r].item = Head(jobs)
          /\ Head(jobs) # NullJob => worker'[r].at \in {"running", "batchPop"}
          /\ Head(jobs) \in Jobs => worker'[r].at = "running"
      BY <1>9, <2>2, <1>A DEF ThreadRunGet, GoTo, Items, PoolAssumption
    <2>4. /\ \A i : Running(i) => Running(i)'
          /\ \A i \in Jobs : Head(jobs) = i => Running(i)'
      BY <2>3 DEF Running
    <2>5. Head(jobs) # NullJob /\ Left = {} => Left' = {}
      BY <2>3, <1>A DEF Left, At
    <2>6. /\ owner' = owner /\ promised' = promised /\ unputJobs' = unputJobs /\ ran' = ran /\ starts' = starts
      BY <1>9 DEF ThreadRunGet, restVars
    <2>7. \A i \in Jobs : \A k \in Queued(i) : Head(jobs) = i \/ k - 1 \in Queued(i)'
      BY <2>2 DEF Queued, Indices
    <2>8. AcceptedOK'
      <3>1. owner.at = "using" => NobodyLeft'
        <4>1. Queued(NullJob) = {} => Head(jobs) # NullJob
          <5>1. 1 \in DOMAIN jobs
            BY <2>1, <1>A, EmptySeq
          <5> QED BY <5>1, <2>2 DEF Queued, Indices
        <4> QED BY <4>1, <2>2, <2>5, <1>A DEF AcceptedOK, NobodyLeft
      <3>2. owner.at = "using" => \A i \in Jobs \ unputJobs' : i \in ran' \/ Running(i)' \/ Queued(i)' # {}
        BY <2>4, <2>6, <2>7, <1>A DEF AcceptedOK
      <3> QED BY <3>1, <3>2, <2>6 DEF AcceptedOK
    <2>9. PromisedOK'
      <3> SUFFICES ASSUME owner.at = "finishing", NEW i \in promised \ ran
                   PROVE  \/ Running(i)'
                          \/ Left' = {} /\ \E k \in Queued(i)' : \A l \in 1 .. k : jobs'[l] # NullJob
        BY <2>6 DEF PromisedOK
      <3>1. CASE Running(i)
        BY <3>1, <2>4
      <3>2. CASE Left = {} /\ \E k \in Queued(i) : \A l \in 1 .. k : jobs[l] # NullJob
        <4>1. PICK k \in Queued(i) : \A l \in 1 .. k : jobs[l] # NullJob
          BY <3>2
        <4>2. k \in 1 .. Len(jobs) /\ i \in Jobs
          BY <4>1, <1>A DEF Queued, Indices
        <4>3. Head(jobs) # NullJob
          BY <4>1, <4>2, <2>2, <1>A
        <4>4. CASE Head(jobs) = i
          BY <4>2, <4>4, <2>4
        <4>5. CASE Head(jobs) # i
          <5>1. k - 1 \in Queued(i)'
            BY <4>1, <4>2, <4>5, <2>7
          <5>2. ASSUME NEW l \in 1 .. k - 1 PROVE jobs'[l] # NullJob
            <6>1. l + 1 \in 1 .. k /\ l \in 1 .. Len(jobs) - 1
              BY <4>2, <1>A
            <6> QED BY <6>1, <4>1, <2>2
          <5> QED BY <5>1, <5>2, <4>3, <3>2, <2>5
        <4> QED BY <4>4, <4>5
      <3> QED BY <3>1, <3>2, <1>A DEF PromisedOK
    <2>10. FinishRunsAll'
      BY <2>6, <1>A DEF FinishRunsAll
    <2> QED BY <2>6, <2>8, <2>9, <2>10, <1>A DEF FinishOK
  <1>10. ASSUME NEW r \in Runners, NEW c \in Jobs, PutChild(r, c) PROVE FinishOK'
    <2>1. /\ \A x : Queued(x)' = Queued(x) \cup (IF x = c THEN {Len(jobs) + 1} ELSE {})
          /\ \A l \in 1 .. Len(jobs) : jobs'[l] = jobs[l]
      <3>1. c \in Items /\ jobs' = Append(jobs, c)
        BY <1>10, <1>A DEF PutChild, Items
      <3> QED BY <3>1, <1>A, QueueEnds
    <2>4. \A y : Running(y) => Running(y)'
      BY <1>10 DEF PutChild, Running
    <2>5. (Left = {} => Left' = {}) /\ ran' = ran
      BY <1>10 DEF PutChild, Left, At
    <2>6. owner'.at = owner.at /\ promised' = promised /\ unputJobs' = unputJobs \ {c} /\ starts' = starts
      BY <1>10, <1>A DEF PutChild, restVars
    <2>7. c # NullJob
      BY <1>A DEF PoolAssumption
    <2>8. AcceptedOK'
      <3>1. owner.at = "using" => NobodyLeft'
        BY <2>1, <2>5, <2>7, <1>A DEF AcceptedOK, NobodyLeft
      <3>2. owner.at = "using" => \A i \in Jobs \ unputJobs' : i \in ran' \/ Running(i)' \/ Queued(i)' # {}
        BY <2>1, <2>4, <2>5, <2>6, <1>A DEF AcceptedOK
      <3> QED BY <3>1, <3>2, <2>6 DEF AcceptedOK
    <2>9. PromisedOK'
      <3> SUFFICES ASSUME owner.at = "finishing", NEW i \in promised \ ran, i \notin ran'
                   PROVE  \/ Running(i)'
                          \/ Left' = {} /\ \E k \in Queued(i)' : \A l \in 1 .. k : jobs'[l] # NullJob
        BY <2>5, <2>6 DEF PromisedOK
      <3>1. CASE Running(i)
        BY <3>1, <2>4
      <3>2. CASE Left = {} /\ \E k \in Queued(i) : \A l \in 1 .. k : jobs[l] # NullJob
        <4>1. PICK k \in Queued(i) : \A l \in 1 .. k : jobs[l] # NullJob
          BY <3>2
        <4>2. k \in Queued(i)' /\ k \in 1 .. Len(jobs)
          BY <4>1, <2>1, <1>A DEF Queued, Indices
        <4>3. \A l \in 1 .. k : jobs'[l] # NullJob
          BY <4>1, <4>2, <2>1, <1>A
        <4> QED BY <4>2, <4>3, <3>2, <2>5
      <3> QED BY <3>1, <3>2, <1>A DEF PromisedOK
    <2>10. FinishRunsAll'
      BY <1>10, <2>5, <2>6, <1>A DEF FinishRunsAll, PutChild
    <2> QED BY <2>6, <2>8, <2>9, <2>10, <1>A DEF FinishOK
  <1>11. ASSUME NEW r \in Runners, JobDone(r) PROVE FinishOK'
    <2>1. jobs' = jobs /\ \A x : Queued(x)' = Queued(x)
      BY <1>11 DEF JobDone, Queued
    <2>2. /\ \A q \in Runners \ {r} : worker'[q] = worker[q]
          /\ worker[r].at = "running" /\ worker'[r].at \in {"idle"}
      BY <1>11, <1>A DEF JobDone, GoTo
    <2>4. \A y : Running(y) => Running(y)' \/ y \in ran'
      BY <1>11, <2>2 DEF JobDone, Running
    <2>5. Left' = Left /\ ran \subseteq ran'
      <3>1. Left' = Left
        BY <2>2, <1>A, AtMoved DEF Left
      <3> QED BY <1>11, <3>1 DEF JobDone
    <2>6. owner'.at = owner.at /\ promised' = promised /\ unputJobs' = unputJobs /\ starts' = starts
      BY <1>11, <1>A DEF JobDone, restVars
    <2>8. AcceptedOK'
      <3>1. owner.at = "using" => NobodyLeft'
        BY <2>1, <2>5, <1>A DEF AcceptedOK, NobodyLeft
      <3>2. owner.at = "using" => \A i \in Jobs \ unputJobs' : i \in ran' \/ Running(i)' \/ Queued(i)' # {}
        BY <2>1, <2>4, <2>5, <2>6, <1>A DEF AcceptedOK
      <3> QED BY <3>1, <3>2, <2>6 DEF AcceptedOK
    <2>9. PromisedOK'
      <3> SUFFICES ASSUME owner.at = "finishing", NEW i \in promised \ ran, i \notin ran'
                   PROVE  \/ Running(i)'
                          \/ Left' = {} /\ \E k \in Queued(i)' : \A l \in 1 .. k : jobs'[l] # NullJob
        BY <2>5, <2>6 DEF PromisedOK
      <3>1. CASE Running(i)
        BY <3>1, <2>4
      <3>2. CASE Left = {} /\ \E k \in Queued(i) : \A l \in 1 .. k : jobs[l] # NullJob
        BY <3>2, <2>1, <2>5
      <3> QED BY <3>1, <3>2, <1>A DEF PromisedOK
    <2>10. FinishRunsAll'
      BY <1>11, <2>5, <2>6, <1>A DEF FinishRunsAll, JobDone
    <2> QED BY <2>6, <2>8, <2>9, <2>10, <1>A DEF FinishOK
  <1>12. ASSUME NEW r \in Runners, BatchPop(r) PROVE FinishOK'
    <2>1. jobs' = jobs /\ \A x : Queued(x)' = Queued(x)
      BY <1>12 DEF BatchPop, Queued
    <2>2. /\ \A q \in Runners \ {r} : worker'[q] = worker[q]
          /\ worker[r].at = "batchPop" /\ worker'[r].at \in {"batchRun"}
      BY <1>12, <1>A DEF BatchPop, GoTo
    <2>4. \A y : Running(y) => Running(y)'
      BY <2>2 DEF Running
    <2>5. (Left = {} => Left' = {}) /\ ran' = ran
      BY <1>12, <2>2, <1>A DEF BatchPop, Left, At
    <2>6. owner'.at = owner.at /\ promised' = promised /\ unputJobs' = unputJobs /\ starts' = starts
      BY <1>12, <1>A DEF BatchPop, restVars
    <2>8. AcceptedOK'
      <3>1. owner.at = "using" => NobodyLeft'
        BY <2>1, <2>5, <1>A DEF AcceptedOK, NobodyLeft
      <3>2. owner.at = "using" => \A i \in Jobs \ unputJobs' : i \in ran' \/ Running(i)' \/ Queued(i)' # {}
        BY <2>1, <2>4, <2>5, <2>6, <1>A DEF AcceptedOK
      <3> QED BY <3>1, <3>2, <2>6 DEF AcceptedOK
    <2>9. PromisedOK'
      <3> SUFFICES ASSUME owner.at = "finishing", NEW i \in promised \ ran, i \notin ran'
                   PROVE  \/ Running(i)'
                          \/ Left' = {} /\ \E k \in Queued(i)' : \A l \in 1 .. k : jobs'[l] # NullJob
        BY <2>5, <2>6 DEF PromisedOK
      <3>1. CASE Running(i)
        BY <3>1, <2>4
      <3>2. CASE Left = {} /\ \E k \in Queued(i) : \A l \in 1 .. k : jobs[l] # NullJob
        BY <3>2, <2>1, <2>5
      <3> QED BY <3>1, <3>2, <1>A DEF PromisedOK
    <2>10. FinishRunsAll'
      BY <1>12, <2>5, <2>6, <1>A DEF FinishRunsAll, BatchPop
    <2> QED BY <2>6, <2>8, <2>9, <2>10, <1>A DEF FinishOK
  <1>13. ASSUME NEW r \in Runners, BatchJobDone(r) PROVE FinishOK'
    <2>1. jobs' = jobs /\ \A x : Queued(x)' = Queued(x)
      BY <1>13 DEF BatchJobDone, Queued
    <2>2. /\ \A q \in Runners \ {r} : worker'[q] = worker[q]
          /\ worker[r].at = "batchRun" /\ worker'[r].at \in {"batchLast", "idle"}
      BY <1>13, <1>A DEF BatchJobDone, GoTo
    <2>4. \A y : Running(y) => Running(y)'
      BY <2>2 DEF Running
    <2>5. (Left = {} => Left' = {}) /\ ran' = ran
      BY <1>13, <2>2, <1>A DEF BatchJobDone, Left, At
    <2>6. owner'.at = owner.at /\ promised' = promised /\ unputJobs' = unputJobs /\ starts' = starts
      BY <1>13, <1>A DEF BatchJobDone, restVars
    <2>8. AcceptedOK'
      <3>1. owner.at = "using" => NobodyLeft'
        BY <2>1, <2>5, <1>A DEF AcceptedOK, NobodyLeft
      <3>2. owner.at = "using" => \A i \in Jobs \ unputJobs' : i \in ran' \/ Running(i)' \/ Queued(i)' # {}
        BY <2>1, <2>4, <2>5, <2>6, <1>A DEF AcceptedOK
      <3> QED BY <3>1, <3>2, <2>6 DEF AcceptedOK
    <2>9. PromisedOK'
      <3> SUFFICES ASSUME owner.at = "finishing", NEW i \in promised \ ran, i \notin ran'
                   PROVE  \/ Running(i)'
                          \/ Left' = {} /\ \E k \in Queued(i)' : \A l \in 1 .. k : jobs'[l] # NullJob
        BY <2>5, <2>6 DEF PromisedOK
      <3>1. CASE Running(i)
        BY <3>1, <2>4
      <3>2. CASE Left = {} /\ \E k \in Queued(i) : \A l \in 1 .. k : jobs[l] # NullJob
        BY <3>2, <2>1, <2>5
      <3> QED BY <3>1, <3>2, <1>A DEF PromisedOK
    <2>10. FinishRunsAll'
      BY <1>13, <2>5, <2>6, <1>A DEF FinishRunsAll, BatchJobDone
    <2> QED BY <2>6, <2>8, <2>9, <2>10, <1>A DEF FinishOK
  <1>14. ASSUME NEW r \in Runners, BatchComplete(r) PROVE FinishOK'
    <2>1. jobs' = jobs /\ \A x : Queued(x)' = Queued(x)
      BY <1>14 DEF BatchComplete, Queued
    <2>2. /\ \A q \in Runners \ {r} : worker'[q] = worker[q]
          /\ worker[r].at = "batchLast" /\ worker'[r].at \in {"idle"}
      BY <1>14, <1>A DEF BatchComplete, GoTo
    <2>4. \A y : Running(y) => Running(y)'
      BY <2>2 DEF Running
    <2>5. (Left = {} => Left' = {}) /\ ran' = ran
      BY <1>14, <2>2, <1>A DEF BatchComplete, Left, At
    <2>6. owner'.at = owner.at /\ promised' = promised /\ unputJobs' = unputJobs /\ starts' = starts
      BY <1>14, <1>A DEF BatchComplete, restVars
    <2>8. AcceptedOK'
      <3>1. owner.at = "using" => NobodyLeft'
        BY <2>1, <2>5, <1>A DEF AcceptedOK, NobodyLeft
      <3>2. owner.at = "using" => \A i \in Jobs \ unputJobs' : i \in ran' \/ Running(i)' \/ Queued(i)' # {}
        BY <2>1, <2>4, <2>5, <2>6, <1>A DEF AcceptedOK
      <3> QED BY <3>1, <3>2, <2>6 DEF AcceptedOK
    <2>9. PromisedOK'
      <3> SUFFICES ASSUME owner.at = "finishing", NEW i \in promised \ ran, i \notin ran'
                   PROVE  \/ Running(i)'
                          \/ Left' = {} /\ \E k \in Queued(i)' : \A l \in 1 .. k : jobs'[l] # NullJob
        BY <2>5, <2>6 DEF PromisedOK
      <3>1. CASE Running(i)
        BY <3>1, <2>4
      <3>2. CASE Left = {} /\ \E k \in Queued(i) : \A l \in 1 .. k : jobs[l] # NullJob
        BY <3>2, <2>1, <2>5
      <3> QED BY <3>1, <3>2, <1>A DEF PromisedOK
    <2>10. FinishRunsAll'
      BY <1>14, <2>5, <2>6, <1>A DEF FinishRunsAll, BatchComplete
    <2> QED BY <2>6, <2>8, <2>9, <2>10, <1>A DEF FinishOK
  <1>15. ASSUME NEW r \in Runners, Leave(r) PROVE FinishOK'
    <2>1. jobs' = jobs /\ \A x : Queued(x)' = Queued(x)
      BY <1>15 DEF Leave, Queued
    <2>2. /\ \A q \in Runners \ {r} : worker'[q] = worker[q]
          /\ worker[r].at = "leaving" /\ worker'[r].at \in {"callback", "exited"}
      BY <1>15, <1>A DEF Leave, GoTo
    <2>4. \A y : Running(y) => Running(y)'
      BY <2>2 DEF Running
    <2>5. (Left = {} => Left' = {}) /\ ran' = ran
      BY <1>15, <2>2, <1>A DEF Leave, Left, At
    <2>6. owner'.at = owner.at /\ promised' = promised /\ unputJobs' = unputJobs /\ starts' = starts
      BY <1>15, <1>A DEF Leave, restVars
    <2>8. AcceptedOK'
      <3>1. Left # {}
        BY <2>2 DEF Left, At
      <3> QED BY <3>1, <2>6, <1>A DEF AcceptedOK, NobodyLeft
    <2>9. PromisedOK'
      <3> SUFFICES ASSUME owner.at = "finishing", NEW i \in promised \ ran, i \notin ran'
                   PROVE  \/ Running(i)'
                          \/ Left' = {} /\ \E k \in Queued(i)' : \A l \in 1 .. k : jobs'[l] # NullJob
        BY <2>5, <2>6 DEF PromisedOK
      <3>1. CASE Running(i)
        BY <3>1, <2>4
      <3>2. CASE Left = {} /\ \E k \in Queued(i) : \A l \in 1 .. k : jobs[l] # NullJob
        BY <3>2, <2>1, <2>5
      <3> QED BY <3>1, <3>2, <1>A DEF PromisedOK
    <2>10. FinishRunsAll'
      BY <1>15, <2>5, <2>6, <1>A DEF FinishRunsAll, Leave
    <2> QED BY <2>6, <2>8, <2>9, <2>10, <1>A DEF FinishOK
  <1>16. ASSUME NEW r \in Runners, CompletionCallback(r) PROVE FinishOK'
    <2>1. jobs' = jobs /\ \A x : Queued(x)' = Queued(x)
      BY <1>16 DEF CompletionCallback, Queued
    <2>2. /\ \A q \in Runners \ {r} : worker'[q] = worker[q]
          /\ worker[r].at = "callback" /\ worker'[r].at \in {"exited"}
      BY <1>16, <1>A DEF CompletionCallback, GoTo
    <2>4. \A y : Running(y) => Running(y)'
      BY <2>2 DEF Running
    <2>5. (Left = {} => Left' = {}) /\ ran' = ran
      BY <1>16, <2>2, <1>A DEF CompletionCallback, Left, At
    <2>6. owner'.at = owner.at /\ promised' = promised /\ unputJobs' = unputJobs /\ starts' = starts
      BY <1>16, <1>A DEF CompletionCallback, restVars
    <2>8. AcceptedOK'
      <3>1. Left # {}
        BY <2>2 DEF Left, At
      <3> QED BY <3>1, <2>6, <1>A DEF AcceptedOK, NobodyLeft
    <2>9. PromisedOK'
      <3> SUFFICES ASSUME owner.at = "finishing", NEW i \in promised \ ran, i \notin ran'
                   PROVE  \/ Running(i)'
                          \/ Left' = {} /\ \E k \in Queued(i)' : \A l \in 1 .. k : jobs'[l] # NullJob
        BY <2>5, <2>6 DEF PromisedOK
      <3>1. CASE Running(i)
        BY <3>1, <2>4
      <3>2. CASE Left = {} /\ \E k \in Queued(i) : \A l \in 1 .. k : jobs[l] # NullJob
        BY <3>2, <2>1, <2>5
      <3> QED BY <3>1, <3>2, <1>A DEF PromisedOK
    <2>10. FinishRunsAll'
      BY <1>16, <2>5, <2>6, <1>A DEF FinishRunsAll, CompletionCallback
    <2> QED BY <2>6, <2>8, <2>9, <2>10, <1>A DEF FinishOK
  <1>17. ASSUME FinishPutNull PROVE FinishOK'
    <2>1. /\ \A x : Queued(x)' = Queued(x) \cup (IF x = NullJob THEN {Len(jobs) + 1} ELSE {})
          /\ \A l \in 1 .. Len(jobs) : jobs'[l] = jobs[l]
      <3>1. NullJob \in Items /\ jobs' = Append(jobs, NullJob)
        BY <1>17, <1>A DEF FinishPutNull, Items
      <3> QED BY <3>1, <1>A, QueueEnds
    <2>4. \A y : Running(y) => Running(y)'
      BY <1>17 DEF FinishPutNull, Running
    <2>5. (Left = {} => Left' = {}) /\ ran' = ran
      BY <1>17 DEF FinishPutNull, Left, At
    <2>6. owner'.at = owner.at /\ promised' = promised /\ unputJobs' = unputJobs /\ starts' = starts
      BY <1>17, <1>A DEF FinishPutNull, restVars
    <2>7. owner.at = "finishing"
      BY <1>17 DEF FinishPutNull
    <2>8. AcceptedOK'
      <3>1. owner.at = "using" => NobodyLeft'
        BY <2>1, <2>5, <2>7, <1>A DEF AcceptedOK, NobodyLeft
      <3>2. owner.at = "using" => \A i \in Jobs \ unputJobs' : i \in ran' \/ Running(i)' \/ Queued(i)' # {}
        BY <2>1, <2>4, <2>5, <2>6, <1>A DEF AcceptedOK
      <3> QED BY <3>1, <3>2, <2>6 DEF AcceptedOK
    <2>9. PromisedOK'
      <3> SUFFICES ASSUME owner.at = "finishing", NEW i \in promised \ ran, i \notin ran'
                   PROVE  \/ Running(i)'
                          \/ Left' = {} /\ \E k \in Queued(i)' : \A l \in 1 .. k : jobs'[l] # NullJob
        BY <2>5, <2>6 DEF PromisedOK
      <3>1. CASE Running(i)
        BY <3>1, <2>4
      <3>2. CASE Left = {} /\ \E k \in Queued(i) : \A l \in 1 .. k : jobs[l] # NullJob
        <4>1. PICK k \in Queued(i) : \A l \in 1 .. k : jobs[l] # NullJob
          BY <3>2
        <4>2. k \in Queued(i)' /\ k \in 1 .. Len(jobs)
          BY <4>1, <2>1, <1>A, ZenonT(60) DEF Queued, Indices
        <4>3. \A l \in 1 .. k : jobs'[l] # NullJob
          BY <4>1, <4>2, <2>1, <1>A
        <4> QED BY <4>2, <4>3, <3>2, <2>5
      <3> QED BY <3>1, <3>2, <1>A DEF PromisedOK
    <2>10. FinishRunsAll'
      BY <1>17, <2>5, <2>6, <1>A DEF FinishRunsAll, FinishPutNull
    <2> QED BY <2>6, <2>8, <2>9, <2>10, <1>A DEF FinishOK
  <1>18. ASSUME DestroyDrain PROVE FinishOK'
    <2>1. owner'.at \notin {"using", "finishing", "finished"}
          /\ promised' = promised /\ unputJobs' = unputJobs
      BY <1>18, <1>A DEF DestroyDrain, restVars
    <2> QED BY <2>1, <1>A DEF AcceptedOK, PromisedOK, FinishRunsAll, FinishOK
  <1>19. ASSUME DestroyPutNull PROVE FinishOK'
    <2>1. owner'.at \notin {"using", "finishing", "finished"}
          /\ promised' = promised /\ unputJobs' = unputJobs
      BY <1>19, <1>A DEF DestroyPutNull, restVars
    <2> QED BY <2>1, <1>A DEF AcceptedOK, PromisedOK, FinishRunsAll, FinishOK
  <1>20. ASSUME DestroyMakeRoom PROVE FinishOK'
    <2>1. owner'.at \notin {"using", "finishing", "finished"}
          /\ promised' = promised /\ unputJobs' = unputJobs
      BY <1>20, <1>A DEF DestroyMakeRoom, restVars
    <2> QED BY <2>1, <1>A DEF AcceptedOK, PromisedOK, FinishRunsAll, FinishOK
  <1>21. ASSUME JoinAll PROVE FinishOK'
    <2>1. jobs' = jobs /\ \A x : Queued(x)' = Queued(x)
      BY <1>21 DEF JoinAll, Queued
    <2>4. \A y : Running(y) => Running(y)'
      BY <1>21 DEF JoinAll, Running
    <2>5. (Left = {} => Left' = {}) /\ ran' = ran
      BY <1>21 DEF JoinAll, Left, At
    <2>6. owner'.at \in {"finished", "destroyed"} /\ promised' = promised /\ unputJobs' = unputJobs
          /\ (owner'.at = "finished" => owner.at = "finishing") /\ starts' = starts
      BY <1>21, <1>A DEF JoinAll, restVars
    <2>7. FinishRunsAll'
      <3> SUFFICES ASSUME owner.at = "finishing", starts > 0, NEW j \in promised, j \notin ran PROVE FALSE
        BY <2>5, <2>6 DEF FinishRunsAll
      <3>1. Current = Runners /\ <<1, 1>> \in Runners
        BY <1>A DEF Current, Runners, ThreadNumbers, StartedOnce, PoolAssumption, Shape
      <3>2. worker[<<1, 1>>].at = "exited" /\ \A r \in Runners : worker[r].at = "exited"
        BY <1>21, <3>1 DEF JoinAll
      <3>3. Left # {} /\ ~Running(j)
        BY <3>1, <3>2 DEF Left, At, Running
      <3> QED BY <3>3, <1>A DEF PromisedOK
    <2> QED BY <2>6, <2>7, <1>A DEF AcceptedOK, PromisedOK, FinishOK
  <1> QED BY <1>1, <1>2, <1>3, <1>4, <1>5, <1>6, <1>7, <1>8, <1>9, <1>10, <1>11, <1>12, <1>13,
      <1>14,
         <1>15, <1>16, <1>17, <1>18, <1>19, <1>20, <1>21 DEF PoolNext, CallerStep, WorkerStep, OwnerStep

-----------------------------------------------------------------------------
(* How the NULLs in jobs_ change with a Put at the back, a Get at the front. *)
LEMMA NullsCounted ==
    ASSUME Shape, NullJob \in Items
    PROVE  /\ \A e \in Items \ {NullJob} : jobs' = Append(jobs, e) => Queued(NullJob)' = Queued(NullJob)
           /\ jobs' = Append(jobs, NullJob) =>
                 /\ Cardinality(Queued(NullJob)') = Cardinality(Queued(NullJob)) + 1
                 /\ Queued(NullJob) = DOMAIN jobs => Queued(NullJob)' = DOMAIN jobs'
           /\ jobs # << >> /\ jobs' = Tail(jobs) =>
                 /\ Queued(NullJob) = DOMAIN jobs => Queued(NullJob)' = DOMAIN jobs' /\ Head(jobs) = NullJob
                 /\ Cardinality(Queued(NullJob)') =
                       Cardinality(Queued(NullJob)) - (IF Head(jobs) = NullJob THEN 1 ELSE 0)
  <1>0. jobs \in Seq(Items) /\ DOMAIN jobs = 1 .. Len(jobs) /\ Len(jobs) \in Nat
    BY LenProperties DEF Shape
  <1>1. ASSUME NEW e \in Items \ {NullJob}, jobs' = Append(jobs, e) PROVE Queued(NullJob)' = Queued(NullJob)
    BY <1>0, <1>1, CountAppend DEF Queued
  <1>2. ASSUME jobs' = Append(jobs, NullJob)
        PROVE  /\ Cardinality(Queued(NullJob)') = Cardinality(Queued(NullJob)) + 1
               /\ Queued(NullJob) = DOMAIN jobs => Queued(NullJob)' = DOMAIN jobs'
    <2>1. Cardinality(Queued(NullJob)') = Cardinality(Queued(NullJob)) + 1
      BY <1>0, <1>2, CountAppend DEF Queued
    <2>2. DOMAIN jobs' = 1 .. Len(jobs) + 1
      BY <1>0, <1>2, AppendProperties, LenProperties
    <2>3. Queued(NullJob)' = Queued(NullJob) \cup {Len(jobs) + 1}
      BY <1>2, QueueEnds
    <2> QED BY <1>0, <2>1, <2>2, <2>3
  <1>3. ASSUME jobs # << >>, jobs' = Tail(jobs)
        PROVE  /\ Queued(NullJob) = DOMAIN jobs => Queued(NullJob)' = DOMAIN jobs' /\ Head(jobs) = NullJob
               /\ Cardinality(Queued(NullJob)') =
                     Cardinality(Queued(NullJob)) - (IF Head(jobs) = NullJob THEN 1 ELSE 0)
    <2>1. /\ Head(jobs) = NullJob => Cardinality(Queued(NullJob)') = Cardinality(Queued(NullJob)) - 1
          /\ Head(jobs) # NullJob => Cardinality(Queued(NullJob)') = Cardinality(Queued(NullJob))
      BY <1>0, <1>3, CountTail DEF Queued
    <2>2. Cardinality(Queued(NullJob)) \in Nat
      BY <1>0, IndicesFinite DEF Queued
    <2>3. ASSUME Queued(NullJob) = DOMAIN jobs PROVE Queued(NullJob)' = DOMAIN jobs' /\ Head(jobs) = NullJob
      <3>1. /\ DOMAIN jobs' = 1 .. Len(jobs) - 1 /\ Len(jobs) > 0
            /\ \A l \in 1 .. Len(jobs) - 1 : jobs'[l] = jobs[l + 1]
        BY <1>0, <1>3, HeadTailProperties, LenProperties, EmptySeq
      <3>2. \A l \in 1 .. Len(jobs) : jobs[l] = NullJob
        BY <1>0, <2>3 DEF Queued, Indices
      <3>3. \A l \in 1 .. Len(jobs) - 1 : jobs'[l] = NullJob
        BY <1>0, <3>1, <3>2
      <3>4. Head(jobs) = NullJob
        <4>1. Head(jobs) = jobs[1]
          BY <1>3, QueueEnds
        <4> QED BY <4>1, <1>0, <3>1, <3>2
      <3> QED BY <3>1, <3>3, <3>4 DEF Queued, Indices
    <2> QED BY <2>1, <2>2, <2>3
  <1> QED BY <1>1, <1>2, <1>3

(* A pool that is started once has all its threads in the one generation.  *)
LEMMA OneGeneration ==
    ASSUME PoolAssumption, StartedOnce, Shape, starts > 0
    PROVE  Current = Runners /\ MaxStarts > 0 /\ Cardinality(Runners) = NumThreads
  <1>1. starts = 1 /\ MaxStarts = 1
    BY DEF PoolAssumption, StartedOnce, Shape
  <1>2. Current = Runners
    BY <1>1 DEF Current, Runners, ThreadNumbers
  <1> QED BY <1>1, <1>2, RunnersFinite

(* Every step keeps the NULLs put, in jobs_ or taken by a worker.          *)
LEMMA SentinelStep == PoolAssumption /\ StartedOnce /\ NoSpawning /\ SentinelInv /\ PoolNext => (CallersDone /\ SentinelsOK)'
  <1> SUFFICES ASSUME PoolAssumption, StartedOnce, NoSpawning, SentinelInv, PoolNext PROVE (CallersDone /\ SentinelsOK)'
    OBVIOUS
  <1>A. /\ Shape /\ PlacesOK /\ CallersDone /\ SentinelsOK
        /\ jobs \in Seq(Items) /\ DOMAIN jobs = 1 .. Len(jobs) /\ Len(jobs) \in Nat
        /\ worker \in [Runners -> [at : Places, item : Items]]
        /\ owner \in [at : OwnerPlaces, i : 0 .. NumThreads]
        /\ owner.i \in Nat /\ starts \in 0 .. MaxStarts
        /\ batch \in [Batches -> BatchRecords]
        /\ NullJob \in Items /\ NullJob \notin Jobs /\ NullJob \notin Batches
        /\ Jobs \subseteq Items /\ Batches \subseteq Items
    BY LenProperties DEF SentinelInv, Shape, PoolAssumption, Items
  <1>B. /\ Cardinality(Queued(NullJob)) \in Nat /\ IsFiniteSet(Left) /\ Cardinality(Left) \in Nat
    BY <1>A, Finite, RunnersFinite, FS_Subset, FS_CardinalityType DEF Left, At
  <1>1. ASSUME Start PROVE (CallersDone /\ SentinelsOK)'
    <2>1. Left' = Left /\ Queued(NullJob)' = Queued(NullJob) /\ owner' = owner /\ owner.at = "using"
      <3>1. \A r \in Runners : worker'[r] = worker[r] \/ (worker[r].at = "none" /\ worker'[r].at = "idle")
        BY <1>1, <1>A DEF Start, PlacesOK, Shape, Runners, ThreadNumbers, PoolAssumption
      <3> QED BY <1>1, <3>1 DEF Start, Left, At, Queued
    <2>5. SentinelsOK'
      BY <2>1, <1>A DEF SentinelsOK, SentinelsCount, NobodyLeft
    <2>6. CallersDone'
      BY <1>1, <1>A DEF Start, CallersDone, NoCallInProgress, restVars
    <2> QED BY <2>5, <2>6
  <1>2. ASSUME FinishWork PROVE (CallersDone /\ SentinelsOK)'
    <2>1. /\ Left' = Left /\ Queued(NullJob)' = Queued(NullJob)
          /\ owner.at = "using" /\ owner'.at = "finishing" /\ owner'.i = 0
      BY <1>2 DEF FinishWork, Left, At, Queued
    <2>2. Cardinality({}) = 0
      BY FS_EmptySet
    <2>3. Left = {} /\ Queued(NullJob) = {}
      BY <2>1, <1>A DEF SentinelsOK, SentinelsCount, NobodyLeft
    <2>4. SentinelsCount'
      BY <2>1, <2>2, <2>3 DEF SentinelsCount
    <2>5. SentinelsOK'
      BY <2>1, <2>4 DEF SentinelsOK
    <2>6. CallersDone'
      BY <1>2, <1>A DEF FinishWork, CallersDone, NoCallInProgress, restVars
    <2> QED BY <2>5, <2>6
  <1>3. ASSUME Destroy PROVE (CallersDone /\ SentinelsOK)'
    <2>1. /\ Left' = Left /\ Queued(NullJob)' = Queued(NullJob) /\ starts' = starts
          /\ owner.at \in {"using", "finished"} /\ owner'.at = "draining" /\ owner'.i = 0
      BY <1>3, <1>A DEF Destroy, Left, At, Queued
    <2>5. SentinelsOK'
      BY <2>1, <1>A DEF SentinelsOK, SentinelsCount, NobodyLeft
    <2>6. CallersDone'
      BY <1>3, <1>A DEF Destroy, CallersDone, NoCallInProgress, restVars
    <2> QED BY <2>5, <2>6
  <1>4. ASSUME NEW j \in Jobs, PutJob(j) PROVE (CallersDone /\ SentinelsOK)'
    <2>2. Left' = Left
      BY <1>4 DEF PutJob, Left, At
    <2>3. Queued(NullJob)' = Queued(NullJob) /\ owner' = owner /\ starts' = starts
      <3>1. j \in Items \ {NullJob} /\ jobs' = Append(jobs, j)
        BY <1>4, <1>A DEF PutJob
      <3>2. Queued(NullJob)' = Queued(NullJob)
        BY <3>1, <1>A, NullsCounted
      <3> QED BY <1>4, <3>2 DEF PutJob, restVars
    <2>4. owner.at \in {"using", "finishing"}
      BY <1>4, <1>A DEF PutJob, CallersDone, NoCallInProgress, OwnerPlaces
    <2>5. SentinelsOK'
      BY <2>2, <2>3, <2>4, <1>A DEF SentinelsOK, SentinelsCount, NobodyLeft
    <2>6. CallersDone'
      BY <1>4, <1>A DEF PutJob, CallersDone, NoCallInProgress, restVars
    <2> QED BY <2>5, <2>6
  <1>5. ASSUME NEW b \in Batches, RunBatch(b) PROVE (CallersDone /\ SentinelsOK)'
    <2>2. Left' = Left
      BY <1>5 DEF RunBatch, Left, At
    <2>3. Queued(NullJob)' = Queued(NullJob) /\ jobs' = jobs /\ owner' = owner /\ starts' = starts
      BY <1>5 DEF RunBatch, restVars, Queued
    <2>5. SentinelsOK'
      BY <2>2, <2>3, <1>A DEF SentinelsOK, SentinelsCount, NobodyLeft
    <2>6. CallersDone'
      <3>1. owner' = owner /\ \A x \in Batches : batch'[x].caller = batch[x].caller \/ batch'[x].caller = "returned" \/ owner.at = "using"
        BY <1>5, <1>A DEF RunBatch, CallersDone, NoCallInProgress, restVars, BatchRecords
      <3> QED BY <3>1, <1>A DEF CallersDone, NoCallInProgress
    <2> QED BY <2>5, <2>6
  <1>6. ASSUME NEW b \in Batches, BatchPut(b) PROVE (CallersDone /\ SentinelsOK)'
    <2>2. Left' = Left
      BY <1>6 DEF BatchPut, Left, At
    <2>3. Queued(NullJob)' = Queued(NullJob) /\ owner' = owner /\ starts' = starts
      <3>1. b \in Items \ {NullJob} /\ jobs' = Append(jobs, b)
        BY <1>6, <1>A DEF BatchPut
      <3>2. Queued(NullJob)' = Queued(NullJob)
        BY <3>1, <1>A, NullsCounted
      <3> QED BY <1>6, <3>2 DEF BatchPut, restVars
    <2>4. owner.at \in {"using", "finishing"}
      BY <1>6, <1>A DEF BatchPut, CallersDone, NoCallInProgress, OwnerPlaces
    <2>5. SentinelsOK'
      BY <2>2, <2>3, <2>4, <1>A DEF SentinelsOK, SentinelsCount, NobodyLeft
    <2>6. CallersDone'
      <3>1. owner' = owner /\ \A x \in Batches : batch'[x].caller = batch[x].caller \/ batch'[x].caller = "returned" \/ owner.at = "using"
        BY <1>6, <1>A DEF BatchPut, CallersDone, NoCallInProgress, restVars, BatchRecords
      <3> QED BY <3>1, <1>A DEF CallersDone, NoCallInProgress
    <2> QED BY <2>5, <2>6
  <1>7. ASSUME NEW b \in Batches, BatchReturn(b) PROVE (CallersDone /\ SentinelsOK)'
    <2>2. Left' = Left
      BY <1>7 DEF BatchReturn, Left, At
    <2>3. Queued(NullJob)' = Queued(NullJob) /\ jobs' = jobs /\ owner' = owner /\ starts' = starts
      BY <1>7 DEF BatchReturn, restVars, Queued
    <2>5. SentinelsOK'
      BY <2>2, <2>3, <1>A DEF SentinelsOK, SentinelsCount, NobodyLeft
    <2>6. CallersDone'
      <3>1. owner' = owner /\ \A x \in Batches : batch'[x].caller = batch[x].caller \/ batch'[x].caller = "returned" \/ owner.at = "using"
        BY <1>7, <1>A DEF BatchReturn, CallersDone, NoCallInProgress, restVars, BatchRecords
      <3> QED BY <3>1, <1>A DEF CallersDone, NoCallInProgress
    <2> QED BY <2>5, <2>6
  <1>8. ASSUME NEW b \in Batches, BatchWaitDone(b) PROVE (CallersDone /\ SentinelsOK)'
    <2>2. Left' = Left
      BY <1>8 DEF BatchWaitDone, Left, At
    <2>3. Queued(NullJob)' = Queued(NullJob) /\ jobs' = jobs /\ owner' = owner /\ starts' = starts
      BY <1>8 DEF BatchWaitDone, restVars, Queued
    <2>5. SentinelsOK'
      BY <2>2, <2>3, <1>A DEF SentinelsOK, SentinelsCount, NobodyLeft
    <2>6. CallersDone'
      <3>1. owner' = owner /\ \A x \in Batches : batch'[x].caller = batch[x].caller \/ batch'[x].caller = "returned" \/ owner.at = "using"
        BY <1>8, <1>A DEF BatchWaitDone, CallersDone, NoCallInProgress, restVars, BatchRecords
      <3> QED BY <3>1, <1>A DEF CallersDone, NoCallInProgress
    <2> QED BY <2>5, <2>6
  <1>9. ASSUME NEW r \in Runners, ThreadRunGet(r) PROVE (CallersDone /\ SentinelsOK)'
    <2>0. jobs # << >> => Head(jobs) \in Items
      BY <1>A, HeadTailProperties DEF Shape
    <2>1. /\ \A q \in Runners \ {r} : worker'[q] = worker[q]
          /\ worker[r].at = "idle" /\ worker'[r].at \in {"leaving", "running", "batchPop"}
      BY <1>9, <1>A, <2>0 DEF ThreadRunGet, GoTo, Items, PoolAssumption
    <2>2. /\ jobs # << >> /\ jobs' = Tail(jobs) /\ owner' = owner /\ starts' = starts
          /\ worker'[r].at = "leaving" <=> Head(jobs) = NullJob
      BY <1>9, <1>A, <2>0 DEF ThreadRunGet, GoTo, restVars, Items, PoolAssumption
    <2>3. /\ Queued(NullJob) = DOMAIN jobs => Queued(NullJob)' = DOMAIN jobs' /\ Head(jobs) = NullJob
          /\ Cardinality(Queued(NullJob)') =
                Cardinality(Queued(NullJob)) - (IF Head(jobs) = NullJob THEN 1 ELSE 0)
      BY <2>2, <1>A, NullsCounted
    <2>4. Left # Runners
      BY <2>1 DEF Left, At
    <2>5. /\ Head(jobs) = NullJob => Cardinality(Left') = Cardinality(Left) + 1
          /\ Head(jobs) # NullJob => Left' = Left
      <3>1. Head(jobs) = NullJob => Cardinality(Left') = Cardinality(Left) + 1
        BY <2>1, <2>2, <1>A, AtMoved DEF Left
      <3>2. Head(jobs) # NullJob => Left' = Left
        BY <2>1, <2>2, <1>A, AtMoved DEF Left
      <3> QED BY <3>1, <3>2
    <2>6. Queued(NullJob) = {} => Queued(NullJob)' = {} /\ Head(jobs) # NullJob
      <3>1. 1 \in DOMAIN jobs /\ Head(jobs) = jobs[1]
        <4>1. Head(jobs) = jobs[1]
          BY <2>2, <1>A, QueueEnds
        <4> QED BY <4>1, <2>2, <1>A, EmptySeq
      <3>2. Queued(NullJob) = {} => Queued(NullJob)' = {}
        BY <2>2, <1>A, QueueEnds
      <3> QED BY <3>1, <3>2 DEF Queued, Indices
    <2>7. NobodyLeft => NobodyLeft'
      BY <2>5, <2>6 DEF NobodyLeft
    <2>8. SentinelsCount => SentinelsCount'
      BY <2>2, <2>3, <2>5, <1>A, <1>B DEF SentinelsCount
    <2>9. SentinelsOK'
      BY <2>2, <2>3, <2>4, <2>7, <2>8, <1>A DEF SentinelsOK
    <2>10. CallersDone'
      BY <1>9, <1>A DEF ThreadRunGet, CallersDone, NoCallInProgress, restVars
    <2> QED BY <2>9, <2>10
  <1>10. ASSUME NEW r \in Runners, NEW c \in Jobs, PutChild(r, c) PROVE (CallersDone /\ SentinelsOK)'
    <2>1. worker[r].item \in Jobs
      BY <1>10, <1>A DEF PutChild, PlacesOK
    <2> QED BY <1>10, <2>1 DEF PutChild, NoSpawning
  <1>11. ASSUME NEW r \in Runners, JobDone(r) PROVE (CallersDone /\ SentinelsOK)'
    <2>1. /\ \A q \in Runners \ {r} : worker'[q] = worker[q]
          /\ worker[r].at = "running" /\ worker'[r].at \in {"idle"}
      BY <1>11, <1>A DEF JobDone, GoTo
    <2>2. Left' = Left
      BY <2>1, <1>A, AtMoved DEF Left
    <2>3. Queued(NullJob)' = Queued(NullJob) /\ jobs' = jobs /\ owner' = owner /\ starts' = starts
      BY <1>11 DEF JobDone, restVars, Queued
    <2>5. SentinelsOK'
      BY <2>2, <2>3, <1>A DEF SentinelsOK, SentinelsCount, NobodyLeft
    <2>6. CallersDone'
      BY <1>11, <1>A DEF JobDone, CallersDone, NoCallInProgress, restVars
    <2> QED BY <2>5, <2>6
  <1>12. ASSUME NEW r \in Runners, BatchPop(r) PROVE (CallersDone /\ SentinelsOK)'
    <2>1. /\ \A q \in Runners \ {r} : worker'[q] = worker[q]
          /\ worker[r].at = "batchPop" /\ worker'[r].at \in {"batchRun"}
      BY <1>12, <1>A DEF BatchPop, GoTo
    <2>2. Left' = Left
      BY <2>1, <1>A, AtMoved DEF Left
    <2>3. Queued(NullJob)' = Queued(NullJob) /\ jobs' = jobs /\ owner' = owner /\ starts' = starts
      BY <1>12 DEF BatchPop, restVars, Queued
    <2>5. SentinelsOK'
      BY <2>2, <2>3, <1>A DEF SentinelsOK, SentinelsCount, NobodyLeft
    <2>6. CallersDone'
      <3>1. owner' = owner /\ \A x \in Batches : batch'[x].caller = batch[x].caller
        BY <1>12, <1>A DEF BatchPop, restVars, BatchRecords
      <3> QED BY <3>1, <1>A DEF CallersDone, NoCallInProgress
    <2> QED BY <2>5, <2>6
  <1>13. ASSUME NEW r \in Runners, BatchJobDone(r) PROVE (CallersDone /\ SentinelsOK)'
    <2>1. /\ \A q \in Runners \ {r} : worker'[q] = worker[q]
          /\ worker[r].at = "batchRun" /\ worker'[r].at \in {"batchLast", "idle"}
      BY <1>13, <1>A DEF BatchJobDone, GoTo
    <2>2. Left' = Left
      BY <2>1, <1>A, AtMoved DEF Left
    <2>3. Queued(NullJob)' = Queued(NullJob) /\ jobs' = jobs /\ owner' = owner /\ starts' = starts
      BY <1>13 DEF BatchJobDone, restVars, Queued
    <2>5. SentinelsOK'
      BY <2>2, <2>3, <1>A DEF SentinelsOK, SentinelsCount, NobodyLeft
    <2>6. CallersDone'
      <3>1. owner' = owner /\ \A x \in Batches : batch'[x].caller = batch[x].caller
        BY <1>13, <1>A DEF BatchJobDone, restVars, BatchRecords
      <3> QED BY <3>1, <1>A DEF CallersDone, NoCallInProgress
    <2> QED BY <2>5, <2>6
  <1>14. ASSUME NEW r \in Runners, BatchComplete(r) PROVE (CallersDone /\ SentinelsOK)'
    <2>1. /\ \A q \in Runners \ {r} : worker'[q] = worker[q]
          /\ worker[r].at = "batchLast" /\ worker'[r].at \in {"idle"}
      BY <1>14, <1>A DEF BatchComplete, GoTo
    <2>2. Left' = Left
      BY <2>1, <1>A, AtMoved DEF Left
    <2>3. Queued(NullJob)' = Queued(NullJob) /\ jobs' = jobs /\ owner' = owner /\ starts' = starts
      BY <1>14 DEF BatchComplete, restVars, Queued
    <2>5. SentinelsOK'
      BY <2>2, <2>3, <1>A DEF SentinelsOK, SentinelsCount, NobodyLeft
    <2>6. CallersDone'
      <3>1. owner' = owner /\ \A x \in Batches : batch'[x].caller = batch[x].caller
        BY <1>14, <1>A DEF BatchComplete, restVars, BatchRecords
      <3> QED BY <3>1, <1>A DEF CallersDone, NoCallInProgress
    <2> QED BY <2>5, <2>6
  <1>15. ASSUME NEW r \in Runners, Leave(r) PROVE (CallersDone /\ SentinelsOK)'
    <2>1. /\ \A q \in Runners \ {r} : worker'[q] = worker[q]
          /\ worker[r].at = "leaving" /\ worker'[r].at \in {"callback", "exited"}
      BY <1>15, <1>A DEF Leave, GoTo
    <2>2. Left' = Left
      BY <2>1, <1>A, AtMoved DEF Left
    <2>3. Queued(NullJob)' = Queued(NullJob) /\ jobs' = jobs /\ owner' = owner /\ starts' = starts
      BY <1>15 DEF Leave, restVars, Queued
    <2>5. SentinelsOK'
      BY <2>2, <2>3, <1>A DEF SentinelsOK, SentinelsCount, NobodyLeft
    <2>6. CallersDone'
      BY <1>15, <1>A DEF Leave, CallersDone, NoCallInProgress, restVars
    <2> QED BY <2>5, <2>6
  <1>16. ASSUME NEW r \in Runners, CompletionCallback(r) PROVE (CallersDone /\ SentinelsOK)'
    <2>1. /\ \A q \in Runners \ {r} : worker'[q] = worker[q]
          /\ worker[r].at = "callback" /\ worker'[r].at \in {"exited"}
      BY <1>16, <1>A DEF CompletionCallback, GoTo
    <2>2. Left' = Left
      BY <2>1, <1>A, AtMoved DEF Left
    <2>3. Queued(NullJob)' = Queued(NullJob) /\ jobs' = jobs /\ owner' = owner /\ starts' = starts
      BY <1>16 DEF CompletionCallback, restVars, Queued
    <2>5. SentinelsOK'
      BY <2>2, <2>3, <1>A DEF SentinelsOK, SentinelsCount, NobodyLeft
    <2>6. CallersDone'
      BY <1>16, <1>A DEF CompletionCallback, CallersDone, NoCallInProgress, restVars
    <2> QED BY <2>5, <2>6
  <1>17. ASSUME FinishPutNull PROVE (CallersDone /\ SentinelsOK)'
    <2>1. /\ Left' = Left /\ jobs' = Append(jobs, NullJob) /\ starts' = starts
          /\ owner.at = "finishing" /\ owner'.at = "finishing" /\ owner'.i = owner.i + 1
      BY <1>17, <1>A DEF FinishPutNull, Left, At
    <2>2. /\ Cardinality(Queued(NullJob)') = Cardinality(Queued(NullJob)) + 1
          /\ Queued(NullJob) = DOMAIN jobs => Queued(NullJob)' = DOMAIN jobs'
      BY <2>1, <1>A, NullsCounted
    <2>3. SentinelsCount => SentinelsCount'
      BY <2>1, <2>2, <1>A, <1>B DEF SentinelsCount
    <2>5. SentinelsOK'
      BY <2>1, <2>2, <2>3, <1>A DEF SentinelsOK
    <2>6. CallersDone'
      BY <1>17, <1>A DEF FinishPutNull, CallersDone, NoCallInProgress, restVars
    <2> QED BY <2>5, <2>6
  <1>18. ASSUME DestroyDrain PROVE (CallersDone /\ SentinelsOK)'
    <2>1. /\ Left' = Left /\ starts' = starts /\ owner.at = "draining"
          /\ owner'.at \in {"draining", "stopping"} /\ owner'.i = owner.i
      BY <1>18, <1>A DEF DestroyDrain, Left, At
    <2>2. ASSUME jobs = << >> PROVE SentinelsOK'
      <3>1. jobs' = jobs /\ owner'.at = "stopping"
        BY <1>18, <1>A, <2>2 DEF DestroyDrain
      <3>2. Queued(NullJob)' = {} /\ DOMAIN jobs' = {}
        BY <2>2, <3>1 DEF Queued, Indices
      <3>3. Cardinality({}) = 0
        BY FS_EmptySet
      <3>4. owner.i = 0 /\ Left = {} => SentinelsCount'
        BY <2>1, <3>2, <3>3 DEF SentinelsCount
      <3>5. starts > 0 => Left = Runners \/ (owner.i = 0 /\ Left = {})
        BY <2>1, <1>A DEF SentinelsOK, SentinelsCount, NobodyLeft
      <3> QED BY <2>1, <3>1, <3>2, <3>4, <3>5 DEF SentinelsOK
    <2>3. ASSUME jobs # << >> PROVE SentinelsOK'
      <3>1. jobs' = Tail(jobs) /\ (Head(jobs) # NullJob => owner'.at = "draining")
        BY <1>18, <1>A, <2>3 DEF DestroyDrain
      <3>2. Queued(NullJob) = {} => Queued(NullJob)' = {} /\ Head(jobs) # NullJob
        <4>1. 1 \in DOMAIN jobs /\ Head(jobs) = jobs[1]
          <5>1. Head(jobs) = jobs[1]
            BY <2>3, <3>1, <1>A, QueueEnds
          <5> QED BY <5>1, <2>3, <1>A, EmptySeq
        <4>2. Queued(NullJob) = {} => Queued(NullJob)' = {}
          BY <2>3, <3>1, <1>A, QueueEnds
        <4> QED BY <4>1, <4>2 DEF Queued, Indices
      <3>3. starts > 0 => Left = Runners \/ (NobodyLeft' /\ owner.i = 0 /\ owner'.at = "draining")
        BY <2>1, <3>1, <3>2, <1>A DEF SentinelsOK, SentinelsCount, NobodyLeft
      <3> QED BY <2>1, <3>3 DEF SentinelsOK
    <2>5. SentinelsOK'
      BY <2>2, <2>3
    <2>6. CallersDone'
      BY <1>18, <1>A DEF DestroyDrain, CallersDone, NoCallInProgress, restVars
    <2> QED BY <2>5, <2>6
  <1>19. ASSUME DestroyPutNull PROVE (CallersDone /\ SentinelsOK)'
    <2>1. /\ Left' = Left /\ jobs' = Append(jobs, NullJob) /\ starts' = starts
          /\ owner.at = "stopping" /\ owner'.at = "stopping" /\ owner'.i = owner.i + 1
      BY <1>19, <1>A DEF DestroyPutNull, Left, At
    <2>2. /\ Cardinality(Queued(NullJob)') = Cardinality(Queued(NullJob)) + 1
          /\ Queued(NullJob) = DOMAIN jobs => Queued(NullJob)' = DOMAIN jobs'
      BY <2>1, <1>A, NullsCounted
    <2>3. SentinelsCount => SentinelsCount'
      BY <2>1, <2>2, <1>A, <1>B DEF SentinelsCount
    <2>5. SentinelsOK'
      BY <2>1, <2>2, <2>3, <1>A DEF SentinelsOK
    <2>6. CallersDone'
      BY <1>19, <1>A DEF DestroyPutNull, CallersDone, NoCallInProgress, restVars
    <2> QED BY <2>5, <2>6
  <1>20. ASSUME DestroyMakeRoom PROVE (CallersDone /\ SentinelsOK)'
    <2>1. Left' = Left /\ starts' = starts /\ owner' = owner /\ owner.at = "stopping" /\ ~JobsHaveRoom
      BY <1>20 DEF DestroyMakeRoom, restVars, Left, At
    <2>2. starts > 0 => Left = Runners
      <3> SUFFICES ASSUME SentinelsCount, Queued(NullJob) = DOMAIN jobs PROVE FALSE
        BY <2>1, <1>A DEF SentinelsOK
      <3>1. Cardinality(Queued(NullJob)) = Len(jobs)
        <4>1. Len(jobs) \in Nat
          BY <1>A
        <4>2. Cardinality(1 .. Len(jobs)) = Len(jobs)
          BY <4>1, FS_Interval, SMTT(30)
        <4> QED BY <4>2, <1>A
      <3>2. Len(jobs) <= owner.i /\ owner.i <= NumThreads
        BY <3>1, <1>A, <1>B DEF SentinelsCount
      <3>3. Len(jobs) >= Backlog
        BY <2>1, <1>A DEF JobsHaveRoom, Queue!HasRoom, PoolAssumption
      <3> QED BY <3>2, <3>3, <1>A DEF PoolAssumption
    <2>5. SentinelsOK'
      BY <2>1, <2>2, <1>A DEF SentinelsOK
    <2>6. CallersDone'
      BY <1>20, <1>A DEF DestroyMakeRoom, CallersDone, NoCallInProgress, restVars
    <2> QED BY <2>5, <2>6
  <1>21. ASSUME JoinAll PROVE (CallersDone /\ SentinelsOK)'
    <2>1. /\ Left' = Left /\ starts' = starts /\ owner'.at \in {"finished", "destroyed"}
          /\ \A r \in Current : worker[r].at = "exited"
      BY <1>21, <1>A DEF JoinAll, Left, At
    <2>2. starts > 0 => Left = Runners
      BY <2>1, <1>A, OneGeneration DEF Left, At
    <2>5. SentinelsOK'
      BY <2>1, <2>2, <1>A DEF SentinelsOK
    <2>6. CallersDone'
      BY <1>21, <1>A DEF JoinAll, CallersDone, NoCallInProgress, restVars
    <2> QED BY <2>5, <2>6
  <1> QED BY <1>1, <1>2, <1>3, <1>4, <1>5, <1>6, <1>7, <1>8, <1>9, <1>10, <1>11, <1>12, <1>13,
      <1>14,
         <1>15, <1>16, <1>17, <1>18, <1>19, <1>20, <1>21 DEF PoolNext, CallerStep, WorkerStep, OwnerStep

-----------------------------------------------------------------------------
(* The new pool: nothing is queued, no thread runs.                        *)
LEMMA ShapeInit == PoolAssumption /\ PoolInit => Shape /\ PlacesOK
  <1> SUFFICES ASSUME PoolAssumption, PoolInit PROVE Shape /\ PlacesOK
    OBVIOUS
  <1>1. worker \in [Runners -> [at : Places, item : Items]] /\ jobs \in Seq(Items)
    BY DEF PoolInit, Places, Items
  <1>2. batch \in [Batches -> BatchRecords]
    BY DEF PoolInit, BatchRecords
  <1>3. owner \in [at : OwnerPlaces, i : 0 .. NumThreads]
    BY DEF PoolInit, OwnerPlaces, PoolAssumption
  <1>4. PlacesOK
    BY DEF PoolInit, PlacesOK, BatchPlaces, Runners, ThreadNumbers, PoolAssumption
  <1> QED BY <1>1, <1>2, <1>3, <1>4 DEF PoolInit, Shape, PoolAssumption

(* ... so nothing is counted.                                              *)
LEMMA EmptyInit ==
    PoolInit =>
        /\ \A x : Queued(x) = {} /\ \A p \in BatchPlaces : InPlace(p, x) = {}
        /\ Left = {} /\ Counted = {} /\ Calling = {}
  BY DEF PoolInit, Queued, Indices, InPlace, BatchPlaces, Left, Counted, Calling, At

(* A Batch that was deleted is used by no queued executor, no worker and   *)
(* no caller, for every pool, however often it is started: RunBatchJob     *)
(* takes front() of a list that is not empty, and the worker that brings   *)
(* num_to_finish_ to 0 is the last that touches the batch.                 *)
THEOREM BatchIsOver == PoolAssumption => (PoolSpec => []BatchNotUsedAfterDelete)
  <1> SUFFICES ASSUME PoolAssumption PROVE PoolSpec => []BatchNotUsedAfterDelete
    OBVIOUS
  <1>1. PoolInit => BatchInv
    <2> SUFFICES ASSUME PoolInit, NEW b \in Batches PROVE BatchOK(b)
      BY ShapeInit DEF BatchInv
    <2>1. /\ Queued(b) = {} /\ InPlace("batchPop", b) = {} /\ InPlace("batchRun", b) = {}
          /\ InPlace("batchLast", b) = {} /\ Cardinality({}) = 0
      BY EmptyInit, FS_EmptySet DEF BatchPlaces
    <2>2. /\ batch[b].left = 0 /\ batch[b].toPut = 0 /\ batch[b].toFinish = 0
          /\ batch[b].state = "none" /\ batch[b].signaled = FALSE
      BY DEF PoolInit
    <2> QED BY <2>1, <2>2 DEF BatchOK
  <1>2. BatchInv /\ [PoolNext]_poolVars => BatchInv'
    <2> SUFFICES ASSUME BatchInv, [PoolNext]_poolVars PROVE BatchInv'
      OBVIOUS
    <2>1. CASE PoolNext
      BY <2>1, ShapeStep, BatchStep DEF BatchInv
    <2>2. CASE UNCHANGED poolVars
      <3>1. Shape' /\ PlacesOK'
        BY <2>2 DEF poolVars, restVars, BatchInv, Shape, PlacesOK
      <3>2. batch' = batch /\ \A x : /\ Queued(x)' = Queued(x)
                                    /\ \A p : InPlace(p, x)' = InPlace(p, x)
        BY <2>2 DEF poolVars, restVars, Queued, InPlace
      <3>3. ASSUME NEW b \in Batches, BatchOK(b) PROVE BatchOK(b)'
        BY <3>2, <3>3 DEF BatchOK
      <3> QED BY <3>1, <3>3 DEF BatchInv
    <2> QED BY <2>1, <2>2
  <1>3. BatchInv => BatchNotUsedAfterDelete
    <2> SUFFICES ASSUME BatchInv, NEW b \in Batches, batch[b].state = "deleted"
                 PROVE  /\ \A k \in DOMAIN jobs : jobs[k] # b
                        /\ \A r \in Runners : worker[r].at \in BatchPlaces => worker[r].item # b
                        /\ batch[b].toPut = 0 /\ batch[b].left = 0 /\ batch[b].toFinish = 0
      BY DEF BatchNotUsedAfterDelete
    <2>1. /\ BatchOK(b) /\ batch[b] \in BatchRecords
      BY DEF BatchInv, Shape
    <2>2. /\ batch[b].toPut \in Nat /\ batch[b].left \in Int /\ batch[b].toFinish \in Int
      BY <2>1 DEF BatchRecords
    <2>3. /\ IsFiniteSet(Queued(b)) /\ Cardinality(Queued(b)) \in Nat
          /\ IsFiniteSet(InPlace("batchPop", b)) /\ Cardinality(InPlace("batchPop", b)) \in Nat
          /\ IsFiniteSet(InPlace("batchRun", b)) /\ Cardinality(InPlace("batchRun", b)) \in Nat
      BY Finite DEF BatchInv
    <2>4. batch[b].toFinish = 0 /\ InPlace("batchLast", b) = {}
      BY <2>1 DEF BatchOK
    <2>5. /\ batch[b].left >= batch[b].toPut + Cardinality(Queued(b))
                                + Cardinality(InPlace("batchPop", b))
          /\ batch[b].toFinish = batch[b].left + Cardinality(InPlace("batchRun", b))
      BY <2>1 DEF BatchOK
    <2>6. /\ batch[b].toPut = 0 /\ batch[b].left = 0
          /\ Cardinality(Queued(b)) = 0 /\ Cardinality(InPlace("batchPop", b)) = 0
          /\ Cardinality(InPlace("batchRun", b)) = 0
      BY <2>2, <2>3, <2>4, <2>5
    <2>7. Queued(b) = {} /\ InPlace("batchPop", b) = {} /\ InPlace("batchRun", b) = {}
      BY <2>3, <2>6, FS_EmptySet
    <2> QED BY <2>4, <2>6, <2>7 DEF Queued, Indices, InPlace, BatchPlaces
  <1> QED BY <1>1, <1>2, <1>3, PTL DEF PoolSpec

(* The completion callback runs once, when the last of the threads has     *)
(* counted itself in num_completed_, and before FinishWork or the          *)
(* destructor returns (ThreadPoolBase::Run, WaitForFinishLocked).          *)
THEOREM CallbackOnce == PoolAssumption /\ StartedOnce => (PoolSpec => []CompletionOnce)
  <1> SUFFICES ASSUME PoolAssumption, StartedOnce PROVE PoolSpec => []CompletionOnce
    OBVIOUS
  <1>1. PoolInit => CompletionInv
    <2> SUFFICES ASSUME PoolInit PROVE CountsOK /\ JoinedOK
      BY ShapeInit DEF CompletionInv
    <2>1. Counted = {} /\ Calling = {} /\ Cardinality({}) = 0
      BY EmptyInit, FS_EmptySet
    <2>2. numCompleted = 0 /\ callbackRuns = 0 /\ owner.at = "using"
      BY DEF PoolInit
    <2> QED BY <2>1, <2>2 DEF CountsOK, JoinedOK, PoolAssumption
  <1>2. CompletionInv /\ [PoolNext]_poolVars => CompletionInv'
    <2> SUFFICES ASSUME CompletionInv, [PoolNext]_poolVars PROVE CompletionInv'
      OBVIOUS
    <2>1. CASE PoolNext
      BY <2>1, ShapeStep, CompletionStep DEF CompletionInv
    <2>2. CASE UNCHANGED poolVars
      BY <2>2 DEF poolVars, restVars, CompletionInv, Shape, PlacesOK, CountsOK, JoinedOK, Counted,
                  Calling, At, Current
    <2> QED BY <2>1, <2>2
  <1>3. CompletionInv => CompletionOnce
    <2> SUFFICES ASSUME CompletionInv PROVE CompletionOnce
      OBVIOUS
    <2>1. Shape /\ CountsOK /\ JoinedOK /\ numCompleted \in Nat /\ callbackRuns \in Nat
      BY DEF CompletionInv, Shape
    <2>2. IsFiniteSet(Calling) /\ Cardinality(Calling) \in Nat
      BY RunnersFinite, FS_Subset, FS_CardinalityType DEF Calling, At
    <2>3. callbackRuns <= 1 /\ (callbackRuns = 1 => numCompleted = NumThreads)
      BY <2>1, <2>2 DEF CountsOK, PoolAssumption
    <2>4. ASSUME owner.at \in {"finished", "destroyed"}, starts > 0 PROVE callbackRuns = 1
      <3>1. \A r \in Runners : worker[r].at = "exited"
        BY <2>1, <2>4, OneGeneration DEF JoinedOK
      <3>2. Counted = Runners /\ Calling = {}
        BY <3>1 DEF Counted, Calling, At
      <3>3. Cardinality(Counted) = NumThreads /\ Cardinality(Calling) = 0
        BY <2>1, <2>4, <3>2, OneGeneration, FS_EmptySet
      <3> QED BY <2>1, <3>3 DEF CountsOK
    <2> QED BY <2>3, <2>4 DEF CompletionOnce
  <1> QED BY <1>1, <1>2, <1>3, PTL DEF PoolSpec

(* When FinishWork returns, every job that jobs_ had accepted before the   *)
(* call has run: the sentinels go behind the jobs, and no thread leaves    *)
(* while such a job waits.                                                 *)
THEOREM AcceptedJobsRun == PoolAssumption /\ StartedOnce => (PoolSpec => []FinishRunsAll)
  <1> SUFFICES ASSUME PoolAssumption, StartedOnce PROVE PoolSpec => []FinishRunsAll
    OBVIOUS
  <1>1. PoolInit => FinishInv
    <2> SUFFICES ASSUME PoolInit PROVE AcceptedOK /\ PromisedOK /\ FinishRunsAll
      BY ShapeInit DEF FinishInv, FinishOK, PoolInit
    <2>1. Queued(NullJob) = {} /\ Left = {}
      BY EmptyInit
    <2> QED BY <2>1 DEF PoolInit, AcceptedOK, NobodyLeft, PromisedOK, FinishRunsAll
  <1>2. FinishInv /\ [PoolNext]_poolVars => FinishInv'
    <2> SUFFICES ASSUME FinishInv, [PoolNext]_poolVars PROVE FinishInv'
      OBVIOUS
    <2>1. CASE PoolNext
      BY <2>1, ShapeStep, FinishStep DEF FinishInv
    <2>2. CASE UNCHANGED poolVars
      BY <2>2 DEF poolVars, restVars, FinishInv, FinishOK, Shape, PlacesOK, AcceptedOK,
         PromisedOK, NobodyLeft,
                  FinishRunsAll, Queued, Indices, Running, Left, At
    <2> QED BY <2>1, <2>2
  <1>3. FinishInv => FinishRunsAll
    BY DEF FinishInv, FinishOK
  <1> QED BY <1>1, <1>2, <1>3, PTL DEF PoolSpec

(* While FinishWork or the destructor waits in its joins there is a NULL   *)
(* in jobs_ for every thread that has not taken one, so none of them waits *)
(* in Get for ever.                                                        *)
THEOREM NoSentinelLost ==
    PoolAssumption /\ StartedOnce /\ NoSpawning => (PoolSpec => []SentinelForEachThread)
  <1> SUFFICES ASSUME PoolAssumption, StartedOnce, NoSpawning PROVE PoolSpec => []SentinelForEachThread
    OBVIOUS
  <1>1. PoolInit => SentinelInv
    <2> SUFFICES ASSUME PoolInit PROVE CallersDone /\ SentinelsOK
      BY ShapeInit DEF SentinelInv
    <2>1. Queued(NullJob) = {} /\ Left = {}
      BY EmptyInit
    <2> QED BY <2>1 DEF PoolInit, CallersDone, SentinelsOK, NobodyLeft
  <1>2. SentinelInv /\ [PoolNext]_poolVars => SentinelInv'
    <2> SUFFICES ASSUME SentinelInv, [PoolNext]_poolVars PROVE SentinelInv'
      OBVIOUS
    <2>1. CASE PoolNext
      BY <2>1, ShapeStep, SentinelStep DEF SentinelInv
    <2>2. CASE UNCHANGED poolVars
      BY <2>2 DEF poolVars, restVars, SentinelInv, Shape, PlacesOK, CallersDone, NoCallInProgress,
                  SentinelsOK, SentinelsCount, NobodyLeft, Queued, Indices, Left, At
    <2> QED BY <2>1, <2>2
  <1>3. SentinelInv => SentinelForEachThread
    <2> SUFFICES ASSUME SentinelInv, owner.at \in {"finishing", "stopping"}, owner.i = NumThreads,
                        starts > 0
                 PROVE  Sentinels >= Cardinality(Alive)
      BY DEF SentinelForEachThread
    <2>1. Shape /\ SentinelsOK /\ Sentinels = Cardinality(Queued(NullJob))
      BY DEF SentinelInv, Sentinels, Queued, Indices
    <2>2. /\ Current = Runners /\ IsFiniteSet(Runners) /\ Cardinality(Runners) = NumThreads
          /\ Cardinality(Queued(NullJob)) \in Nat
      BY <2>1, OneGeneration, RunnersFinite, Finite
    <2>3. Alive = Runners \ Left /\ Left \subseteq Runners /\ Left \cap Alive = {}
      BY <2>2 DEF Alive, Left, At
    <2>4. /\ IsFiniteSet(Left) /\ Cardinality(Left) \in Nat
          /\ IsFiniteSet(Alive) /\ Cardinality(Alive) \in Nat
      BY <2>2, <2>3, FS_Subset, FS_CardinalityType
    <2>5. Cardinality(Left) + Cardinality(Alive) = NumThreads
      <3>1. Left \cup Alive = Runners
        BY <2>3
      <3>2. Cardinality(Left \cup Alive) = Cardinality(Left) + Cardinality(Alive) - Cardinality({})
        BY <2>3, <2>4, FS_Union
      <3>3. Cardinality({}) = 0
        BY FS_EmptySet
      <3>4. Cardinality(Runners) = Cardinality(Left \cup Alive)
        BY <3>1
      <3> QED BY <3>2, <3>3, <3>4, <2>2, <2>4
    <2>6. CASE Left = Runners
      <3>1. Cardinality(Alive) = 0
        BY <2>3, <2>6, FS_EmptySet
      <3> QED BY <3>1, <2>1, <2>2
    <2>7. CASE SentinelsCount
      BY <2>1, <2>2, <2>4, <2>5, <2>7 DEF SentinelsCount, PoolAssumption
    <2> QED BY <2>1, <2>6, <2>7 DEF SentinelsOK
  <1> QED BY <1>1, <1>2, <1>3, PTL DEF PoolSpec

=============================================================================
