# A TLA+ model of whisperlib

whisperlib is a C++ library of base utilities, threads and queues, buffers and
files, an event loop with TCP/SSL connections, HTTP, RPC over HTTP, and a Raft
server built on top of all of that. This directory holds TLA+ modules for the
parts of it whose correctness depends on order: several threads, several
servers, failures. It contains their TLC configurations, and proofs that TLAPS
checks.

Line references such as `raft_server.cc:934` are to files under
`src/whisperlib/`.

## Running it

    tlc -workers 2 -config QueueCore.cfg MCQueueAndPool
    tlapm ProducerConsumerQueueProofs.tla

Each `.cfg` is one run. `PROJECT.json` says which module it belongs to, whether
the property is expected to hold, and which source lines each definition
stands for.

## 1. Inventory

### Synchronisation (`sync/`)

| Part | State | Operations | Interacts with |
|---|---|---|---|
| `ProducerConsumerQueue` | `data_`, `mutex_`, `cond_full_`, `cond_empty_` | `Put`, `PutAt`, `Get` (each also with a timeout), `GetAll`, `Clear` | every pool, AIO, resolver |
| `ThreadPool` | `jobs_`, `threads_`, `started_`, `num_completed_`, the `Batch` objects | `Start`, `jobs()->Put`, `RunBatch`, worker loop, `FinishWork`, destructor | its queue, `Event` |
| `LockFreeProducerConsumerQueue` | `head_`, `tail_`, `last_head_`, `last_tail_`, `clients_[]`, `data_[]` | `Put`, `Get` | `LockFreeThreadPool` |
| `Event` | `is_signaled_`, `manual_reset_`, `cond_` | `Signal`, `Reset`, `Wait`, timed `Wait` | batches, selectors |
| other pools | as above, one queue per thread or a lock-free one | same | |
| mutexes, threads, processes | pthread objects | lock, create, join, fork | the operating system |

What is hard: a woken thread holds no lock until it reacquires the mutex, so
anything may happen before it looks at the state again; the queues signal one
waiter per operation and never broadcast; the pool ends its workers with
sentinels that travel through the same bounded queue as the jobs; the lock-free
queue relies on every scan being conservative. What makes them correct: no
overflow, FIFO, no lost wakeup, every accepted job runs, every call that should
return does, a batch is not touched after it was deleted.

### Raft (`raft/`)

`Server` keeps a role, `current_term_`, `voted_for_`, `last_log_pos_` and
`last_log_term_`, `commit_pos_`, the log (through `LogWriter`), per-node
replication state (`next_log_pos_`, `last_log_pos_`, `match_log_pos_`,
`in_transfer_`, `votes_for_me_`), `candidate_votes_out_` and the waiting `Save`
calls. Its operations are the RPC handlers `Vote`, `Append` and `Save`, the two
response handlers, and `PeriodicCheck`. Servers interact only through RPCs,
which `FailSafeClient` retries and times out. A state file and the log survive a
crash. What is hard is everything at once: answers that arrive after the role
changed, repeated requests, crashes between the write of the log and of the
state file, positions at the boundary of an empty log. What makes it correct:
one vote and one leader per term, terms and commit positions that do not go
back, committed records that stay, progress.

`raft::Client` follows the leader names that `Save` answers.

### Storage and buffers (`io/`)

| Part | State | Operations | Interacts with |
|---|---|---|---|
| `LogWriter`, `RecordWriter` | the open file, `buf_`, the block being filled, its CRC chain | `Initialize`, `WriteRecord`, `Flush`, `Tell`, `TruncateAt`, `Close`, `CleanLog` | `File`, raft |
| `LogReader`, `RecordReader` | file, block and record number, the pieces of the record being read, `skip_record_`, `num_errors_` | `GetNextRecord`, `Tell`, `TellAtBlock`, `Seek`, `Rewind` | the files of the writer, from another thread or process |
| `MemoryStream`, `DataBlock` | chains of shared blocks | reads, writes, markers | everything |
| file and AIO wrappers, codecs | descriptors, I/O threads | system calls, byte conversions | |

What is hard: records that go over the end of a block and of a file, a writer
that dies or fails between two blocks of one record, a reader that is ahead of
the writer in the middle of a record, positions at the boundaries, truncation.
What makes it correct: a reader that reports no error has returned every
record once and in order, never a mixture of two, and a position leads to the
record it was taken for.

### Network and HTTP (`net/`, `http/`, `rpc/`)

| Part | State | Operations | Interacts with |
|---|---|---|---|
| `Selector`, `Alarm`, `Timeouter` | `to_run_`, `event_fd_`, `alarms_`, `reverse_alarms_`, `registered_`, `now_` | `RunInSelectLoop`, `RegisterAlarm`, `UnregisterAlarm`, `Loop`, `MakeLoopExit`, `CleanAndCloseAll` | all that follow; other threads |
| `DnsResolver` | `query_map_`, `waiting_queries_`, `cache_`, one thread per host asked for | `Resolve`, `Cancel`, `Run`, `Return` | selector, connections |
| `TcpConnection` (and acceptors, SSL, UDP) | state, `read_closed_`, `write_closed_`, buffers, linger timeout | `Connect`, `Wrap`, the three event handlers, `FlushAndClose`, `ForceClose` | selector, resolver, the kernel |
| `ClientProtocol` | `waiting_requests_`, `active_requests_`, `callback_map_`, `reading_request_` | `SendRequest`, `NotifyConnected`, `ProcessMoreData`, `HandleTimeout`, `ResolveAllRequestsWithError` | connection, timeouter |
| `FailSafeClient` | `clients_`, `death_time_`, `pending_requests_`, `pending_map_` | `StartRequest`, `CancelRequest`, `RequeuePending`, `CompletionCallback`, `Reset`, `ForceCloseAll` | one `ClientProtocol` per server; raft |
| HTTP server, RPC client and server | requests, streams, services, controllers | handlers, flow control, cancellation | connections |

What is hard: callbacks close or delete the object that calls them; closures
arrive from other threads while the loop decides whether to sleep; timeouts race
answers; requests are retried after they were executed; shutdown happens with
requests pending. What makes it correct: nothing queued is forgotten when the
loop sleeps or ends, no event reaches a deleted object, the close handler runs
once, output is flushed before an orderly close, each request is called back
exactly once with its own answer.

### Base and URLs (`base/`, `url/`)

Callbacks (generated templates), strings, dates, logging, LRU cache, free list,
reference counts; the vendored google-url parser. These are sequential or locked
data structures.

`PROJECT.json` lists all of these under `components`, the ones that are not
modelled with the reason, and under `hazards` the places in the code that are
hard to test.

## 2. Plan

The order follows what most of the rest depends on and what is hardest to test.

1. *Done.* `ProducerConsumerQueue` with its contract `BoundedQueue`; its proofs.
2. *Done.* `ThreadPool` over the contract; `LockFreeQueue`; `Event` with proofs.
3. *Done.* `RaftServer`: elections, replication, commit, crash and retry.
4. *Done.* `RecordLog`: writer, reader, block and file boundaries, faults.
5. *Done.* `Selector` with alarms, `DnsResolver`, `TcpConnection`,
   `HttpClientProtocol`, `FailSafeClient`.
6. *Next.* The HTTP server protocol with flow control, the RPC client and server
   with cancellation, `raft::Client`; write failures in `RaftServer`;
   `LockFreeThreadPool` and the other pools; the acceptor and the SSL connection.
7. *Done.* Proofs about the queue, the event, the pool, the lock-free queue,
   the selector, the resolver, the connection, the HTTP client and the Raft
   server. Still worth having: `RequestInOnePlace` of the failsafe client.

## 3. Modules

### BoundedQueue and ProducerConsumerQueue

`BoundedQueue` is the contract: a sequence that grows at an end while there is
room, gives up its front element, or is emptied at once.

`ProducerConsumerQueue` is the code. `data` is `data_`. A stretch of code with
`mutex_` held is one step; it starts where the thread gets the mutex (the call,
or the return from `pthread_cond_wait`) and ends where it releases it. A thread
blocked on a condition variable is in `condFull` or `condEmpty`; a signal, a
timeout or a spurious wakeup moves it to `wokenFull` or `wokenEmpty`, where it
competes for the mutex with everybody. `PutAt`, `TimedPutAt`, `Get`, `TimedGet`
are the first stretches, `PutResume` and `GetResume` the ones after a wait. Two
details of the code are kept: a timed `Get` signals `cond_empty_` even when it
took nothing, and a timed `PutAt` with an infinite timeout calls `Put` and
ignores `at_back`. `accepted` and `delivered` are history.

### ThreadPool

The queue is used through the `BoundedQueue` contract that
`ProducerConsumerQueue` is proved to implement (`JobsHaveRoom`). A runner
`<<t, g>>` is the pthread that the g-th `Start()` made for `threads_[t]`; a
second `Start()` overwrites the handle, so only the last generation is joined.
`worker[r].at` is the place in `ThreadRun`, `RunBatchJob` and `Run`; `owner` is
the place in `FinishWork` or the destructor; `batch` holds the `Batch` objects
with their callers. The destructor's drain (`Get(0)` until it returns NULL,
which a queued sentinel also does) and its making room in a full queue are
separate steps because each takes and releases the queue's mutex.

### LockFreeQueue

One step is one access to shared memory: reading `head_`, announcing it,
the fetch-and-add, the second announcement, the test against the cached scan
result, the read of the other counter, each element of the scan, the store of the
result, the slot, and the withdrawal of the announcement. Pointers are named by
the position of their `Put`, so "the right pointer" is the position itself.
x86 keeps stores in order and the fetch-and-add is a full barrier; a store that
becomes visible late is the same as the store happening late, because every
`clients_` field has one writer. That the compiler keeps the order of the last
two stores of `Put` and of `Get` is assumed: nothing in the code forces it.

### Event

`Signal`, `Reset`, and the loop of `Wait` as `Wait` and `Resume`, in the same
style as the queue. The reset mode and the initial signal are the constructor's
arguments, so `Init` leaves them open; an initial signal counts in `signals`.
A waiter woken by `Signal` that finds the flag down again because `Reset` ran
first goes back to sleep, as in the code. `expired` marks a timed waiter whose deadline has passed;
it may pass while the waiter is already on its way back.

### RaftServer

Every handler runs under `mutex_` and is one step: `Heartbeat` and
`ElectionTimeout` are the two branches of `PeriodicCheck`, `Execute` is `Vote`
or `Append` at the receiver, `Reply` and `Fail` the response handlers at the
caller, `Save` the client call at a leader (elsewhere it changes nothing). The
operators between carry the names of the functions they translate. An RPC is a
record in `calls`; it may fail at the caller and still be executed later
(`live` is FALSE then), be executed a second time (the retry of the RPC
client), or be answered late, in another role or term. RPCs are not ordered. A
request takes as many records as fill `max_entries_size_` (`MaxEntries`, records
being of one size), at least one.

A log position is the number of the record: every record is flushed into
blocks of its own, so the writer's position is the number of records, and the
reader stands at the next record after reading one. This holds inside one log
file; the boundary belongs to `logio`. The null `LogPos` is -1 and smaller than
all others, as in its `operator<`.

`srv[i]` holds the persistent members (`term`, `votedFor`, `lastPos`,
`lastTerm`, `commit`, `log`) and the volatile ones. At the end of each handler
the state file agrees with the members, so `Crash` keeps exactly the persistent
ones and `Restart` is the constructor with `Initialize`. `CrashInSave` and
`CrashInAppend` are crashes inside a handler: after the log was flushed and
before the state file was written, and, for `Append`, after any number of
entries or between the state file of a truncation and the truncation itself. A failed `CHECK` is `Abort`: the process ends, and may be restarted.
`candidate_votes_out_` has no initializer in the constructor, so its first value
is any member of `UninitVotes`. `acked` is history.

### RecordLog

The disk is a function from file numbers to sequences of blocks; a block is the
sequence of its pieces with its CRC and the CRC of the block before it. Sizes
are counted in units, a record header being one, so that a record can fit into
the rest of a block, fill it, or go over one or two block ends. The CRC of a
block is its serial number (a CRC that tells blocks apart), 0 where the code
writes "not known". The writer's loops are steps: `AppendPart` puts a piece and
finishes the block, `WriteChunk` writes as many blocks as the file takes and
opens the next file; between them the process may die (`Crash`) or a write may
fail (`WriteFails`, `WriteRefused`). The reader runs in another thread, so its
steps (`ReadBlock`, `ReadPiece`, `SkipPiece`, `SeekPiece`) interleave with those of
the writer. A file that ends in a part of a block is in `torn`. `stray` marks
the histories in which a failed write left blocks in the writer's buffer that
were written already or belong in front of a truncation; what a reader finds
there is noted under `hazards` and the properties exclude it.

A reader has a file open, not a number. `TruncateAt` at block 0 removes the file
and makes a new one of that number; a reader that has the old one open goes on in
it, also through `Seek`, until it leaves that number (`OpenFile`,
`logio.cc:534-536`). Such a reader is `unlinked` and reads the blocks in `kept`.
`astray` marks a reader that was in this state since it was last moved: it returns
records that have been cut off, and may join the pieces of two records, so the
properties of the reader exclude it too (section 4).

### Selector

One thread runs `Loop`; each place where another thread can come in between is a
`pc`: before the sleep, in `epoll_wait`, between two events, before the closures
are taken, between two closures and between two alarms. `SendWakeSignal` is a
step of its own, after the push. A callback may do anything a user may do
there: add a closure, start, stop or reset an alarm, close and delete a
selectable, end the loop (`Callback`). Time is relative to `now_`: `lag` is what
has passed since the loop read the clock. The alarms are the pair of maps of
the code, kept by `RegisterAlarm` and `UnregisterAlarm`.

### DnsResolver

A client stands for its handler and its `Query`. The thread's first look at
`result_handler_` is outside `mutex_`, so it is a step before the two locked
ones (`RunAbandons`, `RunAnswers`). `usedFreed` observes a read of a freed
query. Cached results may be evicted or expire at any time.

### TcpConnection

The object is a record, `tcp`, and every method a function from records to records,
so that `InternalClose` can be called from any handler and a handler from
`InternalClose`, as in the code. `socket` is the kernel's socket and the peer. `Poll`
takes a snapshot of the events; the error, read and write handlers then run
on that snapshot although the socket has moved on. `NoDescriptors` and
`Careless` switch on two environments in which the code ends in a failed
`CHECK` or a wrong state (section 4). A read handler may write, flush or close and
return true or false as it likes: that of the HTTP client closes and returns true
(`http_client_protocol.cc:227-232`), upon which `HandleReadEvent` runs the close
handler with `CLOSE_READ` although it has run with `CLOSE_READ_WRITE` (`HalfClosed`,
counted in `late`). No write handler of the repository does that; it would end in
a failed `CHECK`, and is left to `Careless`.

### HttpClientProtocol

Requests wait, become active when they are written, and are resolved by an
answer, by their timeout or by the end of the connection. An answer is a head
and a body that may arrive in different reads. With one request at a time the
reading request is the active one; with more it is a fresh request that
`IdentifyReadingRequest` replaces by the one the header names, or by an orphan
when that one is gone.

### FailSafeClient

Again a record and functions from records to records: a request that fails
inside `SendRequest` is completed, and retried, before `SendRequest` returns.
`RequestDone` and `ClientDies` are what `HttpClientProtocol` does to it: every
request given to a client is called back. Times are the comparisons the code
makes: a request is past its timeout or not, a dead server is past the reopen
interval or not. `ForceCloseAll` and the destructor may find a client that is not
connected yet, whose requests are called back as incomplete and take the retry
branch (`Unconnected`).

### MC modules

`MCQueueAndPool`, `MCThreads`, `MCRaftFaults` and `MCNet` put several components
side by side; the variable `part` says to which of them a behaviour belongs, and
the others stand still. Components with proofs are extended, so that a run checks
the very definitions the theorems are about (their state machines have names of
their own for that: `PoolSpec`, `RingSpec`, `DnsSpec`, `TcpSpec`, `HttpSpec`);
the others, and the second queue of `MCQueueAndPool`, are instances. A run of such a module checks each part on
its own: nothing is shared between them, and their fairness is that of the parts.
`MCThreadPool` and `MCRaftServer` define the structured constants and the symmetry
of single instances.

## 4. Runs

Six runs pass:

| Run | Bounds | What it shows |
|---|---|---|
| queue_and_pool | 3 threads, 2 slots: 4 values at the back, or 3 at both ends with `GetAll` and `Clear`; a pool of 2 workers, backlog 3, a job that puts a job, two batches, one with a NULL | the queue implements `BoundedQueue`, loses no wakeup on either side and keeps the order; the pool has a sentinel for each thread not gone yet, one completion callback, runs all promised jobs and uses no batch after its deletion; getters of both queues are served, `RunBatch` and the destructor return |
| threads | events: 3 threads, 3 signals, both reset modes and initial values; ring of 2 with 2 producers, 2 consumers, 3 operations a side | one release per signal, no lost wakeup, a signal beside a sleeper is taken; each `Get` reads the pointer of its `Put`, no unread slot is overwritten, a `Get` whose `Put` was made returns |
| raft_faults | 2 servers, 2 terms, 1 record, one failure, one retry, one crash; and 2 servers, 1 term, 2 records, one a request, without failures | `in_transfer_` exact, commit positions never go back; without failures what a leader wrote is committed |
| raft_one_term | 3 servers, 1 term, 2 records, also in one request, one crash, also inside `Save` or `Append` | agreement on committed records, one leader, commits on a majority of the disks |
| log | 2 records of 1, 4 or 7 units, blocks of 4, 3 blocks a file, 2 faults | no record lost without an error, none put together from two, `Seek` to a `Tell` of the writer finds the record, `TruncateAt` keeps what is before it |
| net | selector: 1 other thread, 1 job, 1 repeating alarm, 2 selectables; resolver: 3 clients, 1 host; connection: 2 units each way; HTTP: 3 requests, 2 concurrent, 1 waiting; failsafe: 2 requests, 2 servers, 2 retries, 2 requests a server with keep alive and 1 without, 1 reset | no closure sleeps, no event to a deleted object, closures run at the exit, alarms fire; no freed query is used; the close handler runs once with `CLOSE_READ_WRITE`, no output is lost, a flush ends; each request is called back once, with its own answer, and is resolved |

In six runs TLC finds that the code disagrees with what its own comments or
tests say; each has a finding in `PROJECT.json`:

| Run | What happens |
|---|---|
| queue_getall_strands | `GetAll` and `Clear` free every slot and signal one putter; the others sleep beside free space |
| pool_destroy_busy | the destructor makes room in a full queue by throwing away one of its own sentinels: a worker never ends, the join never returns |
| raft_acked_lost | `Vote` adopts a term without stepping down: two leaders in one term, and a record whose `Save` was answered as committed is replaced, with no failure at all |
| dns_cancel_strands | the query that made the thread is cancelled; the thread leaves, and the clients that joined that query are never answered |
| log_resume_loses | a reader is replaced, at its own `Tell`, in the middle of a record: the record is skipped without an error |
| http_wrong_answer | the late answer of a request that timed out is given to the next request on the connection |

Other places where the same properties stop to hold when an instance is
widened; they bound what the passing runs say:

- `BatchReturns` with a batch that has no valid job: nobody signals its event
  (`thread_pool.cc:357`), although NULL jobs are "safely ignored".
- `FinishWork` does not return with `MaxStarts = 2`: the second `Start` doubles
  the consumers of the sentinels.
- `OneLeaderPerTerm` with four servers: the vote count assigns where it means to
  compare (`raft_server.cc:558`), so one vote elects; with three servers one other
  vote is a majority anyway. Also with two terms, for the reason in
  raft_acked_lost.
- `SavedIsCommitted` with `MaxFailures = 1`: after a lost answer the heartbeats
  succeed and the record is not committed until the next `Save`
  (`raft_server.cc:679`).
- `CommitsOnMajority` with a retry and a crash in `Append`: the repeated
  request cuts off a record the leader has counted, and the crash comes before
  it is written again (`raft_server.cc:942`).
- `CommittedAgree` and `CommitsOnMajority` with a failed RPC: an empty log takes a
  request for position 0 as one for its own beginning (`raft_server.cc:902`).
- `NoSilentLoss` with `MoveMidRecord = TRUE`, which is log_resume_loses, and
  `AnswerBelongs` with `MaxConcurrent = 1`, which is http_wrong_answer.
- `NoSilentLoss` and `SeekFindsRecord` for a reader that is `astray`, and with three
  records and one block a file `ReturnedWhole` too: a truncation has removed the
  file it has open (`logio.cc:534`). The readers that Raft keeps for the other
  nodes are used on like that (`raft_server.cc:178`).
- `ClosedOnce` with `NoDescriptors = TRUE` (`connection.cc:1130`).

Hazards that the list in `PROJECT.json` leaves out, because no property here is
about them:

- a second `Start` of a pool (`thread_pool.cc:70`); `FinishWork` of
  `LockFreeThreadPool` on a ring smaller than its threads (`thread_pool.cc:136`);
- `Reset` of an event before the woken waiters have the mutex (`event.cc:129`);
- `candidate_votes_out_` has no first value (`raft_server.h:322`); the empty log
  is taken for position (0,0,0) (`raft_server.cc:902`);
- `Alarm::Stop` only enqueues, so an alarm that is due fires once more
  (`alarm.cc:106`, against `alarm.h:82`); with high precision alarms the sleep
  may become -1, which is for ever (`selector.cc:143`);
- a second `Cancel` of one handler finds a freed query (`dns_resolver.cc:158`);
- `TruncateAt` ignores a failed write (`logio.cc:195`), a failed `Seek` is not
  rewound (`logio.h:302`), the room in a block is an unsigned difference
  (`recordio.cc:150`);
- a write handler that closes its connection and returns true (`connection.cc:842`),
  `FlushAndClose` while resolving (`connection.cc:529`), no descriptor after the
  resolution (`connection.cc:1130`);
- a timeout in the middle of an answer leaves `reading_request_` behind
  (`http_client_protocol.cc:803`), `request_id_` without a value in one constructor
  (`http_client_protocol.cc:139`), the structure of a cancelled request that waits
  leaks (`failsafe_http_client.cc:168`).

### Why the bounds are enough

*Queue.* Three threads are a sleeper, a woken thread and one that barges in, or
two sleepers and a taker; a queue of two slots can be empty, partly filled and
full. Values are put once each, so they bound the number of puts. The theorems
of section 5 say the same of any number of threads and slots.

*Pool.* Two workers are the least for "the last one out"; the constructor wants
a backlog greater than the number of threads, so 3 is its smallest, and it can
be filled by two sentinels and a job. The job that puts a job lands before,
between and behind the sentinels.

*Lock-free.* Two on each side are the least for a slow scan to race another;
three operations on a ring of two enter its second round.

*Event.* Three waiters are one that takes the signal, one that is woken for it
and one that sleeps on.

*Raft.* Two servers and two terms are the least in which a term changes hands
between a leader and a candidate; three servers the least with a majority that
is not everybody. Three servers in two terms with failures are past the reach
of a quick run, so the questions are split: `raft_faults` has all the faults and
what holds through them, `raft_one_term` the agreement of a larger group. Agreement
is asked in one term, without failed or repeated RPCs, only: across terms it does
not hold, as raft_acked_lost shows, and neither with one failed RPC, nor with one
repeated RPC and one crash (above). No theorem states it for that reason. `MaxTerm`, `MaxLog`, `MaxFailures`, `MaxRetries` and `MaxCrashes` appear in
guards only. Servers (and values) are interchangeable, so `raft_one_term` uses
symmetry.

*Record log.* With blocks of 4 units the sizes 1, 4 and 7 are a record inside
a block, one that goes into a second, and one that needs three; with 3 blocks a
file the second record begins at, before and behind the end of a file. Two
faults are a crash inside a record and one more while its successor is written.

*Net.* Two selectables are a handler and the object it deletes; two closures per
event with a queue of two leave one for the next round. Three clients of one
host are the one that made the thread, one that joins and one that comes late.
Two concurrent requests and one waiting exercise pipelining, the line and its
refusal; two servers, two retries and one or two requests a server make requests
queue, share a client, fail over and give up. One reset may fall into any of that.

Deadlock is checked in log and net, where each component has an explicit last
state; elsewhere callers may stop calling, or the bounds end the behaviour.

### Fairness

- Queue and event: a thread that came back from a condition variable gets the
  mutex sooner or later; critical sections are finite and all code paths unlock.
  Nobody is obliged to call `Put`, `Get` or `Signal`, so no fairness is put on
  those.
- Pool: worker steps, the steps of a `RunBatch` in progress and of an owner in
  progress are fair: those threads run, and jobs return (`JobDone`). Nothing
  makes a client put a job or the owner shut down.
- Lock-free queue: a thread inside `Put` or `Get` spins or sleeps for a fixed
  time; it never waits to be woken.
- Raft: the alarm of `PeriodicCheck` is registered again each time, requests
  that were sent are executed, and answers arrive. Elections are not fair, and
  neither are failures or crashes.
- Selector: the loop thread runs, time passes, and a thread that pushed a closure
  gets to its `SendWakeSignal`. No event ever has to come, and no user has to call.
- Connection: the loop and the resolver run; the peer's kernel takes data and
  accepts or refuses the connection. The linger timeout is strongly fair because
  it is pending only between handlers. Nothing makes the peer close: that a flush
  ends all the same is what the linger is for.
- HTTP client: the selector delivers, a connect ends, and the server answers what
  it was sent, or a timeout comes first. In the failsafe client the requeue alarm
  is registered again each time, the clients call back what they were given
  (`RequestResolved`), and time passes.

## 5. Proofs

Every theorem below is proved for all values of the constants, from the
assumptions named with it. TLC has checked each inductive invariant on an
instance before it was proved. The assumptions are evaluated by TLC in the
runs: those of `ProducerConsumerQueue`, `Event`, `Selector` and `RaftServer` are
`ASSUME`s of the modules; `PoolAssumption`, `LockFreeAssumption` and `HttpParameters` are
hypotheses of the theorems, and `ASSUME`d by `MCQueueAndPool`, `MCThreads` and
`MCNet`.

`ProducerConsumerQueueProofs`, for every finite set of threads, every set of
values and every `MaxSize` (0 is "no limit"), from `QueueAssumption`:

- `TypeCorrect`: `TypeOK` is inductive. It is split into the part about the data
  and the part about the waits, so that each action disturbs one of them.
- `StaysBounded`, `NoGetterStranded`, `QueueImplementsContract` rest on one
  lemma, `StepEffects`: any step of any thread pushes one element with a signal
  to a getter, takes one with a getter leaving, empties the queue, moves a getter
  from sleeping to woken, or leaves contents and getters alone. The argument for
  getters is a count: while a getter sleeps, the number of elements is at most
  the number of woken getters. A push adds one to both sides, a take by
  a caller only lowers the left, a take by a woken getter lowers both, and a getter
  goes to sleep only on an empty queue. Weaker statements ("if there is data some
  getter is woken") are not inductive: two pushes followed by one take
  would break them.
- `NoPutterStranded` is the mirror image, under `DrainOps = {}`: with `GetAll` or
  `Clear` it is false, as queue_getall_strands shows. The lemma is
  `PutterEffects`. For `MaxSize = 0` it holds because nobody ever waits.
- `QueueImplementsContract`: every step is a step of `BoundedQueue` or leaves
  `data` unchanged; the mapping is the identity on `data`.
- `FirstInFirstOut`: under `FifoUse` (all puts at the back, elements taken from
  the front, no `Clear`, which throws elements away) what was delivered followed
  by what is queued is what was accepted. The
  invariant adds `WaitersAtBack`: a putter that sleeps will put at the back too,
  which needs its stored call.

`EventProofs`, from `EventAssumption`: `TypeCorrect`, `ReleasesOnePerSignal`
(releases plus the pending flag never exceed the signals) and
`NoWaiterForgotten` (inductive with the type invariant: `Signal` wakes when it
sets, a waiter goes to sleep only when the flag is down, and the one that takes
an auto reset signal puts it down).

`ThreadPoolProofs`, from `PoolAssumption`, with one inductive invariant for each
theorem on top of the shape of the variables and the places of the workers:

- `BatchIsOver` (`BatchNotUsedAfterDelete`), for any number of `Start`s. A counter
  of a `Batch` counts what is still under way: `left` is at least the executors to
  be put, queued and popped but not started, `toFinish` is `left` plus the workers
  inside a job, and a worker in the last branch is the only one and finds 0. So
  when somebody may delete, nothing is under way.
- `CallbackOnce` (`CompletionOnce`), for a pool started at most once:
  `num_completed_` is the number of workers past `Leave`, and the callbacks run and
  pending are one exactly when that is all of them.
- `AcceptedJobsRun` (`FinishRunsAll`), for a pool started at most once: until
  `FinishWork` there is no NULL and nobody has left; afterwards every promised
  job has run, runs, or stands in `jobs_` before the first NULL while nobody has
  left yet. Jobs put later, by clients or by jobs, do not matter.
- `NoSentinelLost` (`SentinelForEachThread`), for a pool started at most once
  whose jobs put none into it: the NULLs put are the NULLs queued plus the
  threads gone. In the destructor `jobs_` then holds NULLs only, fewer than the
  threads and so fewer than the backlog (`CHECK_GT` in the constructor), and the
  branch that makes room is never taken. With jobs that put jobs it is
  (pool_destroy_busy), which is why the hypothesis is there.

  `StartedOnce` is how the pool is used; with two `Start`s there are more workers
  than sentinels and the three statements are false.

`LockFreeQueueProofs`, from `LockFreeAssumption`, for any number of producers,
consumers and operations and any ring: `TypeCorrect`, `GetReadsItsPut`
(`ReadsOwnPosition`) and `PutOverwritesOnlyRead` (`NeverOverwritesUnread`). The
assumption says that `QSize`, which `NextPow2` computes, is positive: the provers
have no powers, TLC evaluates it. The invariant says what a scan knows: the
announcement of a thread is never above the position it has claimed or will
claim, so the minimum a scan has found so far is not above the position of any
unfinished `Put` (or `Get`) it has passed (`HeadScans`, `TailScans`); the stored
result of a scan is not above any of them either (`LastScans`), although it may
fall back when a slower scan stores later; what the test has let through stays
true afterwards (`PassedOK`); and a slot holds the pointer of its position from
the write to the read (`RingOK`). `SlotApart` says that two positions of a slot
are a ring apart.

`SelectorProofs`, from `SelectorAssumption` (the selectables are finitely many,
as descriptors are): `ClosuresWakeLoop` (`NoClosureAsleep`), `DeletedGetsNoEvent`
(`NoEventToDeleted`), `LoopEndsEmpty` (`ExitRunsClosures`) and
`AlarmContainersAgree`, that `alarms_` and `reverse_alarms_` hold the same alarms
with the same times, so that the `CHECK`s at `selector.cc:237`, 293 and 370 hold
(no run has it as a property of its own). One invariant serves all: events are
pending only while they are dispatched, what waits to be deleted is registered
no more, and behind the last round of closures only late ones are left.

`DnsAndTcpProofs`, the resolver, without assumptions: `TypeCorrect` and `NoFreedQueryRead`
(`QueriesAlive`). The invariant is about who owns a list: the first of a list
made the thread, a running thread belongs to the first of its list, and
a freed query is in a list only when that thread is gone (which is the state
dns_cancel_strands ends in) and in `query_map_` only after its client's `Cancel`.

`DnsAndTcpProofs`, the connection, from `TcpParameters`, for any amounts written
and received and any user: `TcpTypeCorrect`, `FlushLosesNothing` (`NoOutputLost`)
and, unless the descriptors run out, `CloseHandlerRunsOnce` (`ClosedOnce`); where
they do, the last is false (`connection.cc:1130`). The invariant has two parts. Of the
object: it has a descriptor exactly in the states with a socket, the linger
timeout is pending only once the write half is shut, and while it is open what
was written is what was sent plus what is buffered. Of the events being
dispatched: the snapshot `Poll` took is still true of the socket, although the
user and the peer have moved on: an error means that the socket is dead, a hangup that
it is dead or shut on both sides, and a handler runs only while there is a
descriptor. Without the second part `HandleErrorEvent` could close a connection
that has output left. `ClosedOnce` adds that the close handler has run with
`CLOSE_READ_WRITE` exactly when a connection that was opened is disconnected, that
no connect, read or write handler ran after it, and that `CLOSE_READ` has come after
it only once a read handler has closed the connection itself and returned true,
and once at most: with the connection goes the descriptor, and no further event is
dispatched to it.

`HttpClientProtocolProofs`, from `HttpParameters`: `CallbackRunsOnce`
(`CalledBackOnce`), from an invariant that has a request in one place only, and
`ResponseToItsRequest` (`AnswerBelongs`) for `MaxConcurrent # 1`: the buffer holds
whole responses one after the other, and what is left of the current one
belongs to the request being read. For `MaxConcurrent = 1` it is false,
as http_wrong_answer shows.

`RaftServerProofs`, from `RaftAssumption` and `NoOneAssumption` (the -1 of
`voted_for_` is no server), for any group, any log, any number of terms, failed
and repeated RPCs and crashes, unless said otherwise:

- `TypeCorrect`, `CommitIsMonotone` (`CommitNeverDecreases`) and `AwaitsOneAppend`
  (`OneAppendInTransfer`) rest on one invariant, `TransferInv`: the types; that a
  leader has a position to send from for every node; and that the live
  AppendEntries from a server to a node are one while the server is up and
  `in_transfer_` is set, and none otherwise. A server that is down awaits
  nothing, which the property does not say and a restart needs, since it puts
  all flags down. Each handler has a lemma: its result is well typed, its
  commit position is not lower, and it sets `in_transfer_` exactly for the nodes
  it sends to (`SendsOK`); `DoneKeeps` turns that into a step. For the commit
  position of a leader the middle of the sorted match positions has to exist
  (`MedianExists`, by the least upper bound of the positions), or
  `MaybeAdvanceCommitLocked` would store an undefined value.
- `OneLeaderInFirstTerm` (`OneLeaderPerTerm`) under `MaxTerm = 1` and at most three
  servers. The invariant is `ElectionInv`: a candidate or leader is in term 1
  with its own vote; who granted a vote follows and has the candidate in
  `voted_for_`, before the answer arrives and ever after; and a leader has such
  a voter. Two leaders would need four servers. Both hypotheses are needed:
  the count of the votes takes one vote for all of them
  (`votes_for_me_ = true` for every node), and in a later term a vote granted in
  an earlier one still elects, since the response handler does not compare terms.

Of the queue, `TypeCorrect` and `StaysBounded` state `TypeOK` and `Bounded`, which
the runs check only through what they imply (`ImplementsBoundedQueue`).

Only model-checked: every liveness property (fairness and ENABLED are outside
what TLAPS can do here); `CommittedAgree` and `CommitsOnMajority`, which hold only in
one term that no failed or repeated RPC disturbs; all of `RecordLog`, whose properties compare the reader
with the whole log, flattened by a fold; and all of `FailSafeClient`, whose
methods are `RECURSIVE` operators. What a recursive function computes for every
input would need induction over data, which the installed provers cannot do; no
proof here needs it.

## 6. What is not modelled

- Of `ThreadPool`: `KillAll` (cancels pthreads at arbitrary points),
  `WaitForFinish` without sentinels, and the other four pools. The pool runs
  close with an owner that waits for its `RunBatch` callers, as an owner must.
- Of `RaftServer`: a `WriteRecord` that fails, and the destructor with RPCs pending. Loss of unsynced data by
  the operating system is not modelled: what was flushed is on disk.
- Of `logio`: `DetectLogSettings`, temporary increment files, the writer's lock
  file, deflate, and corruption of blocks by anything but a crash.
- Of the selector: `Register`, `UpdateDesire` and `Unregister` apart from closing,
  `Set`, `Clear` and `Release` of alarms, the poll and kqueue forms, the lean selector.
  An `epoll_wait` that fails with anything but EINTR ends the loop
  (`selector.cc:164-167`); the errors left (EBADF, EFAULT, EINVAL) are those of
  wrong arguments, which the selector does not pass.
- Of the connections: the acceptors, SSL and UDP. Of the HTTP client: the
  streaming protocols. HTTP server, RPC and `raft::Client` are next in the plan.
- Time, where no clock is named above: timeouts are events that may happen
  whenever they are pending.
- Parsers, codecs, digests, string utilities, URLs and generated callbacks: data
  conversions without protocol state, better tested than model-checked. They
  are most of the repository: the callback templates, the vendored URL parser,
  `strutil` and the HTTP and JSON parsers alone have far more lines than
  everything with a state machine. The map covers the code whose order of
  events matters, which is a small part of all lines.
- Everything listed as `not_modelled` in `PROJECT.json`.
