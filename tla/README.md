# Verification of the Intel SGX SDK and PSW runtime

TLA+ models of the concurrent and the crash-prone parts of linux-sgx, the TLC configurations that
check them on small instances, and TLAPS proofs of the results that matter most
for every size. All paths are relative to the repository root, `src/`.

The repository is large and mostly sequential: parsers, cryptography, vendored
libraries, tools. What is hard to test in it is the part where application
threads, trusted threads, worker threads and the destruction of an enclave meet, and
the part that has to survive a crash, the protected files. That is what the models are about. `PROJECT.json` maps every definition to the
lines it models, lists the hazards by source line, and says which property covers
each one.

## 1. Inventory of the system

Trusted code runs inside an enclave on a TCS page, entered by *ecalls* and left
for *ocalls*. The untrusted runtime (uRTS) owns the enclave object, its TCS pool
and the events on which trusted threads block.

| Component | State it keeps | Operations that change it | What makes it correct |
|---|---|---|---|
| Untrusted events, `common/src/se_event.c`, `psw/urts/enclave_mutex.cpp` | one int per TCS, used as a futex word | wait, timed wait, wake, and the OCALLs that combine them | a wake-up for a waiting thread reaches it; a timeout leaves the int usable |
| Trusted mutex, `sdk/tlibthread/sethread_mutex.cpp` | owner, count, queue of threads, kind | init, destroy, lock, trylock, unlock, unlock_lazy | exclusion; order of arrival; no waiter left behind |
| Trusted condition variable, `sethread_cond.cpp` | queue of threads | wait, signal, broadcast | a signal is not lost; wait returns with the mutex |
| Trusted readers-writer lock, `sethread_rwlock.cpp` | reader count, owner, two queues | rdlock, wrlock, their try forms, rdunlock, wrunlock, unlock | readers exclude writers; nobody stranded |
| Thread queues, `sethread_internal.h` | first and last pointer per queue, one link per thread | the QUEUE macros | the pointers are the sequence meant |
| Switchless calls, `sdk/switchless/inc` | two bitmaps and an array of tasks shared across the enclave boundary | submit, poll, revoke, collect; scan, accept, run | each call is run once or falls back; every call ends |
| Switchless workers, `sdk/switchless/sgx_uswitchless` | two pools, their counters and futex words, flags of the handle | create, start, sleep, wake, stop, join, free | nothing freed in use; no work before the ocall table; stopping ends |
| TCS pool, `psw/urts/tcs.cpp` | free, unallocated and bound TCS, reference counts | acquire, release, garbage collection, reservation for new threads, the filler | one user per TCS; none lost; waiters go on |
| Enclave lifecycle, `psw/urts/enclave.cpp`, `routine.cpp`, `enclave_thread.cpp` | pool's list, references, zombie and destroyed marks, a readers-writer lock | ecall, ocall, event waits, thread creation, UNINIT, destroy | nobody inside a destroyed enclave; deleted once and not in use |
| Trusted pthread library, `sdk/pthread` | work queue, thread descriptors, keys | create, join, exit, once, keys | what create returns is true of its own thread; no descriptor is used after it is freed; every call returns |
| Protected file system, `sdk/protected_fs` | tree of encrypted nodes, cache of nodes, recovery file | open, read, write, flush, clear the error, close, recover | after a crash the file is the old or the new version; blocks read back as written; failed flushes can be repaired |
| Trusted runtime, `sdk/trts` | enclave state, thread data, exception handlers, page states | initialization, ecall and ocall nesting, handler registration, EDMM | an ecall before initialization is refused; nesting unwinds in order |
| Reserved memory manager, `sdk/tmm_rsrv` | list of regions | allocate, free, change protection | the list is a partition that agrees with page rights |
| Key exchange, `sdk/tkey_exchange`, `ec_dh_lib` | session table and session states | init, messages 1 to 3, close | a session moves only forward; no stale handle |
| Enclave common loader, `psw/enclave_common` | maps of enclaves under one mutex | create, load, initialize, delete | maps agree with what the driver has |
| Loader, signal handling, debugger list, `psw/urts` | build progress, handler chain, list of enclaves for a debugger | load, unload, dispatch | a failed load is undone |
| AESM service, `psw/ae/aesm_service` | request queues, worker threads, cache of long-lived threads | enqueue, serve, stop | each request is answered once; stopping ends |
| The rest: architectural enclaves, sealing, simulation, tools, language runtimes, samples | none that threads share, or none at all | | |

How they interact: a trusted thread that has to block makes an OCALL, which goes
through the lifecycle's read lock (given back for the time of the OCALL) to the
event of its TCS. Destroying the enclave sets every event, so that no thread
stays in such a wait. Ecalls take their TCS from the pool inside the lifecycle's
read lock. The first ecall starts the switchless workers, and the destruction
joins them. The workers of the trusted pool are themselves threads in a long ecall.
A thread that the enclave creates is a native thread that enters by an ecall on a
TCS reserved for it, and takes its work from a queue inside the enclave; creating
and joining poll with timed waits on the same events that the locks use. A
protected file reaches the disk by ocalls, one for each node.

What makes it hard:

- one untrusted event serves every lock that its thread ever blocks on, and its
  waits may end for no reason;
- a thread chooses whom to wake under a spinlock and wakes it after;
- both sides of the boundary operate on the same bitmaps with single atomic
  instructions and no lock, and either may give up;
- an enclave may be destroyed while its calls are out in ocalls;
- the pool lists the process's threads while they come and go, and holds its
  mutex while it waits for the filler;
- allocation, `pthread_create`, MKTCS and the enclave itself may fail half-way;
- a flush is a dozen writes of which any may fail, or be the last before a crash,
  and it may run in the middle of a read because the cache is full;
- a creator of a thread that fails may take another creator's descriptor from the
  queue.

## 2. Modules

| Module | Models | Actions |
|---|---|---|
| `UntrustedEvent` | an untimed OCALL on events in progress: one action per atomic add or futex call | `EventDec`, `FutexWait`, `EventInc`, `FutexWake`, `EventWakePrompt`, `FutexInterrupted` |
| `SgxThreadMutex` | the mutex over `UntrustedEvent` | `Lock`, `LockRetry`, `Trylock`, `Unlock`, `Destroy`, `MutexInit` |
| `LockContract` | abstract: a first-come-first-served lock | |
| `SgxThreadCond` | condition variable over `SgxThreadMutex` | `CondWait`, `CondRewait`, `CondLeave`, `CondRelock`, `CondSignal`, `CondBroadcast` |
| `SgxThreadRwlock` | readers-writer lock over `UntrustedEvent` | `RdlockFree`, `RdlockBlock`, `RdlockRetry`, the same for write, `Rdunlock`, `Wrunlock`, `Unlock` |
| `ThreadQueue` | the QUEUE macros pointer by pointer, and what it means that they stand for a sequence | `InsertTail`, `RemoveHead`, `Remove` |
| `RwlockQueues` | composition: the readers-writer lock over two such lists | `BlockLinked`, `RetryLinked`, the rest of the lock's actions |
| `SwitchlessCalls` | one call manager of either type | `BeginCall` and ten steps of a caller, seven steps of a worker and `Abort`, `Crash` |
| `SwitchlessWorkers` | the two pools, the waker, the first caller, the creating and destroying thread | `WorkerStep`, `WakerStep`, `StarterStep`, `MainStep`, `BugOn`, `Stop` and the requests to wake |
| `TrustThreadPool` | the TCS pool and its filler | `Ecall`, `EcallWait`, `EcallRetry`, `EcallReturns`, `PthreadExit`, `CreateThread`, `BindPthread`, `FillerStep`, thread start and exit |
| `EnclaveLifecycle` | one enclave from creation to deletion | ecall, ocall, event, destroy and thread-creation steps |
| `PthreadLib` | create, run, exit and join of threads over `UntrustedEvent`, with the timed wait | `Create`, `CreateOcall`, `PopOwn`, `PopOther`, `MarkOther`, `NotifyOther`, `Suspend`, the polls, `PollFreed`; `TakeTask` to `Leave` of a created thread; `Join`, `JoinWait`, `JoinDone`; `TimedDec`, `TimedOut`, `ResetEvent` |
| `FileLayout` | the arithmetic that gives each node of a protected file its place | |
| `ProtectedFile` | one protected file: handle, cache, disk and recovery file | the calls `Open` to `Close`; `Evict`, `EvictFlush`, `UseNode`; the flush, one action per write; `Crash`, `CrashInRecovery`, `Abort` |
| `AtomicFile` | abstract: a stored version that changes in one step to what the handle holds, and the two failures that put it at risk | |
| `SgxThreadProofs`, `RwlockProofs`, `PthreadLibProofs`, `SwitchlessCallsProofs`, `SwitchlessWorkersProofs`, `TrustThreadPoolProofs`, `EnclaveLifecycleProofs`, `FileLayoutProofs` | theorems, section 6 | |
| `MC*` | instances for TLC | |

Conventions:

- A variable with a name of the C code is that field. `pc`, `cpc`, `wpc`, `tpc`,
  `stack` say where a thread is in its call.
- A section under a spinlock or a mutex is one action. Code outside is split at
  every shared access.
- A call that is refused and writes nothing is a stuttering step.
- Auxiliary variables (`held`, `readGrants`, `writer`, `runs`, `failed`, `lost`,
  `content`, `kept`, `halves`, `strays`, `starts`, `result`, `early`, `misused`) record
  what calls have *returned* or done. The only
  guards that read them are about the client: which locks it asks for, that it
  releases what it holds, which threads it joins.
- In `ProtectedFile` a key stands for a key and the MAC made with it. A node can be
  decrypted exactly when its key is the one that its parent holds, so a version that
  mixes two flushes is seen as unreadable.
- Definitions whose names end in `_Something` and whose comment begins with
  "Mutation" or "Mutant" are plausible errors. A property is kept only if putting one of them
  in place of the definition it mutates makes TLC report that property.

### What the variants mean

Some variables never change. `Init` chooses them, and they select a kind of
machine or client for the whole behaviour.

- `prompt` (events). FALSE is the real machine: a waker can be descheduled
  between its atomic add and its FUTEX_WAKE, and a signal can end a FUTEX_WAIT.
  TRUE excludes both. Safety properties of the locks are checked for both values.
  Wake-up and liveness properties are checked for TRUE, and finding 1 shows why.
  The pool (the filler's event) and the lifecycle (the events of waiting threads)
  have the same variable with the same meaning: the event is the real one, that is an
  int that a wait which nothing has woken leaves decremented, and what is claimed
  only for TRUE says so in its statement.
- `memory` (readers-writer lock). FALSE: the array in `wrunlock` may fail to be
  allocated.
- `type` (switchless calls): the ecall manager or the ocall manager.
- `Busy` (switchless calls): how many lines are with callers in long calls, so that
  full bitmaps occur with two callers.
- `signals` (workers): a signal may end a worker's FUTEX_WAIT.
- `debug` (workers): a build with SL_DEBUG, whose BUG_ON aborts.
- `bind` (pool): the two TCS policies.
- `edmm` (lifecycle): destruction makes the UNINIT ecall first.
- `Careful` (lifecycle, a constant): the application does not destroy the enclave
  while it starts threads nor, with EDMM, twice at the same time.
- `Faults` (protected file): the kinds of failure that may happen. "write" is any
  write to disk or to the recovery file, "fflush" the two flushes of stdio, "crypto"
  any cryptographic step before the new key id is in the meta-data, "encrypt" the one
  after it, "path" a read or an allocation on the way down to a node. The run has all
  of them.

## 3. Runs

State counts are distinct states; times are for two workers on a small machine.

| Run | Instance | States | Shows |
|---|---|---|---|
| `cond` | 3 threads, both kinds of mutex, both machines | 404 thousand, 132 s | exclusion, implementation of `LockContract`, no thread linked twice, `wait` returns with the mutex; with prompt wakers wake-ups and signals are exact, every blocked call gets the lock and every signalled thread returns |
| `rwlock` | 3 threads, 4 calls, 2 nested reads, failing allocation, pointer lists | 572 thousand, 100 s | readers exclude writers, queues exact and their pointers right, `unlock` never decides on a stale owner; with memory and prompt wakers every blocked call returns |
| `switchless_calls` | 2 callers, 2 workers, 2 words of 2 bits, both managers, crash | 349 thousand, 62 s | a call runs once or falls back untouched, and every call ends |
| `switchless_workers` | 2 + 2 workers, failing creation, signals, both builds | 297 thousand, 85 s | counters exact, nothing freed in use, no work before the ocall table, stopping ends or aborts at a BUG_ON |
| `tcs_pool` | 3 threads, 1 static and 1 dynamic TCS, both policies, failing MKTCS, refused bindings, the real event | 286 thousand, 155 s | a TCS has one user and one place; where only wake-ups end the filler's sleep a waiter goes on and the pool is refilled |
| `lifecycle` | 3 threads, 2 destroyers, 1 created thread, with and without EDMM, the real events | 129 thousand, 46 s | nobody in a destroyed enclave, deletion once and after the last use, destruction ends; where only wake-ups end waits, waiters are released |
| `protected_file` | a new file or one of 2 or 3 blocks, up to 4 blocks with an inner node each, a cache of 3 nodes, 2 failures of any kind or crashes | 580 thousand, 114 s | the file implements `AtomicFile`, blocks read back as written, a handle with nothing to write holds what is stored, the cache is a tree but for what failed calls left in it, failed flushes are repaired |
| `pthread` | 3 creators, 1 native thread at a time, 2 descriptors, the real machine | 659 thousand, 200 s | every native thread finds a task, `pthread_create` tells the truth, freed descriptors are read at two known places only, events stay usable, every call returns |
| `mutex_lost_wakeup` | the real machine | violation | finding 1 |
| `switchless_crash` | ecall manager, crash | violation | finding 2 |
| `switchless_start_race` | a second ecall during the first | violation | finding 3 |
| `lifecycle_late_reference` | a creator, a created thread that starts late, and a third thread that destroys | violation | finding 4 |

The type invariants of `cond`, `rwlock`, `switchless_calls`, `switchless_workers`,
`tcs_pool` and `lifecycle` are the first conjuncts of `LinkedOnce`,
`NoLostRwWakeup`, `LinesExclusive`, `CountersAgree`, `TcsAccounted` and
`DeletedOnce`. Other properties join invariants that earlier stood alone:
`WakeupsExact` says that no wake-up of a mutex waiter and no signal is lost and that
events are balanced; `TcsAccounted` that reference counts are exact and every TCS has
one place; `CacheIsTree` that a node is cached once, with its parents, and that its
changes are known up to the root.

Deadlock is checked in `protected_file` and `mutex_lost_wakeup`. The other runs
have states in which the system rightly stops: clients that make no more calls
(the bounds on calls), a freed handle, a deleted enclave, and sleepers whose
wake-up was lost on the real machine. Where a stop would be wrong, a liveness
property says so.

### Bounds, and why they are enough

- Three threads are a holder, the head of a queue and a thread behind it or
  barging in: one waker, one woken thread, one competitor. The readers-writer lock
  needs two readers beside a writer, and nests reads to 2 so that the count and
  the number of readers differ. The theorems of section 6 lift the safety results
  for the two locks to any number.
- `EventDepth` 2 (3 in `mutex_lost_wakeup`): an event that two waits have
  decremented is one further than any correct use goes. The bound stops a third
  decrement of a thread that spins on its event.
- `MaxHold` 2 tells an inner unlock from the last one. The constraint
  `RecursiveWaitsArePrompt` in `cond` leaves out `cond_wait` with a recursive mutex
  on the machine with slow wakers, to keep the run short. `SignalledReturns` is
  about the nonrecursive kind, since `cond_wait` releases one level only.
- `MaxCalls` 4 in `rwlock`: every thread can block, and one can come back.
- Two words of two bits give a search that continues in the next word, a worker
  that sees two bits in one word, and a full bitmap (with `Busy` 3, one line is
  left for two callers). `MaxTries` 2 lets a poll fail and succeed.
- Two workers per pool: one asleep while one runs, and a creation that fails
  half-way.
- One static and one dynamic TCS for three threads: the free list runs empty, the
  filler has exactly one page to make, and garbage collection has something to
  find. `MaxNest` 2 is a nested ecall; `MaxEvents` 1 a wake-up that the filler has
  not consumed, since more wake-ups only repeat its loop. `EventDepth` 2 lets a sleep
  that a signal ends leave its decrement behind twice.
- `MaxDepth` 2 and `MaxWork` 3 in `lifecycle`: an ecall, an ocall and a nested
  ecall or a destruction inside it.
- `ATTACHED` 1 and `CHILDREN` 2 in `protected_file` give every block but the first an
  inner node, and the fourth block two of them between it and the root, one of which
  has another child. Seven nodes besides the root and a cache of 3 force evictions,
  clean ones and ones that flush, and let a parent fall out of the list before the
  node that a failed call left in front of it. `MaxWrites` 2 (a block written, or the
  file removed) lets a block be changed and another one be appended, with the failed
  writes not counted. `MaxFaults` 2 is a failed flush followed by a failed repair or by
  a crash, an fflush and the rewrite after it, or a crash in the recovery from a crash.
  The run starts from files of two and three blocks as well, so that a first flush has
  old nodes to save. How places are computed with larger fan-outs is proved.
- Three creators and two descriptors in `pthread`: a creator fails while another is
  queued, before or behind it, and a third has already reused the descriptor that the
  first one gave an error to. One native thread at a time makes OUT_OF_TCS happen.
- Symmetry is used only in the violation runs that check an invariant
  (`mutex_lost_wakeup`, `switchless_crash`, `switchless_start_race`), whose
  threads are interchangeable.

### Fairness, and why the code justifies it

- Locks: weak fairness of each thread's OCALL steps and of the retry after a wait,
  since a runnable thread is scheduled, and of the client's unlock. No fairness on
  starting a call, on signalling, or on POSIX signals.
- Switchless calls: weak fairness of callers and of a worker that has a task. A
  worker need never look for a task. The caller's bounded retries must end the
  call without it.
- Switchless workers: weak fairness of every thread that exists, an aborting one
  included. Nobody has to call or to stop the enclave.
- Pool: weak fairness of the filler and of a waiter whose signal has come. No
  fairness on what ends the filler's sleep other than a wake-up.
- Protected file: a call that has begun goes on until it returns, and the application
  clears errors. Nobody has to open, write or flush. Failures are bounded, so writes
  succeed at last.
- Pthread: every thread in a call is scheduled, a timed wait ends, and the routine of
  a created thread returns. Nobody has to create or to join. A `pthread_create`
  that reads a freed descriptor (`PollFreed`) has no fairness: what it reads may keep
  it polling, and `EveryPthreadCallReturns` leaves it out.
- Lifecycle: strong fairness per thread. A thread that waits for
  `m_enclave_mutex` or the write lock is enabled again and again, and the pthread
  primitives do not starve it. Ecalls and ocalls that do not wait for an event
  end. Nobody has to set an event, so only the destruction can release a waiter.

## 4. Findings

Each is a violation run: the code does not do what a comment or an assertion in the
repository says of it.

1. `common/src/se_event.c:54`. `se_event_wait` returns from FUTEX_WAIT without
   looking at why it returned, and leaves its decrement in the event. If a signal
   or the late FUTEX_WAKE of an earlier round ended the wait, the next
   `se_event_wake` brings the int back to 0 and no further. A thread about to
   decrement it then sleeps beside a free mutex. The timed form restores the int,
   and its comment says why it has to.
2. `sdk/switchless/inc/sl_fcall_mngr_common.h:108`. A trusted worker that has
   cleared a task's bit returns when it sees that the enclave has crashed. The
   untrusted caller can no longer revoke and waits for DONE for ever, at the line
   that says "The request must has been accepted".
3. `sdk/switchless/sgx_uswitchless/sl_workers_untrusted.c:85`, with
   `psw/urts/enclave.cpp:312`. `m_first_ecall` is cleared before the workers are
   initialized. A second thread's ecall can have them woken before the ocall table
   is registered, which the assertion at line 162 excludes. The comment at
   `enclave.cpp:310` knows of the race and expects no more than a fallback.
4. `psw/urts/enclave_thread.cpp:56`. A thread created by the enclave takes its
   reference when it first runs. `pthread_create` polls inside the enclave until the
   new thread has started; if a third thread destroys the enclave meanwhile, the
   creator's ecall ends with an error, gives back the last reference and deletes the
   object that the new thread was given.

## 5. Observations without a run of their own

Each has a hazard in `PROJECT.json`. The models contain all of them but those that
are said to be left out, and the properties name them as their exceptions: that
nothing else goes wrong is what the passing runs show. Five of them contradict a
text of the repository:

- `sl_workers_untrusted.c:117` and `:157`: `BUG_ON(us_init_finished == 0)` says that no
  pool is woken before the first ecall. `kill_threads` and `on_error` wake it in an
  enclave that had none. A production build ignores the condition; a build with
  SL_DEBUG aborts there. `StopEnds` says both.
- `lru_cache.cpp:88`: `assert(map_it == map.end())`. An append puts its new nodes into
  the cache before the cache is shrunk. If the flush that makes room for them, or the
  allocation of the next node, fails and the application appends again, the same node
  is added twice. `CacheIsTree` says that nothing else does this. A debug build aborts
  the enclave. A release build goes on with a list that has a key twice: evicting the
  older entry frees the node of the newer one. What follows is left out (`Abort`).
- `file_read_write.cpp:361`, "bump all the parents mht to reside before the data node in
  the cache": a call that fails half-way down the tree skips it and leaves the nodes
  that it has read in front of parents that were cached earlier. The parents can then
  be evicted first, and their children point to freed memory. `CacheIsTree` says that
  this is the only way; what follows is left out too (`Abort`).
- `enclave.cpp:803`, "all threads that are waiting/about to wait on untrusted event need
  to be waked": `wake_threads` adds one to each event. Where a signal has ended a wait
  and left the event at -1 (finding 1), that only restores 0, and a thread about to
  wait sleeps for ever. `DestroyWakesWaiters` is claimed for behaviours in which
  nothing but a wake-up ends a wait; without that condition it fails.
- `enclave_thread.cpp:57`, "bind the trust_thread with this new thread's thread_id": the
  result of `bind_pthread` is ignored. If the new thread has the id of an exited one
  that is still in the pool's list, the binding is refused, and its TCS is in no list
  any more. The ecall then runs on the TCS of the old entry. The model has reused ids;
  `TcsAccounted` counts such a TCS as lost and says that no other step loses one.

The others contradict no text:

- The request to the filler (`enclave.cpp:503`, `:537`) goes through the same kind of
  event. With the event at -1 it is absorbed, and the thread that waits for a TCS with
  `m_thread_mutex` locked waits on. `WaiterGoesOn` and `PoolRefilled` have the condition
  of `DestroyWakesWaiters`; without it they fail.
- `wrunlock` gives up ownership before it allocates the array of readers to wake.
  When that fails it returns ENOMEM with the lock free and the readers queued. They
  stay asleep until a later `wrunlock`. (`memory`; without this condition
  `NoLostRwWakeup` fails.)
- The error path of worker creation wakes the pool without setting `should_wake`. A
  worker that is counted asleep but not yet in FUTEX_WAIT sleeps afterwards, and is
  joined for ever. `StopEnds` names this as its exception.
- The waker clears `us_wake_workers` after it has woken the pool, so a request made
  in between is lost. The caller falls back, which `EveryCallEnds` covers.
- With EDMM, the UNINIT ecall of a second, concurrent `sgx_destroy_enclave` needs
  `m_enclave_mutex`, while the first holds it and waits for the write lock. Both
  wait for ever. (`Careful`; without it `DestroyEnds` fails.)
- `acquire_thread` uses `m_utility_thread` without a test, and UNINIT sets it to
  NULL. The pool module ends before UNINIT.
- `pthread_exit` in an ecall that was made from an ocall leaves through the outermost
  ecall of the thread (`trts_ecall.cpp:402`), whose `reset_ref` (`enclave.cpp:390`) makes
  the TCS's count exact again: `TcsAccounted` holds with it. The references that the
  inner ecalls had on the enclave object are not given back, so that an enclave
  destroyed later is marked as a zombie and never deleted; `EnclaveLifecycle` has no
  `pthread_exit`.
- `pthread_create` gives another's descriptor an error and reads its `creater_td`
  after the unlock (`pthread.cpp:246`). The other creator polls, and may have seen
  the error and freed the descriptor. The first exception of `NoUseAfterFree`. The model
  lets the read name its old creator, any other or nobody to wake.
- A created thread that hands out its `pthread_self()` can be joined, and its
  descriptor freed, before its `pthread_create` has looked at it for the last time.
  The second exception of `NoUseAfterFree`, and that of `EveryPthreadCallReturns`. The
  model lets such a call return anything (`PollFreed`).
- When the last encryption of a flush fails, `clear_update_flag` writes a meta-data
  node with the new key id and the old cipher (`file_flush.cpp:130`). The file cannot
  be decrypted after that.
- When the `fflush` in `set_update_flag` fails and the rewrite without the flag fails
  too (`file_flush.cpp:273`), the flag stays on disk. The next flush, by which
  `clear_error` repairs the file, begins by emptying the recovery file; until it is
  complete again a crash leaves a file that cannot be opened. If the recovery file
  cannot be written and the handle is closed, that is for good. These two failures are
  `Endanger` of `AtomicFile`: from then on openers find the version that was stored
  before, or nothing.
- Recovery closes the file, and so gives up its lock, before it copies the old nodes
  back (`file_init.cpp:343`). One opener at a time is modelled.
- `cond_wait` by a thread that does not own the mutex returns an error and leaves
  the thread in the condition's queue. `CondWait` models callers that own it.

## 6. Proofs

TLAPS checks the theorems below for every value of the constants.

| Theorem | Statement | Run |
|---|---|---|
| `Exclusion` | mutual exclusion of the mutex alone | `cond` |
| `OwnerInvariant` | types, and `m_owner` and `m_refcount` agree with the grants that callers were told of | |
| `QueueExact` | the mutex's queue holds exactly the blocked callers, each once | |
| `MutexImplementsContract` | the mutex implements `LockContract` | `cond` |
| `CondExclusion`, `CondImplementsContract` | both, with the condition variable beside the mutex | `cond` |
| `LinksAreSingle` | the one link of a thread is in one queue at a time, once | `cond` |
| `WaitGivesUpAndRegains` | `cond_wait`, also one that queues up again, returns with the grants it was called with, and no blocked lock call ends without one | `cond` |
| `WakeupsAreExact` | with prompt wakers no wake-up is lost, and none is left over | `cond` |
| `RwExclusion` | readers exclude writers, and writers exclude each other | `rwlock` |
| `CountIsExact` | `m_reader_count` is the number of read locks out, and `m_owner` is the writer | |
| `UnlockChoice` | the unlocked read in `sgx_thread_rwlock_unlock` is not stale | `rwlock` |
| `RwQueuesExact` | each queue of the readers-writer lock holds exactly the threads blocked in that call, each once | `rwlock` |
| `PointersAreQueues` | the first, last and link pointers of both lists always stand for these queues | `rwlock` |
| `RwWakeupsArrive` | with memory and prompt wakers, no queued reader is left behind a lock without an owner, nor all waiters behind a free lock | `rwlock` |
| `CreateIsTrue` | what `pthread_create` returns is true of its own descriptor | `pthread` |
| `EveryRunnerHasATask` | a native thread that enters the enclave finds a task | `pthread` |
| `FreedIsUnused` | a freed descriptor is read at the two places of section 5 only | `pthread` |
| `EventsStayUsable` | an event is below zero only in its own thread's timed wait, and then -1 | `pthread` |
| `LinesNeverShared` | a signal line has one caller and one worker at a time | `switchless_calls` |
| `TasksNeverLost` | a signalled line has a submitted task, and a waiting caller's task is with a worker or answered | `switchless_calls` |
| `CallsRunOnce` | a call that falls back is not run, one that returns a result was run once | `switchless_calls` |
| `CountersExact` | `num_running` and `num_sleeping` are the numbers of threads that run and sleep | `switchless_workers` |
| `FreedAfterThreads` | the switchless structures are freed when all their threads have ended | `switchless_workers` |
| `NoWorkBeforeTable` | no worker works before the ocall table is there, if `~ ConcurrentEcalls` | `switchless_workers` |
| `OneThreadPerTcs` | a TCS carries the ecalls of one thread and is not handed out meanwhile | `tcs_pool` |
| `EveryTcsAccounted` | reference counts are exact and every TCS is in one place, where a refused binding is the only way to be lost | `tcs_pool` |
| `NobodyInside` | nobody executes in a destroyed enclave | `lifecycle` |
| `DeletedIsUnused` | no call uses a deleted `CEnclave`, if `Careful` | `lifecycle` |
| `DeletedExactlyOnce` | the `CEnclave` is deleted once, when nobody is left, if `Careful` | `lifecycle` |
| `MhtPlacesAgree` | the two formulas for the place of an inner node of a file agree | |
| `PlacesDistinct` | no two nodes of a file have the same place, and none that of the meta-data | |
| `PlacesDense` | every place from 1 on is that of a node | |
| `SlotsDistinct` | two children of an inner node never share a slot, and the way up ends at the root | |

Assumptions: `MutexAssumption`, `EventAssumption`, `RwAssumption`,
`PthreadAssumption`, `CallsAssumption`, `WorkersAssumption`, `PoolAssumption`,
`LifeAssumption`, `NoneAssumption` and `LayoutAssumption`. They say that the null thread
is not a thread (nor a step of a call or a TCS), that bounds and fan-outs are positive,
that variants are Booleans, that names of callers are no names of results, that the
kinds of TCS and of workers are disjoint and, where something is counted, that threads,
workers and TCS are finitely many. TLC evaluates them in every run of these modules.
No theorem assumes fairness. Only `WakeupsExact` and `NoLostRwWakeup` are about
`prompt` (the second also about `memory`), by their own statements; the others hold
whatever the events do.

Three theorems fix a variant of the model in their hypotheses, since the code is right
only there: `~ ConcurrentEcalls` (run `switchless_start_race` shows what happens
otherwise) and, twice, `Careful` (run `lifecycle_late_reference`). Each is a value that
the passing run of the module has too.

**Mutex.** Mutual exclusion speaks of what calls returned, and is not inductive.
`OwnerInv` adds the types, `OwnerAgrees`, and `FreeAgrees`: a mutex is unowned
exactly when its count is 0, and a destroyed one is unowned with an empty queue.
Without the first part a `Take` could start from a nonzero count. Without the
second a re-initialised mutex could keep a holder. The refinement needs more: that
a grant takes the head of the queue, and that a blocking call is not queued twice.
`MutexInv` is `OwnerInv` with `QueueIsWaiters` and `WaiterNotOwner` (a queued thread
does not hold the mutex). Each mutex action is then shown to be a `Grant`,
`GrantAgain`, `Block` or `GiveBack` of the contract, or to leave `held` and
`m_queue` alone. Every event step is a stutter.

**Condition variable.** `CondInv` is `MutexInv` for the larger specification, with
`CondQueueInv` (the condition's queue holds threads in `cond_wait`, each once) and
`WaiterGaveUp`. The lemmas about lock, unlock and events are stated for the parts that
`SgxThreadCond` shares with `SgxThreadMutex`, so that both specifications use them.

**Wake-ups.** `NoWakeupEverLost` and `NoLostSignal` say that somebody who should run is
runnable or about to be woken. What makes them inductive is that the one event of a
thread serves the mutex and the condition and never counts two wake-ups. `WakeInv`
says, for prompt wakers, that each thread has `OneWakeup`: it is awake with its event at
0; or it waits, unwoken, and a wake-up is under way exactly when it is `Entitled` to one
(head of the queue of a free mutex, or taken off the condition's queue); or it waits,
woken, and no other wake-up is coming. `TargetsOf` adds that a thread is the target of
one waker at a time, once, so that a wake-up delivered is a wake-up gone. One lemma per
action shows both; `UntouchedWakeup` disposes of the threads that a step does not
concern.

**Readers-writer lock.** `AccessInv` has the types of the variables that decide
about access, `CountAgrees`, the exclusion of readers by an owner, and
`UnlockHolds`: a thread between the two halves of `unlock` still has what it gives
back. The last part is needed for `UnlockChoice`, since another reader's `rdunlock`
may run in between and a positive count alone would not survive it. Queues and
events do not occur in the invariant. That is the point: exclusion does not rest on
who is woken when.

**Pointer lists.** `ListInv` has the types of the pointers, `QueuesAreWaiters` and
`ListsLinked`. The three need each other: a thread may be linked at the tail because
it waits in neither queue, and removing one from the middle of one list leaves the
other alone because they have no thread in common. `PathIsQueue` is the heart of it:
the threads that the loop of `QUEUE_REMOVE` visits are the queue in order. It is
proved with the least counterexample (`Least`), since induction over an operator is
not available. One lemma per macro (`InsertLinks`, `RemoveHeadLinks`, `UnlinkLinks`)
then says what it makes of the pointers, and one per kind of critical section that
`ListInv` survives it. `LinkedIsRwlock` carries the results of `SgxThreadRwlock` over.

**Wake-ups of the readers-writer lock.** Here `OneWakeup` is false: a woken reader or
writer may take the lock before its wake-up arrives, which then ends a later wait early.
`RwWakeInv` therefore bounds the events only from below: with prompt wakers (`EventOf`)
an event is at least -1, it is -1 only for a thread in or before its sleep, and a thread
that sleeps has -1, so that the next wake-up ends the sleep. `SectionProgress` and
`OcallProgress` then show that whatever ends a wait stays under way until the wait is
over. Both parts of `NoLostRwWakeup` are kept since only `Wrunlock` makes the lock
ownerless, and it wakes the whole queue of readers or else the first writer; a call that
queues up or waits again finds the lock taken, which makes the premise false; and the
last `Rdunlock` wakes the first writer. `ListInv` is needed for the threads in the
queues to be exactly the ones that wait.

**Created threads.** `CreateTellsTruth` relates a result to a start that another
thread makes, and is far from inductive. `TruthInv` says of each descriptor that its
`m_state` tells where it is: in the queue or taken out by a failed creator
(`PREPARING`, and no native thread has it), with exactly one native thread
(`EXECUTION`), or done. Without the part about the failed creator's hands (`Marked`) a
descriptor could get an error and be run. `TaskForEveryRunner` is inductive on top of
it, by counting: each step that takes from the queue is made by a thread that is
counted. `LiveInv` adds that whatever is queued, run, created, joined or about to be
notified is not freed, unless it is joined before its `pthread_create` returned, and
that a descriptor in the notifier's hands has its error; the three places that free
(`FreeLive`) then need that nobody else is busy with it. `EndInv` is what an
early join needs: a thread that has started runs or has ended, and a freed descriptor is
that of a thread that has ended or of a `pthread_create` that has failed.
`Excused` is the exception that `NoUseAfterFree` makes, and `TouchExcused` shows that
every read which may meet a freed descriptor falls under it. What the events do plays no
part in any of the three.
`EventUsable` is about the events alone. It is inductive with `WaitsAreReset`: a thread
about to decrement its event has made the reset of its last timed wait, since every wait
starts from `Resumed`.

**Switchless calls.** The three properties are proved from one invariant. `CallsInv`
says, for each control point of a caller, what its task has come to (`CallerAt`): while
it polls, revokes or waits, the task is signalled, with a worker, finished, or lost with
the enclave (`TaskIsSomewhere`). The other two parts look from the line's side. A
signalled line (`SignalAt`) and a worker's line (`WorkerAt`) are `Owned`: `func_id` names
a caller that has this line and is still watching it, or has returned because of the
crash. The last case is why a caller that sees the crash must not free its line: a
worker may still write the task. `Alone` then makes a worker's step touch one caller
only, so that `CallerMoves` and `WorkerMoves`, the frame lemmas, leave one caller, one
line and one worker to look at per action. `ExactlyOnce` follows because `runs` is 0 as
long as the bit is set or the worker has not run the task, and whoever clears the bit is
alone.

**Switchless workers.** `WorkersInv` has the two counts as cardinalities, where the
creating and destroying thread is and which workers can exist then (`MainInv`), what the
flags imply about one another (`FlagInv`), and that before the ocall table is there a
worker has left its first sleep only to stop (`FirstSleep`). `FreedWithoutThreads` needs
the order of kill and join of both pools, with the undo of a failed creation;
`WorkAfterFirstEcall` needs that `us_wake_workers` and the waker come after the table.

**TCS pool.** `PoolInv` says where each TCS is (`Placed`: free, unallocated, bound,
reserved or the utility, in one of them, once) and what is counted (`Counted`: all
ecalls of a thread are on the TCS bound to it, the count of that TCS is their number,
and a TCS bound to nobody has count 0). The last part is why garbage collection, which
looks only at the count, takes no TCS in use, and why the `reset_ref` of a new thread's
TCS changes nothing. `filler = "make"` implies that a TCS is left to make, as the filler
reads the list without the mutex: only it takes from there. The lemmas `BindFree`,
`KeepFree`, `FreeKept`, `BindKept` and `FreeUnallocated` move one TCS from one place to
another; `CountPush` and `CountPop` are `increase_ref` and `decrease_ref`. A TCS whose
binding is refused moves to `lost`. A `pthread_exit` ends all ecalls of its thread, so
that the 0 of `reset_ref` is their number again.

**Lifecycle.** `LifeInv` has `m_ref` as the number of calls on all stacks that hold a
reference (`RefInv`), the read lock of each thread inside (`LockInv`), who holds
`m_enclave_mutex` (`MutexInv`), and the phase of the object (`PhaseInv`): listed; a
zombie that some call still uses; about to be deleted by exactly one thread; or deleted
with no reference left. The phases make deletion happen once, and a use after it
impossible, except by a thread that has no reference yet (`StartInv`, under `Careful`).
`NobodyInside` needs no such hypothesis.

**Places of nodes.** Everything follows from one reading of a place: a number of a
block of 1 + `ATTACHED` nodes and a position in it, 0 for the inner node
(`PlaceOfData`, `PlaceOfMht`), and from the uniqueness of quotient and remainder
(`DivUnique`).

Only model-checked: every liveness property (`EventuallyLocked`,
`SignalledReturns`, `EveryCallReturns`, `EveryCallEnds`, `StopEnds`,
`WaiterGoesOn`, `PoolRefilled`, `DestroyWakesWaiters`, `DestroyEnds`,
`RetryRepairs`, `EveryPthreadCallReturns`), since fairness is beyond the prover;
`ReadsBack`, `CleanIsStored`, `CacheIsTree` and `ImplementsAtomicFile` of the protected
file. These are stated with the way from the root to a node (`Path`) and with what can be
decrypted along it (`Decrypted`), functions defined by recursion over the tree, and the
prover has no induction to unfold them with. Every other safety property that a passing
run checks is proved.

## 7. What is not modelled, and why

- Inside modelled parts: the error return of `cond_wait`, the switchless statistics
  callbacks, UNINIT in the pool, the debugger list and exception dispatch in the
  enclave object. Spinlocks, pthread mutexes and the uRTS readers-writer lock are
  primitives. Memory is taken to be sequentially consistent: bitmaps, events and
  counters are changed by locked instructions, and a delayed store to one of the plain
  flags (`us_wake_workers`, `us_should_stop`, `m_first_ecall`) is seen as a later step
  of its writer.
- The filler thread of the pool exists from the start: it is created with the enclave,
  and an enclave for which that fails is removed again (`urts_com.h:458`).
- Pthread library: an error of the wait ocall itself, a second thread that joins the
  same one, a native thread whose ecall fails, keys and their destructors,
  `pthread_once`, and the wrappers of the locks. After a read of a freed descriptor the
  model follows a wrong wake-up, a missing one and a wrong result; not a fault on a
  pointer that is no longer one, a second `free`, or a wait on the event of another
  thread.
- Protected file: seek and tell, which only move the offset; open modes other than
  those that keep or remove the file; names, key derivation, import and export of
  keys; the buffering of stdio below the ocalls beyond what a failed fflush returns,
  torn node writes, an unchecked `fclose` of the recovery file, what a release build
  does with a cache that is no longer a tree, and reordering by the operating system. A crash loses
  the process, and what was written stays written.
- Planned parts: section 8.
- Outside the reach of these methods or without shared state: image parsing,
  cryptography, sealing and reports, architectural enclaves, simulated
  instructions, the protected code loader, the signing tool and edger8r, the C and
  C++ runtimes, vendored libraries, samples and installers.
- Entry and exit code in assembly, and the instructions themselves, are assumed to
  do what the manual says.

## 8. Plan

Done, the most important behaviour first: events and mutex, condition variable,
readers-writer lock and its lists, switchless calls and workers, TCS pool, lifecycle,
protected files, created threads; and the theorems of section 6.

Next, models:

1. Composition of switchless workers with the lifecycle, for the handle that an
   ecall or ocall in progress still reads when it is freed (`enclave.cpp:123`).
2. Composition of created threads with the pool, so that the native threads of
   `PthreadLib` are those that `CreateThread` and `BindPthread` have reserved a TCS for.
3. Two openers of a protected file, with the locks of `exclusive_file_open`.
4. Trusted runtime: initialization states of enclave and threads, nesting of ecalls
   and ocalls, the list of exception handlers.
5. Reserved memory manager: splitting and merging of regions against a map of pages.
6. Key exchange sessions, AESM queues, the maps of the enclave common loader, the
   undo of a failed load.

Next, proofs:

1. The parts of `CacheIsTree` and `CleanIsStored` of `ProtectedFile` that need no
   recursion: the list of the cache, and the recovery file while the update flag is set.

A new part takes properties that several steps of several actors are needed to
break. Where a stronger property of a composition implies an older one of its
parts, it replaces it.
