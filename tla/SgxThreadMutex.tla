--------------------------- MODULE SgxThreadMutex ---------------------------
(***************************************************************************)
(* The trusted mutex of sdk/tlibthread/sethread_mutex.cpp.                 *)
(*                                                                         *)
(* Every critical section of the C code runs under the mutex's spinlock    *)
(* m_lock and so is one action here.  A thread that has to block leaves    *)
(* the spinlock, waits on its untrusted event (module UntrustedEvent) and  *)
(* runs the whole section again when the wait returns, for whatever        *)
(* reason.  unlock wakes the head of the queue after it has left the       *)
(* spinlock, so other threads run between the release and the wake-up.     *)
(*                                                                         *)
(* A call that fails without changing the mutex (EBUSY, EPERM, EINVAL) is  *)
(* a stuttering step, except where it ends a blocked call.                 *)
(***************************************************************************)
EXTENDS UntrustedEvent

CONSTANTS
    Null,             \* SGX_THREAD_T_NULL
    Kinds,            \* the kinds of mutex that the initializers make
    MaxHold           \* bound: how often an owner relocks a recursive mutex

ASSUME MutexAssumption ==
    /\ Null \notin Threads
    /\ Kinds \subseteq {"nonrecursive", "recursive"}
    /\ MaxHold \in Nat \ {0}

VARIABLES
    m_control,        \* the kind of the mutex; "none" once destroyed
    m_owner,
    m_refcount,
    m_queue,          \* the threads that block in lock, first come first
    pc,               \* the blocking call each thread is in; "ready" for none
    held              \* auxiliary: the locks each thread has been granted and
                      \* has not released, by the results its calls returned

mutexVars == <<m_control, m_owner, m_refcount, m_queue>>
vars == <<mutexVars, pc, held, eventVars>>

Controls == {"none", "nonrecursive", "recursive"}

In(t, q) == \E i \in 1..Len(q) : q[i] = t

First(q) == IF q = <<>> THEN Null ELSE q[1]

MutexTypeOK ==
    /\ m_control \in Controls
    /\ m_owner \in Threads \cup {Null}
    /\ m_refcount \in Nat
    /\ m_queue \in Seq(Threads)
    /\ held \in [Threads -> Nat]

Init ==
    /\ EventInit
    /\ m_control \in Kinds
    /\ m_owner = Null
    /\ m_refcount = 0
    /\ m_queue = <<>>
    /\ pc = [t \in Threads |-> "ready"]
    /\ held = [t \in Threads |-> 0]

-----------------------------------------------------------------------------
(* The parts of lock, trylock and unlock_lazy.                             *)

\* A thread runs trusted code when it is not inside an OCALL.
Runs(t) == OcallDone(t)

Valid == m_control # "none"

\* The owner of a recursive mutex may lock it again.
MayRelock(t) == m_control = "recursive" /\ m_owner = t

\* Mutation: the test of m_owner is forgotten.
MayTake_Owned(t) == First(m_queue) \in {t, Null}

\* Mutation: a newcomer takes a free mutex although threads are queued.
MayTake_Barging(t) == m_owner = Null

\* A free mutex goes to the head of the queue, or to anyone if none waits.
MayTake(t) == m_owner = Null /\ First(m_queue) \in {t, Null}

Relock(t) ==
    /\ MayRelock(t)
    /\ m_refcount < MaxHold
    /\ m_refcount' = m_refcount + 1
    /\ held' = [held EXCEPT ![t] = @ + 1]
    /\ UNCHANGED <<m_control, m_owner, m_queue>>

Take(t) ==
    /\ ~ MayRelock(t)
    /\ MayTake(t)
    /\ m_owner' = t
    /\ m_refcount' = m_refcount + 1
    /\ m_queue' = IF First(m_queue) = t THEN Tail(m_queue) ELSE m_queue
    /\ held' = [held EXCEPT ![t] = @ + 1]
    /\ UNCHANGED m_control

\* The tail of lock: queue up once, then leave the spinlock to wait.
Enqueue(t) ==
    /\ ~ MayRelock(t)
    /\ ~ MayTake(t)
    /\ m_queue' = IF In(t, m_queue) THEN m_queue ELSE Append(m_queue, t)
    /\ OcallWait(t)
    /\ UNCHANGED <<m_control, m_owner, m_refcount, held>>

\* unlock_lazy by the owner: the last release frees the mutex.  Its head
\* waiter is LazyWaiter; it stays queued until it takes the mutex itself.
Release(t) ==
    /\ Valid
    /\ m_owner = t
    /\ m_refcount' = m_refcount - 1
    /\ m_owner' = IF m_refcount = 1 THEN Null ELSE m_owner
    /\ held' = [held EXCEPT ![t] = @ - 1]
    /\ UNCHANGED <<m_control, m_queue>>

\* Mutation: unlock forgets the queue.
LazyWaiter_None == Null

\* Mutation: unlock wakes the thread that came last.
LazyWaiter_Last ==
    IF m_refcount = 1 /\ m_queue # <<>> THEN m_queue[Len(m_queue)] ELSE Null

LazyWaiter == IF m_refcount = 1 THEN First(m_queue) ELSE Null

-----------------------------------------------------------------------------
(* The calls.                                                              *)

\* One pass of sgx_thread_mutex_lock's loop, for a thread that calls it
\* (pc "ready") or comes back from its wait (pc "locking").
LockPass(t) ==
    \/ /\ Valid
       /\ Relock(t) \/ Take(t)
       /\ pc' = [pc EXCEPT ![t] = "ready"]
       /\ UNCHANGED eventVars
    \/ /\ Valid
       /\ Enqueue(t)
       /\ pc' = [pc EXCEPT ![t] = "locking"]

\* EINVAL to a thread that had been waiting.
LockInvalid(t) ==
    /\ ~ Valid
    /\ pc[t] = "locking"
    /\ pc' = [pc EXCEPT ![t] = "ready"]
    /\ UNCHANGED <<mutexVars, held, eventVars>>

\* The client does not relock a mutex that it knows is not recursive.
Lock(t) ==
    /\ pc[t] = "ready" /\ Runs(t)
    /\ held[t] = 0 \/ m_control = "recursive"
    /\ LockPass(t)

LockRetry(t) ==
    /\ pc[t] = "locking" /\ Runs(t)
    /\ LockPass(t) \/ LockInvalid(t)

Trylock(t) ==
    /\ pc[t] = "ready" /\ Runs(t)
    /\ Valid
    /\ Relock(t) \/ Take(t)
    /\ UNCHANGED <<pc, eventVars>>

Unlock(t) ==
    /\ pc[t] = "ready" /\ Runs(t)
    /\ Release(t)
    /\ IF LazyWaiter = Null
       THEN UNCHANGED eventVars
       ELSE OcallSet(t, <<LazyWaiter>>)
    /\ UNCHANGED pc

\* Mutation: destroy looks at the owner and not at the queue.
Destroy_Queued(t) ==
    /\ pc[t] = "ready" /\ Runs(t)
    /\ m_owner = Null
    /\ m_control' = "none"
    /\ m_refcount' = 0
    /\ UNCHANGED <<m_owner, m_queue, pc, held, eventVars>>

\* EBUSY while somebody owns the mutex or waits for it.
Destroy(t) ==
    /\ pc[t] = "ready" /\ Runs(t)
    /\ m_owner = Null /\ m_queue = <<>>
    /\ m_control' = "none"
    /\ m_refcount' = 0
    /\ UNCHANGED <<m_owner, m_queue, pc, held, eventVars>>

\* sgx_thread_mutex_init, on a mutex that has been destroyed.
MutexInit(t) ==
    /\ pc[t] = "ready" /\ Runs(t)
    /\ m_control = "none"
    /\ m_control' = "nonrecursive"
    /\ m_refcount' = 0
    /\ m_owner' = Null
    /\ m_queue' = <<>>
    /\ UNCHANGED <<pc, held, eventVars>>

OcallStep(t) ==
    /\ EventStep(t)
    /\ UNCHANGED <<mutexVars, pc, held>>

Interrupted(t) ==
    /\ FutexInterrupted(t)
    /\ UNCHANGED <<mutexVars, pc, held>>

\* What every client of the mutex may do, at any time.
MutexStep(t) ==
    \/ Lock(t)
    \/ LockRetry(t)
    \/ Trylock(t)
    \/ Unlock(t)
    \/ OcallStep(t)
    \/ Interrupted(t)

Next == \E t \in Threads : MutexStep(t) \/ Destroy(t) \/ MutexInit(t)

\* A scheduled thread finishes its OCALL and its lock call; the client
\* releases what it holds.  Nobody has to call lock, and no signal has to come.
Fairness == \A t \in Threads :
    /\ WF_vars(OcallStep(t))
    /\ WF_vars(LockRetry(t))
    /\ WF_vars(Unlock(t))

Spec == Init /\ [][Next]_vars

FairSpec == Spec /\ Fairness

-----------------------------------------------------------------------------
(* Properties.                                                             *)

\* Types of the mutex, the calls and the events.
TypeOK ==
    /\ EventTypeOK
    /\ MutexTypeOK
    /\ pc \in [Threads -> {"ready", "locking"}]

\* Mutual exclusion, by what lock, trylock and unlock have returned: no two
\* threads believe that they hold the mutex.
MutualExclusion ==
    \A t, u \in Threads : held[t] > 0 /\ held[u] > 0 => t = u

\* The bookkeeping of sethread_mutex.cpp agrees with what the callers were
\* told: m_refcount is the number of unreleased grants to m_owner.
OwnerAgrees ==
    \A t \in Threads : held[t] = IF m_owner = t THEN m_refcount ELSE 0

\* The queue holds, once each, exactly the threads whose lock call waits, so
\* m_next is never written for a thread that is already linked.
QueueIsWaiters ==
    /\ \A i, j \in 1..Len(m_queue) : m_queue[i] = m_queue[j] => i = j
    /\ \A t \in Threads : pc[t] = "locking" <=> In(t, m_queue)

Contract == INSTANCE LockContract WITH holds <- held, pending <- m_queue

\* The mutex is a first-come-first-served lock to its callers: with the owner,
\* the events and the queue's wake-ups hidden, it implements LockContract.
ImplementsContract == Contract!ContractSpec

\* Some thread is about to set the event of t.
WakeComing(t) == \E u \in Threads : In(t, otargets[u])

\* No lost wake-up, on any machine: a free mutex with waiters has its head
\* waiter on the way to a new pass of the loop: running, or with an event that
\* lets it through, or with a waker that has yet to set it.
NoWakeupEverLost ==
    (m_owner = Null /\ m_queue # <<>>) =>
        LET w == m_queue[1] IN
            \/ ostep[w] = "none"
            \/ WakeComing(w)
            \/ ostep[w] = "wait" /\ se_event[w] # 0
            \/ ostep[w] = "futexwait" /\ se_event[w] # -1

\* Where every FUTEX_WAKE follows its atomic add at once, every lock call that
\* blocks gets the mutex in the end.  The owner of a recursive mutex may nest for
\* ever, so this is about the other kind.
EventuallyLocked ==
    \A t \in Threads :
        prompt /\ m_control = "nonrecursive" /\ pc[t] = "locking" ~> held[t] > 0

=============================================================================
