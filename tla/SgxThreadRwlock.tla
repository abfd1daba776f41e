-------------------------- MODULE SgxThreadRwlock ---------------------------
(***************************************************************************)
(* The trusted reader/writer lock of sdk/tlibthread/sethread_rwlock.cpp.   *)
(*                                                                         *)
(* As in the mutex, every critical section under the spinlock is one       *)
(* action and a blocked thread waits on its untrusted event between two of *)
(* them.  Here a waiter takes itself off its queue, from wherever it is in *)
(* it, and a thread that arrives while the lock is free does not look at   *)
(* the queues.  Calls that return EBUSY, EPERM or EDEADLK and destroy,     *)
(* which writes nothing, are stuttering steps.                             *)
(***************************************************************************)
EXTENDS UntrustedEvent, FiniteSets

CONSTANTS
    Null,             \* SGX_THREAD_T_NULL
    MaxReads,         \* bound: how many read locks one thread holds at once
    MaxCalls,         \* bound: how many lock calls the threads make
    Memory            \* the values that memory may have

ASSUME RwAssumption ==
    /\ Null \notin Threads
    /\ IsFiniteSet(Threads)
    /\ MaxReads \in Nat \ {0}
    /\ MaxCalls \in Nat \ {0}
    /\ Memory \subseteq BOOLEAN

VARIABLES
    m_reader_count,
    m_owner,
    m_reader_queue,
    m_writer_queue,
    pc,               \* the blocking call each thread is in; "ready" for none
    memory,           \* FALSE: the allocation in wrunlock may fail
    calls,            \* how many lock calls have been made
    readGrants,       \* auxiliary: the read locks granted and not released,
                      \* <<thread, which of its locks>>
    writer            \* auxiliary: the threads told that they have write access

lockVars == <<m_reader_count, m_owner, m_reader_queue, m_writer_queue>>
rwVars == <<lockVars, pc, memory, calls, readGrants, writer, eventVars>>

In(t, q) == \E i \in 1..Len(q) : q[i] = t

\* Mutation: only the head can be removed.
Remove_Head(q, t) == IF q # <<>> /\ q[1] = t THEN Tail(q) ELSE q

\* QUEUE_REMOVE: the first occurrence goes, the others keep their order.
Remove(q, t) ==
    IF ~ In(t, q) THEN q
    ELSE LET k == CHOOSE i \in 1..Len(q) : q[i] = t /\ \A j \in 1..(i - 1) : q[j] # t
         IN  [i \in 1..(Len(q) - 1) |-> IF i < k THEN q[i] ELSE q[i + 1]]

RwInit ==
    /\ EventInit
    /\ m_reader_count = 0
    /\ m_owner = Null
    /\ m_reader_queue = <<>>
    /\ m_writer_queue = <<>>
    /\ pc = [t \in Threads |-> "ready"]
    /\ memory \in Memory
    /\ calls = 0
    /\ readGrants = {}
    /\ writer = {}

-----------------------------------------------------------------------------

Runs(t) == OcallDone(t)

Call(t) ==
    /\ pc[t] = "ready" /\ Runs(t)
    /\ calls < MaxCalls
    /\ calls' = calls + 1

\* The read locks of t that are granted.
Reads(t) == {g \in readGrants : g[1] = t}

GrantRead(t) ==
    /\ m_reader_count' = m_reader_count + 1
    /\ \E n \in 1..MaxReads :
          /\ <<t, n>> \notin readGrants
          /\ \A k \in 1..(n - 1) : <<t, k>> \in readGrants
          /\ readGrants' = readGrants \cup {<<t, n>>}
    /\ UNCHANGED <<m_owner, writer>>

GrantWrite(t) ==
    /\ m_owner' = t
    /\ writer' = writer \cup {t}
    /\ UNCHANGED <<m_reader_count, readGrants>>

ReadFree == m_owner = Null

\* Mutation: a writer ignores the readers.
WriteFree_Readers == m_owner = Null

\* Mutation: a writer ignores the owner.
WriteFree_Owner == m_reader_count = 0

WriteFree == m_owner = Null /\ m_reader_count = 0

\* The client asks for one kind of access at a time: no write lock on top of a
\* read lock (it would wait for itself), no read lock on top of a write lock.

\* rdlock and tryrdlock when no writer owns the lock.
RdlockFree(t) ==
    /\ Call(t)
    /\ t \notin writer
    /\ ReadFree
    /\ GrantRead(t)
    /\ UNCHANGED <<m_reader_queue, m_writer_queue, pc, memory, eventVars>>

\* rdlock otherwise: queue up and leave the spinlock to wait.
RdlockBlock(t) ==
    /\ Call(t)
    /\ t \notin writer
    /\ ~ ReadFree
    /\ m_reader_queue' = Append(m_reader_queue, t)
    /\ pc' = [pc EXCEPT ![t] = "rwait"]
    /\ OcallWait(t)
    /\ UNCHANGED <<m_reader_count, m_owner, m_writer_queue, memory, readGrants, writer>>

\* The loop of rdlock, each time the wait returns.
RdlockRetry(t) ==
    /\ pc[t] = "rwait" /\ Runs(t)
    /\ IF ReadFree
       THEN /\ GrantRead(t)
            /\ m_reader_queue' = Remove(m_reader_queue, t)
            /\ pc' = [pc EXCEPT ![t] = "ready"]
            /\ UNCHANGED <<m_writer_queue, eventVars>>
       ELSE /\ OcallWait(t)
            /\ UNCHANGED <<lockVars, pc, readGrants, writer>>
    /\ UNCHANGED <<memory, calls>>

WrlockFree(t) ==
    /\ Call(t)
    /\ Reads(t) = {}
    /\ WriteFree
    /\ GrantWrite(t)
    /\ UNCHANGED <<m_reader_queue, m_writer_queue, pc, memory, eventVars>>

WrlockBlock(t) ==
    /\ Call(t)
    /\ Reads(t) = {} /\ m_owner # t
    /\ ~ WriteFree
    /\ m_writer_queue' = Append(m_writer_queue, t)
    /\ pc' = [pc EXCEPT ![t] = "wwait"]
    /\ OcallWait(t)
    /\ UNCHANGED <<m_reader_count, m_owner, m_reader_queue, memory, readGrants, writer>>

WrlockRetry(t) ==
    /\ pc[t] = "wwait" /\ Runs(t)
    /\ IF WriteFree
       THEN /\ GrantWrite(t)
            /\ m_writer_queue' = Remove(m_writer_queue, t)
            /\ pc' = [pc EXCEPT ![t] = "ready"]
            /\ UNCHANGED <<m_reader_queue, eventVars>>
       ELSE /\ OcallWait(t)
            /\ UNCHANGED <<lockVars, pc, readGrants, writer>>
    /\ UNCHANGED <<memory, calls>>

\* Wake the threads of q after leaving the spinlock; no OCALL for none.
WakeAfter(t, q) == IF q = <<>> THEN UNCHANGED eventVars ELSE OcallSet(t, q)

\* Mutation: rdunlock and wrunlock forget the queued writers.
FirstOf_None(q) == <<>>

FirstOf(q) == IF q = <<>> THEN <<>> ELSE <<q[1]>>

\* rdunlock.  The code counts readers and does not know them: the client
\* releases a read lock that it holds.
Rdunlock(t) ==
    /\ pc[t] \in {"ready", "unlockr"} /\ Runs(t)
    /\ m_reader_count # 0
    /\ \E g \in Reads(t) : readGrants' = readGrants \ {g}
    /\ m_reader_count' = m_reader_count - 1
    /\ WakeAfter(t, IF m_reader_count = 1 THEN FirstOf(m_writer_queue) ELSE <<>>)
    /\ pc' = [pc EXCEPT ![t] = "ready"]
    /\ UNCHANGED <<m_owner, m_reader_queue, m_writer_queue, memory, calls, writer>>

\* Mutation: with readers and writers queued, only the first writer is woken.
Wrunlock_WriterFirst(t) ==
    /\ pc[t] \in {"ready", "unlockw"} /\ Runs(t)
    /\ m_owner = t
    /\ m_owner' = Null
    /\ writer' = writer \ {t}
    /\ WakeAfter(t, IF m_writer_queue # <<>> THEN FirstOf(m_writer_queue) ELSE m_reader_queue)
    /\ pc' = [pc EXCEPT ![t] = "ready"]
    /\ UNCHANGED <<m_reader_count, m_reader_queue, m_writer_queue, memory, calls,
                   readGrants>>

\* wrunlock: all queued readers are woken, or else the first queued writer.
\* When the array for the readers cannot be allocated nobody is woken.
Wrunlock(t) ==
    /\ pc[t] \in {"ready", "unlockw"} /\ Runs(t)
    /\ m_owner = t
    /\ m_owner' = Null
    /\ writer' = writer \ {t}
    /\ \/ m_reader_queue # <<>> /\ WakeAfter(t, m_reader_queue)
       \/ m_reader_queue # <<>> /\ ~ memory /\ UNCHANGED eventVars
       \/ m_reader_queue = <<>> /\ WakeAfter(t, FirstOf(m_writer_queue))
    /\ pc' = [pc EXCEPT ![t] = "ready"]
    /\ UNCHANGED <<m_reader_count, m_reader_queue, m_writer_queue, memory, calls,
                   readGrants>>

\* sgx_thread_rwlock_unlock by a holder: it looks at the owner without the
\* spinlock and calls one of the two above.
Unlock(t) ==
    /\ pc[t] = "ready" /\ Runs(t)
    /\ t \in writer \/ Reads(t) # {}
    /\ pc' = [pc EXCEPT ![t] = IF m_owner = t THEN "unlockw" ELSE "unlockr"]
    /\ UNCHANGED <<lockVars, memory, calls, readGrants, writer, eventVars>>

OcallStep(t) ==
    /\ EventStep(t)
    /\ UNCHANGED <<lockVars, pc, memory, calls, readGrants, writer>>

Interrupted(t) ==
    /\ FutexInterrupted(t)
    /\ UNCHANGED <<lockVars, pc, memory, calls, readGrants, writer>>

RwNext == \E t \in Threads :
    \/ RdlockFree(t) \/ RdlockBlock(t) \/ RdlockRetry(t)
    \/ WrlockFree(t) \/ WrlockBlock(t) \/ WrlockRetry(t)
    \/ Rdunlock(t) \/ Wrunlock(t) \/ Unlock(t)
    \/ OcallStep(t) \/ Interrupted(t)

\* A scheduled thread goes on with its call, and the client releases its locks.
RwFairness == \A t \in Threads :
    /\ WF_rwVars(OcallStep(t))
    /\ WF_rwVars(RdlockRetry(t))
    /\ WF_rwVars(WrlockRetry(t))
    /\ WF_rwVars(Rdunlock(t))
    /\ WF_rwVars(Wrunlock(t))

RwSpec == RwInit /\ [][RwNext]_rwVars

RwFairSpec == RwSpec /\ RwFairness

-----------------------------------------------------------------------------

\* Types of the lock, the calls and the events.
RwTypeOK ==
    /\ EventTypeOK
    /\ m_reader_count \in Nat
    /\ m_owner \in Threads \cup {Null}
    /\ m_reader_queue \in Seq(Threads)
    /\ m_writer_queue \in Seq(Threads)
    /\ pc \in [Threads -> {"ready", "rwait", "wwait", "unlockr", "unlockw"}]
    /\ memory \in BOOLEAN
    /\ calls \in Nat
    /\ readGrants \subseteq Threads \X (1..MaxReads)
    /\ writer \subseteq Threads

\* Nobody reads or writes beside a writer, by what the calls have returned.
ReadersXorWriter ==
    /\ writer # {} => readGrants = {}
    /\ \A t, u \in writer : t = u

\* m_reader_count counts the read locks out, and m_owner is the writer.
CountAgrees ==
    /\ m_reader_count = Cardinality(readGrants)
    /\ writer = IF m_owner = Null THEN {} ELSE {m_owner}

Once(q) == \A i, j \in 1..Len(q) : q[i] = q[j] => i = j

\* Each queue holds exactly the threads blocked in its call, once each, although
\* waiters leave from the middle and wake-ups come late.
QueuesAreWaiters ==
    /\ Once(m_reader_queue) /\ Once(m_writer_queue)
    /\ \A t \in Threads :
          /\ pc[t] = "rwait" <=> In(t, m_reader_queue)
          /\ pc[t] = "wwait" <=> In(t, m_writer_queue)

\* The unlocked read of m_owner in unlock is never stale when it is acted upon:
\* neither branch can fail with EPERM for a caller that holds a lock.
UnlockChoiceStays ==
    \A t \in Threads :
        /\ pc[t] = "unlockw" => m_owner = t
        /\ pc[t] = "unlockr" => m_reader_count > 0 /\ m_owner = Null

\* The wait of t is over, or something that is under way ends it.
Progresses(t) ==
    \/ ostep[t] = "none"
    \/ \E u \in Threads : In(t, otargets[u])
    \/ ostep[t] = "wait" /\ se_event[t] # 0
    \/ ostep[t] = "futexwait" /\ se_event[t] # -1

\* With memory and prompt wakers, wrunlock and rdunlock wake whom they must: a
\* queued reader is never left behind while no writer owns the lock, and a free
\* lock is never left with writers queued and nobody on the way to it.
NoLostRwWakeup ==
    /\ RwTypeOK
    /\ memory /\ prompt /\ m_owner = Null =>
          \A t \in Threads : In(t, m_reader_queue) => Progresses(t)
    /\ memory /\ prompt /\ m_owner = Null /\ m_reader_count = 0 /\ m_writer_queue # <<>> =>
          \E t \in Threads :
              /\ In(t, m_reader_queue) \/ In(t, m_writer_queue)
              /\ Progresses(t)

\* There, every blocked call returns once the other threads stop coming back
\* (they make MaxCalls calls): starvation is possible, deadlock is not.
EveryCallReturns ==
    \A t \in Threads : memory /\ prompt /\ pc[t] # "ready" ~> pc[t] = "ready"

=============================================================================
