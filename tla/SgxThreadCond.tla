--------------------------- MODULE SgxThreadCond ----------------------------
(***************************************************************************)
(* The trusted condition variable of sdk/tlibthread/sethread_cond.cpp,     *)
(* used with the mutex of SgxThreadMutex.                                  *)
(*                                                                         *)
(* cond_wait holds the spinlock of the condition while it queues itself    *)
(* and releases the mutex, so both are one action.  A waiter leaves the    *)
(* loop only when a signal or a broadcast has taken it off the queue; the  *)
(* thread's one untrusted event serves both this loop and the mutex's.     *)
(***************************************************************************)
EXTENDS SgxThreadMutex

VARIABLE c_queue      \* the threads in cond_wait that nobody has signalled

condVars == <<vars, c_queue>>

CondInit == Init /\ c_queue = <<>>

-----------------------------------------------------------------------------

\* cond_wait up to its first OCALL.  With a waiter on the mutex, the OCALL
\* wakes that thread and then waits.
CondWait(t) ==
    /\ pc[t] = "ready" /\ Runs(t)
    /\ c_queue' = Append(c_queue, t)
    /\ Release(t)
    /\ pc' = [pc EXCEPT ![t] = "cwait"]
    /\ IF LazyWaiter = Null THEN OcallWait(t) ELSE OcallSetWait(t, LazyWaiter)

\* The loop of cond_wait: wait again while still queued.
CondRewait(t) ==
    /\ pc[t] = "cwait" /\ Runs(t)
    /\ In(t, c_queue)
    /\ OcallWait(t)
    /\ UNCHANGED <<mutexVars, pc, held, c_queue>>

\* Mutation: every return from the OCALL counts as a signal.
CondLeave_Spurious(t) ==
    /\ pc[t] = "cwait" /\ Runs(t)
    /\ pc' = [pc EXCEPT ![t] = "relock"]
    /\ UNCHANGED <<mutexVars, held, eventVars, c_queue>>

CondLeave(t) ==
    /\ pc[t] = "cwait" /\ Runs(t)
    /\ ~ In(t, c_queue)
    /\ pc' = [pc EXCEPT ![t] = "relock"]
    /\ UNCHANGED <<mutexVars, held, eventVars, c_queue>>

\* The first pass of the mutex_lock that ends cond_wait.
CondRelock(t) ==
    /\ pc[t] = "relock" /\ Runs(t)
    /\ LockPass(t)
    /\ UNCHANGED c_queue

CondSignal(t) ==
    /\ pc[t] = "ready" /\ Runs(t)
    /\ c_queue # <<>>
    /\ c_queue' = Tail(c_queue)
    /\ OcallSet(t, <<Head(c_queue)>>)
    /\ UNCHANGED <<mutexVars, pc, held>>

\* Mutation: broadcast empties the queue but wakes its head only.
CondBroadcast_One(t) ==
    /\ pc[t] = "ready" /\ Runs(t)
    /\ c_queue # <<>>
    /\ c_queue' = <<>>
    /\ OcallSet(t, <<Head(c_queue)>>)
    /\ UNCHANGED <<mutexVars, pc, held>>

\* The call that cannot allocate its array returns ENOMEM and changes nothing.
CondBroadcast(t) ==
    /\ pc[t] = "ready" /\ Runs(t)
    /\ c_queue # <<>>
    /\ c_queue' = <<>>
    /\ OcallSet(t, c_queue)
    /\ UNCHANGED <<mutexVars, pc, held>>

CondStep(t) ==
    \/ CondWait(t)
    \/ CondRewait(t)
    \/ CondLeave(t)
    \/ CondRelock(t)
    \/ CondSignal(t)
    \/ CondBroadcast(t)

\* The client destroys the mutex only while nobody is inside cond_wait.
CondIdle == \A t \in Threads : pc[t] \notin {"cwait", "relock"}

CondNext == \E t \in Threads :
    \/ CondStep(t)
    \/ MutexStep(t) /\ UNCHANGED c_queue
    \/ CondIdle /\ Destroy(t) /\ UNCHANGED c_queue
    \/ MutexInit(t) /\ UNCHANGED c_queue

\* As for the mutex: a thread goes on with the call it is in, and the client
\* releases the mutex.  Nobody has to signal.
CondFairness == \A t \in Threads :
    /\ WF_condVars(OcallStep(t) /\ UNCHANGED c_queue)
    /\ WF_condVars(LockRetry(t) /\ UNCHANGED c_queue)
    /\ WF_condVars(Unlock(t) /\ UNCHANGED c_queue)
    /\ WF_condVars(CondRewait(t))
    /\ WF_condVars(CondLeave(t))
    /\ WF_condVars(CondRelock(t))

CondSpec == CondInit /\ [][CondNext]_condVars

CondFairSpec == CondSpec /\ CondFairness

-----------------------------------------------------------------------------

\* Types, with the control points of cond_wait.
CondTypeOK ==
    /\ EventTypeOK
    /\ MutexTypeOK
    /\ pc \in [Threads -> {"ready", "locking", "cwait", "relock"}]
    /\ c_queue \in Seq(Threads)

\* The two queues share the link m_next of each thread.  A thread is linked at
\* most once over both: in the condition's queue only inside cond_wait, in the
\* mutex's exactly while its lock call waits.
LinkedOnce ==
    /\ CondTypeOK
    /\ QueueIsWaiters
    /\ \A i, j \in 1..Len(c_queue) : c_queue[i] = c_queue[j] => i = j
    /\ \A t \in Threads : In(t, c_queue) => pc[t] = "cwait"

\* A wait, and a lock call that blocks, over its whole length and whoever runs in
\* between.  cond_wait starts by giving up one grant that its caller has.  Until
\* the call returns no step changes the caller's grants.  It returns with exactly
\* one more, whether its lock call took the mutex at once or queued up, slept and
\* passed the loop again: never with EINVAL, because destroy answers EBUSY to a
\* free mutex that still has a waiter on its way.  So a wait hands back the count
\* that it was called with, also in a recursive mutex.
WaitReturnsLocked ==
    [][\A t \in Threads :
           /\ pc[t] = "ready" /\ pc'[t] = "cwait" => held[t] > 0 /\ held'[t] = held[t] - 1
           /\ pc[t] # "ready" /\ pc'[t] # "ready" => held'[t] = held[t]
           /\ pc[t] # "ready" /\ pc'[t] = "ready" => held'[t] = held[t] + 1]_condVars

\* No signal is lost: a thread that signal or broadcast took off the queue is on
\* its way out of the loop, or its wake-up is still to come.
NoLostSignal ==
    \A t \in Threads : pc[t] = "cwait" /\ ~ In(t, c_queue) =>
        \/ ostep[t] \in {"none", "wake", "futexwake"}
        \/ WakeComing(t)
        \/ ostep[t] = "wait" /\ se_event[t] # 0
        \/ ostep[t] = "futexwait" /\ se_event[t] # -1

\* One wake-up per wait: the event of a thread never accumulates wake-ups that
\* belong to an earlier wait.
EventBalanced ==
    \A t \in Threads :
        /\ se_event[t] \in {-1, 0, 1}
        /\ se_event[t] = -1 => ostep[t] \in {"futexwait", "asleep"}
        /\ ostep[t] = "none" => pc[t] # "ready" \/ se_event[t] = 0

\* Where every FUTEX_WAKE follows its atomic add at once, what unlock, lock,
\* cond_wait, signal and broadcast do about the one event of a thread is right: no
\* wake-up is lost for the mutex, none for the condition, and none is left over
\* that would end a later wait.
WakeupsExact == prompt => NoWakeupEverLost /\ NoLostSignal /\ EventBalanced

\* With prompt wakers, a signalled thread returns from cond_wait with the mutex.
\* A nested holder of a recursive mutex keeps it through cond_wait, so this too is
\* about the other kind.
SignalledReturns ==
    \A t \in Threads :
        prompt /\ m_control = "nonrecursive" /\ pc[t] = "cwait" /\ ~ In(t, c_queue) ~> held[t] > 0

=============================================================================
