-------------------------- MODULE SgxThreadProofs ---------------------------
(***************************************************************************)
(* Proofs about SgxThreadMutex and SgxThreadCond, for every set of threads *)
(* and either kind of mutex: mutual exclusion, the exact queues, and that  *)
(* the mutex implements LockContract, with and without the condition       *)
(* variable beside it, and that no wake-up is lost or doubled where a      *)
(* futex is woken at once.                                                 *)
(***************************************************************************)
EXTENDS SgxThreadCond, TLAPS

\* A free mutex has no grants, and a destroyed one has no owner and no queue.
FreeAgrees ==
    /\ m_owner = Null <=> m_refcount = 0
    /\ m_control = "none" => m_owner = Null /\ m_queue = <<>>

\* The types, with the control points of all the calls.
CallTypeOK ==
    /\ EventTypeOK
    /\ MutexTypeOK
    /\ pc \in [Threads -> {"ready", "locking", "cwait", "relock"}]

\* The first part of the inductive invariants: who holds the mutex.
OwnerInv == CallTypeOK /\ OwnerAgrees /\ FreeAgrees

-----------------------------------------------------------------------------
(* Events: the steps of an OCALL keep the types of the event variables.    *)

LEMMA EventStepType ==
    ASSUME EventTypeOK, NEW t \in Threads, EventStep(t) \/ FutexInterrupted(t)
    PROVE  EventTypeOK'
<1>1. CASE EventDec(t)
  BY <1>1 DEF EventTypeOK, EventDec, OSteps
<1>2. CASE FutexWait(t)
  BY <1>2, Zenon DEF EventTypeOK, FutexWait, OSteps
<1>3. CASE FutexInterrupted(t)
  BY <1>3, Zenon DEF EventTypeOK, FutexInterrupted, OSteps
<1>4. AfterWake(t) \in OSteps
  BY Zenon DEF AfterWake, OSteps
<1>5. otargets[t] # <<>> => /\ Head(otargets[t]) \in Threads
                            /\ Tail(otargets[t]) \in Seq(Threads)
  BY DEF EventTypeOK
<1>6. CASE EventInc(t)
  <2>1. se_event' \in [Threads -> Int]
    BY <1>5, <1>6 DEF EventTypeOK, EventInc
  <2>4. ostep' \in [Threads -> OSteps]
    BY <1>4, <1>5, <1>6, Zenon DEF EventTypeOK, EventInc, OSteps
  <2>2. otargets' \in [Threads -> Seq(Threads)]
    BY <1>5, <1>6, Zenon DEF EventTypeOK, EventInc
  <2>3. owait' \in [Threads -> BOOLEAN]
    BY <1>6, Zenon DEF EventTypeOK, EventInc
  <2>5. prompt' \in BOOLEAN
    BY <1>6, Zenon DEF EventTypeOK, EventInc
  <2> QED
    BY <2>1, <2>2, <2>3, <2>4, <2>5, Zenon DEF EventTypeOK
<1>7. CASE FutexWake(t)
  BY <1>4, <1>5, <1>7, Zenon DEF EventTypeOK, FutexWake, OSteps
<1>8. CASE EventWakePrompt(t)
  <2>1. se_event' \in [Threads -> Int]
    BY <1>5, <1>8 DEF EventTypeOK, EventWakePrompt
  <2>4. ostep' \in [Threads -> OSteps]
    BY <1>4, <1>5, <1>8, Zenon DEF EventTypeOK, EventWakePrompt, OSteps
  <2>2. otargets' \in [Threads -> Seq(Threads)]
    BY <1>5, <1>8, Zenon DEF EventTypeOK, EventWakePrompt
  <2>3. owait' \in [Threads -> BOOLEAN]
    BY <1>8, Zenon DEF EventTypeOK, EventWakePrompt
  <2>5. prompt' \in BOOLEAN
    BY <1>8, Zenon DEF EventTypeOK, EventWakePrompt
  <2> QED
    BY <2>1, <2>2, <2>3, <2>4, <2>5, Zenon DEF EventTypeOK
<1> QED
  BY <1>1, <1>2, <1>3, <1>6, <1>7, <1>8, Zenon DEF EventStep

LEMMA OcallType ==
    ASSUME EventTypeOK, NEW t \in Threads, NEW q \in Seq(Threads),
           \/ OcallWait(t)
           \/ OcallSet(t, q)
           \/ UNCHANGED eventVars
    PROVE  EventTypeOK'
BY Zenon DEF EventTypeOK, OcallWait, OcallSet, eventVars, OSteps

LEMMA FirstType ==
    ASSUME NEW q \in Seq(Threads)
    PROVE  /\ First(q) = Null \/ First(q) \in Threads
           /\ First(q) = Null <=> q = <<>>
BY MutexAssumption DEF First

LEMMA LazyWaiterType ==
    ASSUME MutexTypeOK
    PROVE  LazyWaiter = Null \/ LazyWaiter \in Threads
BY FirstType, Zenon DEF LazyWaiter, MutexTypeOK

-----------------------------------------------------------------------------
(* The inductive steps, one per action.                                    *)

LEMMA OwnerInit == Init => OwnerInv
BY MutexAssumption, EventAssumption
   DEF Init, EventInit, OwnerInv, CallTypeOK, EventTypeOK, OSteps, MutexTypeOK,
       Controls, OwnerAgrees, FreeAgrees

LEMMA GrantInv ==
    ASSUME OwnerInv, NEW t \in Threads, Valid, Relock(t) \/ Take(t)
    PROVE  MutexTypeOK' /\ OwnerAgrees' /\ FreeAgrees'
<1> USE MutexAssumption DEF OwnerInv, CallTypeOK, MutexTypeOK, OwnerAgrees, FreeAgrees, Valid
<1>1. CASE Relock(t)
  BY <1>1 DEF Relock, MayRelock
<1>2. CASE Take(t)
  <2>1. m_owner = Null /\ m_owner' = t /\ m_refcount' = m_refcount + 1
    BY <1>2, Zenon DEF Take, MayTake
  <2>2. m_queue' \in Seq(Threads)
    BY <1>2 DEF Take, First
  <2>3. held' = [held EXCEPT ![t] = @ + 1] /\ m_control' = m_control
    BY <1>2, Zenon DEF Take
  <2> QED
    BY <2>1, <2>2, <2>3
<1> QED
  BY <1>1, <1>2, Zenon

LEMMA EnqueueInv ==
    ASSUME OwnerInv, NEW t \in Threads, Valid, Enqueue(t)
    PROVE  MutexTypeOK' /\ OwnerAgrees' /\ FreeAgrees'
BY MutexAssumption DEF OwnerInv, CallTypeOK, MutexTypeOK, OwnerAgrees, FreeAgrees,
    Valid, Enqueue

LEMMA ReleaseInv ==
    ASSUME OwnerInv, NEW t \in Threads, Release(t)
    PROVE  MutexTypeOK' /\ OwnerAgrees' /\ FreeAgrees'
<1> USE MutexAssumption DEF OwnerInv, CallTypeOK, MutexTypeOK, OwnerAgrees, FreeAgrees
<1>1. /\ m_owner = t /\ m_refcount > 0 /\ held[t] = m_refcount
      /\ m_refcount' = m_refcount - 1
      /\ m_owner' = IF m_refcount = 1 THEN Null ELSE m_owner
      /\ held' = [held EXCEPT ![t] = @ - 1]
      /\ m_control' = m_control /\ m_queue' = m_queue
      /\ m_control # "none"
  BY DEF Release, Valid
<1> QED
  BY <1>1

LEMMA LockPassInv ==
    ASSUME OwnerInv, NEW t \in Threads, LockPass(t)
    PROVE  OwnerInv'
<1> USE DEF OwnerInv, CallTypeOK
<1>1. CASE Valid /\ (Relock(t) \/ Take(t)) /\ pc' = [pc EXCEPT ![t] = "ready"]
             /\ UNCHANGED eventVars
  <2>1. EventTypeOK'
    BY <1>1, OcallType, Zenon DEF eventVars, EventTypeOK
  <2> QED
    BY <1>1, <2>1, GrantInv, Zenon
<1>2. CASE Valid /\ Enqueue(t) /\ pc' = [pc EXCEPT ![t] = "locking"]
  <2>1. EventTypeOK'
    BY <1>2, Zenon DEF Enqueue, OcallWait, EventTypeOK, OSteps
  <2> QED
    BY <1>2, <2>1, EnqueueInv, Zenon
<1> QED
  BY <1>1, <1>2, Zenon DEF LockPass

LEMMA OwnerActs ==
    ASSUME OwnerInv, NEW t \in Threads, MutexStep(t) \/ Destroy(t) \/ MutexInit(t)
    PROVE  OwnerInv'
<1> USE DEF OwnerInv, CallTypeOK
<1>2. CASE Lock(t)
  BY <1>2, LockPassInv, Zenon DEF Lock
<1>3. CASE LockRetry(t)
  <2>1. CASE LockPass(t)
    BY <2>1, LockPassInv, Zenon
  <2>2. CASE LockInvalid(t)
    BY <2>2, Zenon DEF LockInvalid, mutexVars, eventVars, EventTypeOK, MutexTypeOK,
                OwnerAgrees, FreeAgrees
  <2> QED
    BY <1>3, <2>1, <2>2, Zenon DEF LockRetry
<1>4. CASE Trylock(t)
  <2>1. EventTypeOK'
    BY <1>4, Zenon DEF Trylock, eventVars, EventTypeOK
  <2> QED
    BY <1>4, <2>1, GrantInv, Zenon DEF Trylock
<1>5. CASE Unlock(t)
  <2>1. EventTypeOK'
    <3>1. CASE LazyWaiter = Null
      BY <1>5, <3>1, Zenon DEF Unlock, eventVars, EventTypeOK
    <3>2. CASE LazyWaiter # Null
      <4>1. <<LazyWaiter>> \in Seq(Threads)
        BY <3>2, LazyWaiterType
      <4>2. OcallSet(t, <<LazyWaiter>>)
        BY <1>5, <3>2, Zenon DEF Unlock
      <4> QED
        BY <4>1, <4>2, OcallType, Zenon
    <3> QED
      BY <3>1, <3>2, Zenon
  <2> QED
    BY <1>5, <2>1, ReleaseInv, Zenon DEF Unlock
<1>6. CASE Destroy(t)
  BY <1>6, MutexAssumption, Zenon DEF Destroy, eventVars, EventTypeOK, MutexTypeOK,
      OwnerAgrees, FreeAgrees, Controls
<1>7. CASE MutexInit(t)
  BY <1>7, MutexAssumption, Zenon DEF MutexInit, eventVars, EventTypeOK, MutexTypeOK,
      OwnerAgrees, FreeAgrees, Controls
<1>8. CASE OcallStep(t) \/ Interrupted(t)
  <2>1. EventTypeOK'
    BY <1>8, EventStepType, Zenon DEF OcallStep, Interrupted
  <2> QED
    BY <1>8, <2>1, Zenon DEF OcallStep, Interrupted, mutexVars, MutexTypeOK, OwnerAgrees, FreeAgrees
<1> QED
  BY <1>2, <1>3, <1>4, <1>5, <1>6, <1>7, <1>8, Zenon DEF MutexStep

LEMMA OwnerSame == OwnerInv /\ UNCHANGED vars => OwnerInv'
BY Zenon DEF vars, mutexVars, eventVars, OwnerInv, CallTypeOK, EventTypeOK, MutexTypeOK, OwnerAgrees,
       FreeAgrees

LEMMA OwnerExcludes == OwnerInv => MutualExclusion
<1> SUFFICES ASSUME OwnerInv, NEW t \in Threads, NEW u \in Threads, held[t] > 0, held[u] > 0
             PROVE  t = u
  BY Zenon DEF MutualExclusion
<1>1. m_owner = t /\ m_owner = u
  BY DEF OwnerInv, OwnerAgrees
<1> QED
  BY <1>1, Zenon

\* Without a condition variable, the only call that waits is lock.
LEMMA MutexCalls ==
    TypeOK /\ [Next]_vars => (pc \in [Threads -> {"ready", "locking"}])'
BY Zenon DEF TypeOK, Next, MutexStep, vars, Lock, LockRetry, LockPass, LockInvalid, Trylock, Unlock,
       OcallStep, Interrupted, Destroy, MutexInit

LEMMA OwnerStep == OwnerInv /\ TypeOK /\ [Next]_vars => (OwnerInv /\ TypeOK)'
<1> SUFFICES ASSUME OwnerInv, TypeOK, [Next]_vars
             PROVE  OwnerInv' /\ TypeOK'
  BY Zenon
<1>1. OwnerInv'
  BY OwnerActs, OwnerSame, Zenon DEF Next
<1> QED
  BY <1>1, MutexCalls, Zenon DEF OwnerInv, CallTypeOK, TypeOK

\* The types, and that the owner and the count in the mutex always agree with
\* what lock, trylock and unlock have returned to their callers.
THEOREM OwnerInvariant == Spec => [](TypeOK /\ OwnerAgrees)
<1>1. Init => OwnerInv /\ TypeOK
  BY OwnerInit, Zenon DEF OwnerInv, CallTypeOK, TypeOK, Init
<1>2. OwnerInv /\ TypeOK => TypeOK /\ OwnerAgrees
  BY Zenon DEF OwnerInv
<1> QED
  BY <1>1, <1>2, OwnerStep, PTL DEF Spec

\* Mutual exclusion for any number of threads, whatever the events do.
THEOREM Exclusion == Spec => []MutualExclusion
<1>1. Init => OwnerInv /\ TypeOK
  BY OwnerInit, Zenon DEF OwnerInv, CallTypeOK, TypeOK, Init
<1> QED
  BY <1>1, OwnerStep, OwnerExcludes, PTL DEF Spec

-----------------------------------------------------------------------------
(* The queue of the mutex.                                                 *)

\* A thread whose lock call waits does not own the mutex: a relock by the owner
\* never blocks, because clients do not relock a mutex that is not recursive.
WaiterNotOwner == \A t \in Threads : pc[t] = "locking" => m_owner # t

\* The inductive invariant: who holds the mutex, and who waits for it.
MutexInv == OwnerInv /\ QueueIsWaiters /\ WaiterNotOwner

Distinct(q) == \A i, j \in 1..Len(q) : q[i] = q[j] => i = j

-----------------------------------------------------------------------------
(* Facts about queues.                                                     *)

LEMMA AppendIn ==
    ASSUME NEW q \in Seq(Threads), NEW t \in Threads, NEW u \in Threads
    PROVE  In(u, Append(q, t)) <=> In(u, q) \/ u = t
<1>1. /\ Len(Append(q, t)) = Len(q) + 1
      /\ \A i \in 1..Len(q) : Append(q, t)[i] = q[i]
      /\ Append(q, t)[Len(q) + 1] = t
  OBVIOUS
<1>2. Len(q) \in Nat
  OBVIOUS
<1> QED
  BY <1>1, <1>2 DEF In

LEMMA AppendDistinct ==
    ASSUME NEW q \in Seq(Threads), NEW t \in Threads, Distinct(q), ~ In(t, q)
    PROVE  Distinct(Append(q, t))
<1>1. /\ Len(Append(q, t)) = Len(q) + 1
      /\ \A i \in 1..Len(q) : Append(q, t)[i] = q[i]
      /\ Append(q, t)[Len(q) + 1] = t
  OBVIOUS
<1>2. Len(q) \in Nat
  OBVIOUS
<1> QED
  BY <1>1, <1>2 DEF In, Distinct

LEMMA TailIn ==
    ASSUME NEW q \in Seq(Threads), q # <<>>, Distinct(q), NEW u \in Threads
    PROVE  In(u, Tail(q)) <=> In(u, q) /\ u # q[1]
<1>1. /\ Len(q) \in Nat \ {0}
      /\ Len(Tail(q)) = Len(q) - 1
      /\ \A i \in 1..Len(Tail(q)) : Tail(q)[i] = q[i + 1]
  OBVIOUS
<1>2. ASSUME In(u, Tail(q))
      PROVE  In(u, q) /\ u # q[1]
  <2>1. PICK i \in 1..Len(Tail(q)) : Tail(q)[i] = u
    BY <1>2, Zenon DEF In
  <2>2. i + 1 \in 1..Len(q) /\ q[i + 1] = u /\ i + 1 # 1 /\ 1 \in 1..Len(q)
    BY <1>1, <2>1
  <2> QED
    BY <2>2, Zenon DEF In, Distinct
<1>3. ASSUME In(u, q), u # q[1]
      PROVE  In(u, Tail(q))
  <2>1. PICK i \in 1..Len(q) : q[i] = u
    BY <1>3, Zenon DEF In
  <2>2. i - 1 \in 1..Len(Tail(q)) /\ Tail(q)[i - 1] = u
    BY <1>1, <1>3, <2>1
  <2> QED
    BY <2>2, Zenon DEF In
<1> QED
  BY <1>2, <1>3, Zenon

LEMMA TailDistinct ==
    ASSUME NEW q \in Seq(Threads), q # <<>>, Distinct(q)
    PROVE  Distinct(Tail(q))
<1>1. /\ Len(q) \in Nat \ {0}
      /\ Len(Tail(q)) = Len(q) - 1
      /\ \A i \in 1..Len(Tail(q)) : Tail(q)[i] = q[i + 1]
  OBVIOUS
<1> QED
  BY <1>1 DEF Distinct

LEMMA FirstIn ==
    ASSUME NEW q \in Seq(Threads), NEW t \in Threads, First(q) = t
    PROVE  q # <<>> /\ q[1] = t /\ In(t, q)
<1>1. q # <<>> /\ q[1] = t
  BY MutexAssumption, Zenon DEF First
<1>2. 1 \in 1..Len(q)
  BY <1>1
<1> QED
  BY <1>1, <1>2, Zenon DEF In

-----------------------------------------------------------------------------
(* The inductive steps.  Only the passes of lock and trylock change the     *)
(* queue or the calls that wait.                                           *)

LEMMA QueueInit == Init => MutexInv
BY OwnerInit, MutexAssumption
   DEF Init, MutexInv, QueueIsWaiters, WaiterNotOwner, In

\* A thread that takes the mutex without waiting finds the queue empty; one that
\* waited is the head and leaves the queue.
LEMMA TakeQueue ==
    ASSUME MutexInv, NEW t \in Threads, Take(t), pc' = [pc EXCEPT ![t] = "ready"]
    PROVE  QueueIsWaiters' /\ WaiterNotOwner'
<1> USE DEF MutexInv, OwnerInv, CallTypeOK, MutexTypeOK
<1>1. Distinct(m_queue) /\ \A u \in Threads : pc[u] = "locking" <=> In(u, m_queue)
  BY Zenon DEF QueueIsWaiters, Distinct
<1>2. m_owner' = t /\ pc'[t] = "ready" /\ \A u \in Threads \ {t} : pc'[u] = pc[u]
  BY Zenon DEF Take
<1>3. Distinct(m_queue') /\ \A u \in Threads : In(u, m_queue') <=> In(u, m_queue) /\ u # t
  <2>1. CASE First(m_queue) = t
    <3>1. m_queue # <<>> /\ m_queue[1] = t /\ m_queue' = Tail(m_queue)
      BY <2>1, FirstIn, Zenon DEF Take
    <3> QED
      BY <1>1, <3>1, TailIn, TailDistinct, Zenon
  <2>2. CASE First(m_queue) # t
    <3>1. m_queue = <<>> /\ m_queue' = m_queue
      BY <2>2, FirstType, Zenon DEF Take, MayTake
    <3> QED
      BY <1>1, <3>1 DEF In
  <2> QED
    BY <2>1, <2>2, Zenon
<1>4. \A u \in Threads : pc'[u] = "locking" <=> In(u, m_queue')
  BY <1>1, <1>2, <1>3, Zenon
<1>5. WaiterNotOwner'
  BY <1>2, Zenon DEF WaiterNotOwner
<1> QED
  BY <1>3, <1>4, <1>5, Zenon DEF QueueIsWaiters, Distinct

\* A relock by the owner, who does not wait.
LEMMA RelockQueue ==
    ASSUME MutexInv, NEW t \in Threads, Relock(t), pc' = [pc EXCEPT ![t] = "ready"]
    PROVE  QueueIsWaiters' /\ WaiterNotOwner'
<1> USE DEF MutexInv, OwnerInv, CallTypeOK
<1>1. m_owner = t /\ m_owner' = t /\ m_queue' = m_queue /\ pc[t] # "locking"
  BY Zenon DEF Relock, MayRelock, WaiterNotOwner
<1>2. \A u \in Threads : pc'[u] = "locking" <=> pc[u] = "locking"
  BY <1>1, Zenon
<1> QED
  BY <1>1, <1>2 DEF QueueIsWaiters, WaiterNotOwner, In

\* A thread that has to wait is in the queue once, and is not the owner.
LEMMA EnqueueQueue ==
    ASSUME MutexInv, NEW t \in Threads, Enqueue(t), pc' = [pc EXCEPT ![t] = "locking"],
           pc[t] = "locking" \/ held[t] = 0 \/ m_control = "recursive"
    PROVE  QueueIsWaiters' /\ WaiterNotOwner'
<1> USE DEF MutexInv, OwnerInv, CallTypeOK, MutexTypeOK
<1>1. Distinct(m_queue) /\ \A u \in Threads : pc[u] = "locking" <=> In(u, m_queue)
  BY Zenon DEF QueueIsWaiters, Distinct
<1>2. m_owner # t /\ m_owner' = m_owner
  BY MutexAssumption, Zenon DEF Enqueue, MayRelock, WaiterNotOwner, OwnerAgrees, FreeAgrees
<1>3. pc'[t] = "locking" /\ \A u \in Threads \ {t} : pc'[u] = pc[u]
  BY Zenon
<1>4. Distinct(m_queue') /\ \A u \in Threads : In(u, m_queue') <=> In(u, m_queue) \/ u = t
  <2>1. CASE In(t, m_queue)
    BY <1>1, <2>1, Zenon DEF Enqueue
  <2>2. CASE ~ In(t, m_queue)
    BY <1>1, <2>2, AppendIn, AppendDistinct, Zenon DEF Enqueue
  <2> QED
    BY <2>1, <2>2, Zenon
<1>5. \A u \in Threads : pc'[u] = "locking" <=> In(u, m_queue')
  BY <1>1, <1>3, <1>4, Zenon
<1>6. WaiterNotOwner'
  BY <1>2, <1>3, Zenon DEF WaiterNotOwner
<1> QED
  BY <1>4, <1>5, <1>6, Zenon DEF QueueIsWaiters, Distinct

LEMMA LockPassQueue ==
    ASSUME MutexInv, NEW t \in Threads, LockPass(t),
           pc[t] = "locking" \/ held[t] = 0 \/ m_control = "recursive"
    PROVE  QueueIsWaiters' /\ WaiterNotOwner'
<1>1. CASE Take(t) /\ pc' = [pc EXCEPT ![t] = "ready"]
  BY <1>1, TakeQueue, Zenon
<1>2. CASE Relock(t) /\ pc' = [pc EXCEPT ![t] = "ready"]
  BY <1>2, RelockQueue, Zenon
<1>3. CASE Enqueue(t) /\ pc' = [pc EXCEPT ![t] = "locking"]
  BY <1>3, EnqueueQueue, Zenon
<1> QED
  BY <1>1, <1>2, <1>3, Zenon DEF LockPass

\* A release frees the mutex or leaves it with its owner.
LEMMA ReleaseQueue ==
    ASSUME MutexInv, NEW t \in Threads, Release(t), pc[t] # "locking",
           \A u \in Threads : pc'[u] = "locking" <=> pc[u] = "locking"
    PROVE  QueueIsWaiters' /\ WaiterNotOwner'
<1>1. m_queue' = m_queue /\ m_owner' \in {m_owner, Null}
  BY Zenon DEF Release
<1> QED
  BY <1>1, MutexAssumption DEF MutexInv, QueueIsWaiters, WaiterNotOwner, In

LEMMA NoLockInvalid ==
    ASSUME MutexInv, NEW t \in Threads
    PROVE  ~ LockInvalid(t)
BY DEF MutexInv, LockInvalid, Valid, OwnerInv, FreeAgrees, QueueIsWaiters, In

LEMMA QueueSame ==
    MutexInv /\ UNCHANGED <<m_queue, m_owner, pc>> => QueueIsWaiters' /\ WaiterNotOwner'
BY DEF MutexInv, QueueIsWaiters, WaiterNotOwner, In

LEMMA QueueActs ==
    ASSUME MutexInv, NEW t \in Threads, MutexStep(t) \/ Destroy(t) \/ MutexInit(t)
    PROVE  MutexInv'
<1> SUFFICES QueueIsWaiters' /\ WaiterNotOwner'
  BY OwnerActs DEF MutexInv
<1>1. CASE Lock(t)
  BY <1>1, LockPassQueue DEF Lock
<1>2. CASE LockRetry(t)
  BY <1>2, NoLockInvalid, LockPassQueue DEF LockRetry
<1>3. CASE Trylock(t)
  <2>1. pc' = [pc EXCEPT ![t] = "ready"]
    BY <1>3 DEF Trylock, MutexInv, OwnerInv, CallTypeOK
  <2> QED
    BY <1>3, <2>1, TakeQueue, RelockQueue, Zenon DEF Trylock
<1>4. CASE Unlock(t)
  BY <1>4, ReleaseQueue DEF Unlock
<1>5. CASE MutexInit(t)
  BY <1>5, QueueSame DEF MutexInit, MutexInv, OwnerInv, FreeAgrees
<1>6. CASE Destroy(t) \/ OcallStep(t) \/ Interrupted(t)
  BY <1>6, QueueSame DEF Destroy, OcallStep, Interrupted, mutexVars
<1> QED
  BY <1>1, <1>2, <1>3, <1>4, <1>5, <1>6 DEF MutexStep

LEMMA QueueStep == MutexInv /\ [Next]_vars => MutexInv'
<1>1. MutexInv /\ UNCHANGED vars => MutexInv'
  BY OwnerSame, QueueSame DEF MutexInv, vars, mutexVars
<1> QED
  BY <1>1, QueueActs DEF Next

\* The queue of the mutex holds exactly the threads whose lock call waits, once
\* each, whenever and for whatever reason their waits return.
THEOREM QueueExact == Spec => []QueueIsWaiters
<1>1. MutexInv => QueueIsWaiters
  BY DEF MutexInv
<1> QED
  BY QueueInit, QueueStep, <1>1, PTL DEF Spec

-----------------------------------------------------------------------------
(* Refinement of LockContract.                                             *)

LEMMA FreeIsFree ==
    ASSUME OwnerInv
    PROVE  Contract!Free <=> m_owner = Null
BY MutexAssumption DEF Contract!Free, OwnerInv, CallTypeOK, MutexTypeOK, OwnerAgrees, FreeAgrees

LEMMA TakeGrants ==
    ASSUME MutexInv, NEW t \in Threads, Take(t)
    PROVE  Contract!Grant(t)
<1> USE DEF MutexInv, OwnerInv, CallTypeOK, MutexTypeOK
<1>1. m_owner = Null /\ Contract!Free
  BY FreeIsFree DEF Take, MayTake
<1>2. held[t] = 0
  BY <1>1, MutexAssumption DEF OwnerAgrees
<1>3. held' = [held EXCEPT ![t] = 1]
  BY <1>2 DEF Take
<1>4. \/ m_queue = <<>> /\ m_queue' = m_queue
      \/ m_queue # <<>> /\ Head(m_queue) = t /\ m_queue' = Tail(m_queue)
  <2>1. CASE First(m_queue) = t
    BY <2>1, FirstIn DEF Take
  <2>2. CASE First(m_queue) # t
    BY <2>2, FirstType DEF Take, MayTake
  <2> QED
    BY <2>1, <2>2
<1> QED
  BY <1>1, <1>3, <1>4 DEF Contract!Grant

LEMMA RelockGrantsAgain ==
    ASSUME MutexInv, NEW t \in Threads, Relock(t)
    PROVE  Contract!GrantAgain(t)
<1>1. held[t] > 0
  BY MutexAssumption DEF MutexInv, OwnerInv, CallTypeOK, MutexTypeOK, OwnerAgrees, FreeAgrees,
      Relock, MayRelock
<1> QED
  BY <1>1 DEF Relock, Contract!GrantAgain

LEMMA EnqueueBlocks ==
    ASSUME MutexInv, NEW t \in Threads, Enqueue(t)
    PROVE  Contract!Block(t) \/ UNCHANGED <<held, m_queue>>
<1> USE DEF MutexInv, OwnerInv, CallTypeOK, MutexTypeOK
<1>1. CASE In(t, m_queue)
  BY <1>1 DEF Enqueue
<1>2. CASE ~ In(t, m_queue)
  <2>1. ~ Contract!Free \/ m_queue # <<>>
    BY FreeIsFree, FirstType DEF Enqueue, MayTake
  <2> QED
    BY <1>2, <2>1 DEF Enqueue, In, Contract!Block
<1> QED
  BY <1>1, <1>2

LEMMA ReleaseGivesBack ==
    ASSUME MutexInv, NEW t \in Threads, Release(t)
    PROVE  Contract!GiveBack(t)
<1>1. held[t] > 0
  BY MutexAssumption DEF MutexInv, OwnerInv, CallTypeOK, MutexTypeOK, OwnerAgrees, FreeAgrees,
      Release
<1> QED
  BY <1>1 DEF Release, Contract!GiveBack

LEMMA ContractParts ==
    ASSUME MutexInv, NEW t \in Threads, Relock(t) \/ Take(t) \/ Enqueue(t) \/ Release(t)
    PROVE  Contract!ContractNext \/ UNCHANGED <<held, m_queue>>
BY TakeGrants, RelockGrantsAgain, EnqueueBlocks, ReleaseGivesBack DEF Contract!ContractNext

LEMMA ContractActs ==
    ASSUME MutexInv, NEW t \in Threads, MutexStep(t) \/ Destroy(t) \/ MutexInit(t)
    PROVE  Contract!ContractNext \/ UNCHANGED <<held, m_queue>>
<1>1. CASE Lock(t) \/ LockRetry(t) \/ Trylock(t) \/ Unlock(t)
  BY <1>1, ContractParts
     DEF Lock, LockRetry, LockPass, LockInvalid, Trylock, Unlock, mutexVars
<1>2. CASE MutexInit(t)
  BY <1>2 DEF MutexInit, MutexInv, OwnerInv, FreeAgrees
<1>3. CASE Destroy(t) \/ OcallStep(t) \/ Interrupted(t)
  BY <1>3 DEF Destroy, OcallStep, Interrupted, mutexVars
<1> QED
  BY <1>1, <1>2, <1>3 DEF MutexStep

LEMMA ContractStep ==
    MutexInv /\ [Next]_vars => [Contract!ContractNext]_(Contract!contractVars)
BY ContractActs DEF Next, vars, mutexVars, Contract!contractVars

\* The mutex implements LockContract: to its callers it is a lock with one holder
\* that serves blocked calls in the order of their arrival and ends them only by
\* granting the lock, whatever the untrusted events do.
THEOREM MutexImplementsContract == Spec => ImplementsContract
<1>1. Init => Contract!ContractInit
  BY DEF Init, Contract!ContractInit
<1> QED
  BY <1>1, QueueInit, QueueStep, ContractStep, PTL
     DEF Spec, ImplementsContract, Contract!ContractSpec

-----------------------------------------------------------------------------
(* The condition variable beside the mutex.                                *)

\* What a thread in cond_wait has given up: the only grant of a mutex that is not
\* recursive.
WaiterGaveUp ==
    /\ m_control = "nonrecursive" => m_refcount <= 1
    /\ \A t \in Threads :
           pc[t] \in {"cwait", "relock"} /\ m_control = "nonrecursive" => m_owner # t

\* The threads in the queue of the condition are in cond_wait, once each.
CondQueueInv ==
    /\ c_queue \in Seq(Threads)
    /\ Distinct(c_queue)
    /\ \A t \in Threads : In(t, c_queue) => pc[t] = "cwait"

\* The inductive invariant of the mutex and the condition together.
CondInv == MutexInv /\ WaiterGaveUp /\ CondQueueInv

LEMMA CondFirst == CondInit => CondInv
BY QueueInit DEF CondInit, Init, CondInv, WaiterGaveUp, CondQueueInv, Distinct, In

LEMMA CondSame ==
    CondQueueInv /\ c_queue' = c_queue /\ (\A t \in Threads : pc[t] = "cwait" => pc'[t] = "cwait")
        => CondQueueInv'
BY DEF CondQueueInv, In

\* A pass of lock's loop keeps what the threads in cond_wait have given up.
LEMMA LockPassCond ==
    ASSUME CondInv, NEW t \in Threads, LockPass(t), pc[t] # "cwait", c_queue' = c_queue
    PROVE  WaiterGaveUp' /\ CondQueueInv'
<1> USE DEF CondInv, MutexInv, OwnerInv, CallTypeOK, MutexTypeOK
<1>1. PICK f \in {"ready", "locking"} : pc' = [pc EXCEPT ![t] = f]
  BY DEF LockPass
<1>2. CondQueueInv'
  BY <1>1, CondSame
<1>3. \A u \in Threads : pc'[u] \in {"cwait", "relock"} => pc[u] \in {"cwait", "relock"} /\ u # t
  BY <1>1
<1>4. CASE Relock(t)
  BY <1>2, <1>3, <1>4 DEF WaiterGaveUp, Relock, MayRelock
<1>5. CASE Take(t)
  <2>1. m_refcount = 0 /\ m_refcount' = 1 /\ m_owner' = t /\ m_control' = m_control
    BY <1>5 DEF Take, MayTake, FreeAgrees
  <2> QED
    BY <1>2, <1>3, <2>1 DEF WaiterGaveUp
<1>6. CASE Enqueue(t)
  BY <1>2, <1>3, <1>6 DEF WaiterGaveUp, Enqueue
<1> QED
  BY <1>4, <1>5, <1>6 DEF LockPass

\* A release of a mutex that is not recursive gives it up.
LEMMA ReleaseCond ==
    ASSUME CondInv, NEW t \in Threads, Release(t),
           \A u \in Threads \ {t} : pc'[u] = pc[u]
    PROVE  WaiterGaveUp'
<1> USE DEF CondInv, MutexInv, OwnerInv, CallTypeOK, MutexTypeOK
<1>1. m_owner = t /\ m_refcount # 0 /\ m_control' = m_control
      /\ m_refcount' = m_refcount - 1 /\ m_owner' = IF m_refcount = 1 THEN Null ELSE m_owner
  BY MutexAssumption DEF Release, FreeAgrees
<1>2. CASE m_control = "nonrecursive"
  <2>1. m_refcount = 1
    BY <1>1, <1>2 DEF WaiterGaveUp
  <2> QED
    BY <1>1, <2>1, MutexAssumption DEF WaiterGaveUp
<1>3. CASE m_control # "nonrecursive"
  BY <1>1, <1>3 DEF WaiterGaveUp
<1> QED
  BY <1>2, <1>3

\* The steps of the mutex, which leave the queue of the condition alone.
LEMMA CondMutexActs ==
    ASSUME CondInv, NEW t \in Threads, MutexStep(t) \/ Destroy(t) \/ MutexInit(t),
           c_queue' = c_queue
    PROVE  CondInv'
<1> SUFFICES WaiterGaveUp' /\ CondQueueInv'
  BY QueueActs DEF CondInv
<1>1. CASE Lock(t) \/ LockRetry(t)
  BY <1>1, LockPassCond, NoLockInvalid DEF Lock, LockRetry, CondInv
<1>2. CASE Trylock(t)
  <2>1. LockPass(t) /\ pc[t] # "cwait"
    <3>1. pc' = [pc EXCEPT ![t] = "ready"]
      BY <1>2 DEF Trylock, CondInv, MutexInv, OwnerInv, CallTypeOK
    <3> QED
      BY <1>2, <3>1, Zenon DEF Trylock, LockPass
  <2> QED
    BY <2>1, LockPassCond
<1>3. CASE Unlock(t)
  BY <1>3, ReleaseCond, CondSame DEF Unlock, CondInv
<1>4. CASE MutexInit(t) \/ Destroy(t)
  <2>1. m_owner' = Null /\ m_refcount' = 0 /\ pc' = pc
    BY <1>4 DEF MutexInit, Destroy
  <2> QED
    BY <2>1, CondSame, MutexAssumption DEF CondInv, WaiterGaveUp
<1>5. CASE OcallStep(t) \/ Interrupted(t)
  BY <1>5, CondSame DEF OcallStep, Interrupted, CondInv, WaiterGaveUp, mutexVars
<1> QED
  BY <1>1, <1>2, <1>3, <1>4, <1>5 DEF MutexStep

\* cond_wait queues the caller, which is not queued, and releases the mutex.
LEMMA CondWaitStep ==
    ASSUME CondInv, NEW t \in Threads, CondWait(t)
    PROVE  CondInv'
<1> USE DEF CondInv, MutexInv
<1>1. /\ pc[t] = "ready" /\ Release(t) /\ pc' = [pc EXCEPT ![t] = "cwait"]
      /\ c_queue' = Append(c_queue, t)
  BY DEF CondWait
<1>2. pc'[t] = "cwait" /\ \A u \in Threads \ {t} : pc'[u] = pc[u]
  BY <1>1 DEF OwnerInv, CallTypeOK
<1>3. MutexTypeOK' /\ OwnerAgrees' /\ FreeAgrees'
  BY <1>1, ReleaseInv
<1>4. EventTypeOK'
  <2>1. EventTypeOK /\ (LazyWaiter # Null => LazyWaiter \in Threads)
    BY LazyWaiterType DEF OwnerInv, CallTypeOK
  <2>2. CASE OcallWait(t)
    BY <2>1, <2>2 DEF OcallWait, EventTypeOK, OSteps
  <2>3. CASE LazyWaiter # Null /\ OcallSetWait(t, LazyWaiter)
    BY <2>1, <2>3 DEF OcallSetWait, EventTypeOK, OSteps
  <2> QED
    BY <2>2, <2>3 DEF CondWait
<1>5. (pc \in [Threads -> {"ready", "locking", "cwait", "relock"}])'
  BY <1>1 DEF OwnerInv, CallTypeOK
<1>6. QueueIsWaiters' /\ WaiterNotOwner'
  BY <1>1, <1>2, ReleaseQueue
<1>7. WaiterGaveUp'
  BY <1>1, <1>2, ReleaseCond
<1>8. ~ In(t, c_queue) /\ c_queue \in Seq(Threads) /\ Distinct(c_queue)
  BY <1>1 DEF CondQueueInv
<1>9. c_queue' \in Seq(Threads) /\ Distinct(c_queue')
  BY <1>1, <1>8, AppendDistinct
<1>10. \A u \in Threads : In(u, c_queue') => In(u, c_queue) \/ u = t
  BY <1>1, <1>8, AppendIn
<1>11. CondQueueInv'
  BY <1>2, <1>9, <1>10 DEF CondQueueInv
<1> QED
  BY <1>3, <1>4, <1>5, <1>6, <1>7, <1>11 DEF OwnerInv, CallTypeOK

\* A thread in the loop of cond_wait, which leaves it only when it is off the queue.
LEMMA CondLoopStep ==
    ASSUME CondInv, NEW t \in Threads, CondRewait(t) \/ CondLeave(t)
    PROVE  CondInv'
<1> USE DEF CondInv, MutexInv, OwnerInv, CallTypeOK
<1>1. /\ pc[t] = "cwait" /\ UNCHANGED <<mutexVars, held, c_queue>>
      /\ pc' = pc \/ (pc' = [pc EXCEPT ![t] = "relock"] /\ ~ In(t, c_queue))
      /\ OcallWait(t) \/ UNCHANGED eventVars
  BY DEF CondRewait, CondLeave
<1>2. EventTypeOK'
  BY <1>1, Zenon DEF OcallWait, eventVars, EventTypeOK, OSteps
<1>3. /\ MutexTypeOK' /\ OwnerAgrees' /\ FreeAgrees'
      /\ (pc \in [Threads -> {"ready", "locking", "cwait", "relock"}])'
  BY <1>1 DEF mutexVars, MutexTypeOK, OwnerAgrees, FreeAgrees
<1>4. \A u \in Threads : /\ pc'[u] = "locking" <=> pc[u] = "locking"
                         /\ pc'[u] \in {"cwait", "relock"} <=> pc[u] \in {"cwait", "relock"}
                         /\ In(u, c_queue) => (pc'[u] = "cwait" <=> pc[u] = "cwait")
  BY <1>1
<1>5. QueueIsWaiters' /\ WaiterNotOwner'
  BY <1>1, <1>4 DEF mutexVars, QueueIsWaiters, WaiterNotOwner, In
<1>6. WaiterGaveUp'
  BY <1>1, <1>4 DEF mutexVars, WaiterGaveUp
<1>7. CondQueueInv'
  BY <1>1, <1>4 DEF CondQueueInv, In
<1> QED
  BY <1>2, <1>3, <1>5, <1>6, <1>7

\* The mutex_lock at the end of cond_wait.
LEMMA CondRelockStep ==
    ASSUME CondInv, NEW t \in Threads, CondRelock(t)
    PROVE  CondInv'
<1> USE DEF CondInv, MutexInv
<1>1. pc[t] = "relock" /\ LockPass(t) /\ c_queue' = c_queue
  BY DEF CondRelock
<1>2. held[t] = 0 \/ m_control = "recursive"
  <2>1. m_control # "none"
    BY <1>1 DEF LockPass, Valid
  <2>2. m_control = "nonrecursive" => m_owner # t
    BY <1>1 DEF WaiterGaveUp
  <2> QED
    BY <2>1, <2>2 DEF OwnerInv, CallTypeOK, MutexTypeOK, Controls, OwnerAgrees
<1>3. OwnerInv'
  BY <1>1, LockPassInv
<1>4. QueueIsWaiters' /\ WaiterNotOwner'
  BY <1>1, <1>2, LockPassQueue
<1> QED
  BY <1>1, <1>3, <1>4, LockPassCond

\* signal takes the head off the queue, broadcast all.
LEMMA CondWakeStep ==
    ASSUME CondInv, NEW t \in Threads, CondSignal(t) \/ CondBroadcast(t)
    PROVE  CondInv'
<1> USE DEF CondInv, MutexInv, OwnerInv, CallTypeOK
<1>1. c_queue \in Seq(Threads) /\ c_queue # <<>> /\ Distinct(c_queue)
  BY DEF CondSignal, CondBroadcast, CondQueueInv
<1>2. PICK w \in Seq(Threads) : OcallSet(t, w)
  <2>1. <<Head(c_queue)>> \in Seq(Threads)
    BY <1>1
  <2> QED
    BY <1>1, <2>1, Zenon DEF CondSignal, CondBroadcast
<1>3. UNCHANGED <<mutexVars, pc, held>> /\ c_queue' \in {<<>>, Tail(c_queue)}
  BY DEF CondSignal, CondBroadcast
<1>4. EventTypeOK'
  BY <1>2, OcallType
<1>5. /\ MutexTypeOK' /\ OwnerAgrees' /\ FreeAgrees' /\ QueueIsWaiters' /\ WaiterNotOwner'
      /\ WaiterGaveUp'
      /\ (pc \in [Threads -> {"ready", "locking", "cwait", "relock"}])'
  BY <1>3 DEF mutexVars, MutexTypeOK, OwnerAgrees, FreeAgrees, QueueIsWaiters, WaiterNotOwner,
      WaiterGaveUp, In
<1>6. CondQueueInv'
  <2>1. CASE c_queue' = <<>>
    BY <2>1 DEF CondQueueInv, Distinct, In
  <2>2. CASE c_queue' = Tail(c_queue)
    <3>1. c_queue' \in Seq(Threads) /\ Distinct(c_queue')
      BY <1>1, <2>2, TailDistinct
    <3>2. \A u \in Threads : In(u, c_queue') => In(u, c_queue)
      BY <1>1, <2>2, TailIn
    <3> QED
      BY <1>3, <3>1, <3>2 DEF CondQueueInv
  <2> QED
    BY <1>3, <2>1, <2>2
<1> QED
  BY <1>4, <1>5, <1>6

LEMMA CondInvStep == CondInv /\ [CondNext]_condVars => CondInv'
<1> SUFFICES ASSUME CondInv, [CondNext]_condVars
             PROVE  CondInv'
  OBVIOUS
<1>1. CASE UNCHANGED condVars
  <2>1. MutexInv'
    BY <1>1, OwnerSame, QueueSame DEF CondInv, MutexInv, condVars, vars, mutexVars
  <2> QED
    BY <1>1, <2>1, CondSame DEF CondInv, WaiterGaveUp, condVars, vars, mutexVars
<1>2. ASSUME NEW t \in Threads, CondStep(t)
      PROVE  CondInv'
  BY <1>2, CondWaitStep, CondLoopStep, CondRelockStep, CondWakeStep DEF CondStep
<1> QED
  BY <1>1, <1>2, CondMutexActs DEF CondNext

LEMMA CondAlways == CondSpec => []CondInv
BY CondFirst, CondInvStep, PTL DEF CondSpec

\* Mutual exclusion between threads that lock, unlock, wait, signal and broadcast.
THEOREM CondExclusion == CondSpec => []MutualExclusion
<1>1. CondInv => MutualExclusion
  BY OwnerExcludes DEF CondInv, MutexInv
<1> QED
  BY CondAlways, <1>1, PTL

\* cond_wait, signal, broadcast and the mutex: the one link m_next of a thread is
\* never in two queues, nor twice in one.
THEOREM LinksAreSingle == CondSpec => []LinkedOnce
<1>1. CondInv => LinkedOnce
  BY DEF CondInv, MutexInv, OwnerInv, CallTypeOK, CondQueueInv, Distinct, LinkedOnce, CondTypeOK
<1> QED
  BY CondAlways, <1>1, PTL

\* Beside the condition variable too, the mutex is a first-come-first-served lock:
\* cond_wait gives it back once and ends with a grant like any other.
THEOREM CondImplementsContract == CondSpec => ImplementsContract
<1>1. CondInit => Contract!ContractInit
  BY DEF CondInit, Init, Contract!ContractInit
<1>2. CondInv /\ [CondNext]_condVars => [Contract!ContractNext]_(Contract!contractVars)
  <2> SUFFICES ASSUME CondInv, [CondNext]_condVars
               PROVE  Contract!ContractNext \/ UNCHANGED <<held, m_queue>>
    BY DEF Contract!contractVars
  <2> USE DEF CondInv
  <2>1. CASE UNCHANGED condVars
    BY <2>1 DEF condVars, vars, mutexVars
  <2>2. ASSUME NEW t \in Threads, CondWait(t) \/ CondRelock(t)
        PROVE  Contract!ContractNext \/ UNCHANGED <<held, m_queue>>
    BY <2>2, ContractParts DEF CondWait, CondRelock, LockPass
  <2>3. ASSUME NEW t \in Threads, CondRewait(t) \/ CondLeave(t) \/ CondSignal(t) \/ CondBroadcast(t)
        PROVE  UNCHANGED <<held, m_queue>>
    BY <2>3 DEF CondRewait, CondLeave, CondSignal, CondBroadcast, mutexVars
  <2> QED
    BY <2>1, <2>2, <2>3, ContractActs DEF CondNext, CondStep
<1> QED
  BY <1>1, <1>2, CondAlways, PTL DEF CondSpec, ImplementsContract, Contract!ContractSpec

\* What one step may do to a thread t in a blocking call: as in WaitReturnsLocked.
CallKeepsCount(t) ==
    /\ pc[t] = "ready" /\ pc'[t] = "cwait" => held[t] > 0 /\ held'[t] = held[t] - 1
    /\ pc[t] # "ready" /\ pc'[t] # "ready" => held'[t] = held[t]
    /\ pc[t] # "ready" /\ pc'[t] = "ready" => held'[t] = held[t] + 1

\* A pass of lock's loop either ends the call with a grant or leaves it blocked
\* without one.
LEMMA PassGrants ==
    ASSUME CondInv, NEW t \in Threads, LockPass(t)
    PROVE  \/ pc'[t] = "ready" /\ held'[t] = held[t] + 1
           \/ pc'[t] = "locking" /\ held'[t] = held[t]
<1> USE DEF CondInv, MutexInv, OwnerInv, CallTypeOK, MutexTypeOK
<1>1. CASE Relock(t) /\ pc' = [pc EXCEPT ![t] = "ready"]
  BY <1>1 DEF Relock
<1>2. CASE Take(t) /\ pc' = [pc EXCEPT ![t] = "ready"]
  BY <1>2 DEF Take
<1>3. CASE Enqueue(t) /\ pc' = [pc EXCEPT ![t] = "locking"]
  BY <1>3 DEF Enqueue
<1> QED
  BY <1>1, <1>2, <1>3 DEF LockPass

\* The steps of another thread change neither the call nor the grants of t.
LEMMA OthersKeepCount ==
    ASSUME CondInv, NEW t \in Threads, NEW u \in Threads, u # t,
           CondStep(u) \/ MutexStep(u) \/ Destroy(u) \/ MutexInit(u)
    PROVE  pc'[t] = pc[t] /\ held'[t] = held[t]
<1> USE DEF CondInv, MutexInv, OwnerInv, CallTypeOK, MutexTypeOK
<1>1. ASSUME LockPass(u) \/ LockInvalid(u)
      PROVE  pc'[t] = pc[t] /\ held'[t] = held[t]
  BY <1>1 DEF LockPass, LockInvalid, Relock, Take, Enqueue
<1>2. ASSUME CondStep(u)
      PROVE  pc'[t] = pc[t] /\ held'[t] = held[t]
  BY <1>1, <1>2 DEF CondStep, CondWait, Release, CondRewait, CondLeave, CondRelock, CondSignal,
      CondBroadcast
<1>3. ASSUME MutexStep(u)
      PROVE  pc'[t] = pc[t] /\ held'[t] = held[t]
  BY <1>1, <1>3 DEF MutexStep, Lock, LockRetry, Trylock, Relock, Take, Unlock, Release,
      OcallStep, Interrupted
<1>4. ASSUME Destroy(u) \/ MutexInit(u)
      PROVE  pc'[t] = pc[t] /\ held'[t] = held[t]
  BY <1>4 DEF Destroy, MutexInit
<1> QED
  BY <1>2, <1>3, <1>4

\* cond_wait, also one that finds the mutex taken when it comes back and queues up
\* for it, returns with the grants that it was called with; and no lock call that
\* blocks ever ends without one, because destroy refuses a mutex with a queue.
THEOREM WaitGivesUpAndRegains == CondSpec => WaitReturnsLocked
<1>1. ASSUME CondInv, CondNext, NEW t \in Threads
      PROVE  CallKeepsCount(t)
  <2> USE DEF CallKeepsCount
  <2>1. ASSUME NEW u \in Threads, u # t, CondStep(u) \/ MutexStep(u) \/ Destroy(u) \/ MutexInit(u)
        PROVE  CallKeepsCount(t)
    BY <1>1, <2>1, OthersKeepCount
  <2>2. CASE CondWait(t)
    <3>1. pc'[t] = "cwait" /\ pc[t] = "ready" /\ m_owner = t /\ held'[t] = held[t] - 1
      BY <1>1, <2>2 DEF CondWait, Release, CondInv, MutexInv, OwnerInv, CallTypeOK, MutexTypeOK
    <3>2. held[t] > 0
      BY <1>1, <3>1, MutexAssumption
         DEF OwnerAgrees, FreeAgrees, CondInv, MutexInv, OwnerInv, CallTypeOK, MutexTypeOK
    <3> QED
      BY <3>1, <3>2
  <2>3. CASE CondRelock(t)
    BY <1>1, <2>3, PassGrants DEF CondRelock
  <2>4. CASE CondRewait(t) \/ CondLeave(t) \/ CondSignal(t) \/ CondBroadcast(t)
    BY <1>1, <2>4 DEF CondRewait, CondLeave, CondSignal, CondBroadcast, CondInv, MutexInv,
        OwnerInv, CallTypeOK
  <2>5. CASE Lock(t)
    BY <1>1, <2>5, PassGrants DEF Lock
  <2>6. CASE LockRetry(t)
    BY <1>1, <2>6, PassGrants, NoLockInvalid DEF LockRetry, CondInv
  <2>7. CASE Trylock(t) \/ Unlock(t) \/ Destroy(t) \/ MutexInit(t)
    BY <1>1, <2>7 DEF Trylock, Unlock, Destroy, MutexInit
  <2>8. CASE OcallStep(t) \/ Interrupted(t)
    BY <1>1, <2>8 DEF OcallStep, Interrupted
  <2> QED
    BY <1>1, <2>1, <2>2, <2>3, <2>4, <2>5, <2>6, <2>7, <2>8 DEF CondNext, CondStep, MutexStep
<1>2. CondInv /\ [CondNext]_condVars => [\A t \in Threads : CallKeepsCount(t)]_condVars
  BY <1>1
<1>3. [][\A t \in Threads : CallKeepsCount(t)]_condVars => WaitReturnsLocked
  BY PTL DEF WaitReturnsLocked, CallKeepsCount
<1> QED
  BY <1>2, <1>3, CondAlways, PTL DEF CondSpec

-----------------------------------------------------------------------------
(* Wake-ups, where every FUTEX_WAKE follows its atomic add at once.        *)

\* The waits that are over as far as the mutex and the condition go: the head of
\* the queue of a free mutex, and a thread taken off the queue of the condition.
Entitled(t) ==
    \/ pc[t] = "locking" /\ m_owner = Null /\ First(m_queue) = t
    \/ pc[t] = "cwait" /\ ~ In(t, c_queue)

\* A wait whose wake-up has not reached the event, and one whose wake-up has.
Unwoken(t) ==
    \/ pc[t] = "cwait" /\ ostep[t] = "wake" /\ owait[t] /\ se_event[t] = 0
    \/ ostep[t] = "wait" /\ se_event[t] = 0
    \/ ostep[t] \in {"futexwait", "asleep"} /\ se_event[t] = -1
Woken(t) ==
    \/ pc[t] = "cwait" /\ ostep[t] = "wake" /\ owait[t] /\ se_event[t] = 1
    \/ ostep[t] = "wait" /\ se_event[t] = 1
    \/ ostep[t] \in {"futexwait", "none"} /\ se_event[t] = 0

\* A thread outside lock and cond_wait has an event in its first state.
Awake(t) == ostep[t] \in {"none", "wake"} /\ ~ owait[t] /\ se_event[t] = 0

\* Every wait gets one wake-up, and gets it exactly when it is entitled to it.
OneWakeup(t) ==
    \/ pc[t] \in {"ready", "relock"} /\ Awake(t) /\ ~ WakeComing(t)
    \/ pc[t] \in {"locking", "cwait"} /\ Unwoken(t) /\ (WakeComing(t) <=> Entitled(t))
    \/ pc[t] \in {"locking", "cwait"} /\ Woken(t) /\ Entitled(t) /\ ~ WakeComing(t)

\* Who is about to wake whom: nobody twice, and nobody itself.
TargetsOf(t) ==
    /\ ostep[t] = "wake" <=> otargets[t] # <<>>
    /\ owait[t] => ostep[t] \in {"wake", "wait"}
    /\ ~ In(t, otargets[t])
    /\ Distinct(otargets[t])
    /\ \A u, v \in Threads : In(t, otargets[u]) /\ In(t, otargets[v]) => u = v

WakeInv == prompt => \A t \in Threads : OneWakeup(t) /\ TargetsOf(t)

LEMMA RunningFacts ==
    ASSUME CondInv, WakeInv, prompt, NEW t \in Threads, Runs(t)
    PROVE  /\ se_event[t] = 0 /\ ~ owait[t] /\ otargets[t] = <<>> /\ ~ WakeComing(t)
           /\ pc[t] \in {"locking", "cwait"} => Entitled(t)
BY DEF WakeInv, Runs, OcallDone, OneWakeup, TargetsOf, Awake, Woken, Unwoken

\* A thread that a step does not touch.
LEMMA UntouchedWakeup ==
    ASSUME NEW u \in Threads, OneWakeup(u),
           pc'[u] = pc[u], ostep'[u] = ostep[u], owait'[u] = owait[u],
           se_event'[u] = se_event[u],
           WakeComing(u)' <=> WakeComing(u), Entitled(u)' <=> Entitled(u)
    PROVE  OneWakeup(u)'
BY DEF OneWakeup, Awake, Unwoken, Woken

\* A step that starts no wake-up.
LEMMA SameTargets ==
    ASSUME NEW u \in Threads, TargetsOf(u), otargets' = otargets,
           ostep'[u] = "wake" <=> ostep[u] = "wake",
           owait'[u] => ostep'[u] \in {"wake", "wait"}
    PROVE  TargetsOf(u)' /\ (WakeComing(u)' <=> WakeComing(u))
BY DEF TargetsOf, WakeComing, In, Distinct

\* A step of a running thread t that starts the wake-ups of the threads in q.
LEMMA NewTargets ==
    ASSUME CondInv, WakeInv, prompt, NEW t \in Threads, Runs(t),
           NEW q \in Seq(Threads), q # <<>>, Distinct(q),
           \A w \in Threads : In(w, q) => w # t /\ ~ WakeComing(w),
           otargets' = [otargets EXCEPT ![t] = q], ostep' = [ostep EXCEPT ![t] = "wake"],
           \A v \in Threads \ {t} : owait'[v] = owait[v],
           NEW u \in Threads
    PROVE  TargetsOf(u)' /\ (WakeComing(u)' <=> WakeComing(u) \/ In(u, q))
<1>1. /\ otargets'[t] = q /\ ostep'[t] = "wake"
      /\ \A v \in Threads \ {t} : otargets'[v] = otargets[v] /\ ostep'[v] = ostep[v]
  BY DEF CondInv, MutexInv, OwnerInv, CallTypeOK, EventTypeOK
<1>2. otargets[t] = <<>> /\ ~ In(u, otargets[t])
  BY RunningFacts DEF In
<1>3. TargetsOf(u)
  BY DEF WakeInv
<1>4. WakeComing(u)' <=> WakeComing(u) \/ In(u, q)
  BY <1>1, <1>2 DEF WakeComing
<1>5. ~ In(u, otargets'[u]) /\ Distinct(otargets'[u])
  BY <1>1, <1>3 DEF TargetsOf
<1>6. ASSUME NEW v \in Threads, NEW w \in Threads, In(u, otargets'[v]), In(u, otargets'[w])
      PROVE  v = w
  <2>1. CASE In(u, q)
    BY <1>1, <1>6, <2>1 DEF WakeComing
  <2>2. CASE ~ In(u, q)
    BY <1>1, <1>3, <1>6, <2>2 DEF TargetsOf
  <2> QED
    BY <2>1, <2>2
<1> QED
  BY <1>1, <1>3, <1>4, <1>5, <1>6 DEF TargetsOf

LEMMA WakeupsOf ==
    ASSUME prompt, WakeInv, NEW t \in Threads
    PROVE  OneWakeup(t) /\ TargetsOf(t)
BY DEF WakeInv

\* A grant: nobody is entitled to the mutex but the thread that gets it.
LEMMA GrantWakeups ==
    ASSUME CondInv, WakeInv, prompt, NEW t \in Threads, Runs(t), Relock(t) \/ Take(t),
           pc[t] # "cwait", pc' = [pc EXCEPT ![t] = "ready"], UNCHANGED <<eventVars, c_queue>>,
           NEW u \in Threads
    PROVE  OneWakeup(u)' /\ TargetsOf(u)'
<1> USE DEF CondInv, MutexInv, OwnerInv, CallTypeOK, MutexTypeOK
<1>1. pc'[t] = "ready" /\ \A v \in Threads \ {t} : pc'[v] = pc[v]
  BY SMTT(30)
<1>2. TargetsOf(u)' /\ (WakeComing(u)' <=> WakeComing(u))
  BY WakeupsOf, SameTargets, SMTT(30) DEF eventVars, TargetsOf
<1>3. CASE u = t
  BY <1>1, <1>2, <1>3, RunningFacts DEF eventVars, OneWakeup, Awake, Runs, OcallDone
<1>4. CASE u # t
  <2>1. m_owner' = t /\ m_owner \in {t, Null} /\ (m_owner = Null => First(m_queue) # u)
    BY <1>4, MutexAssumption DEF Relock, Take, MayRelock, MayTake
  <2>2. Entitled(u)' <=> Entitled(u)
    BY <1>1, <1>4, <2>1, MutexAssumption DEF Entitled
  <2> QED
    BY <1>1, <1>2, <1>4, <2>2, WakeupsOf, UntouchedWakeup DEF eventVars
<1> QED
  BY <1>3, <1>4

\* A thread starts to wait for the mutex; it is entitled to nothing yet.  With
\* exact wake-ups nobody comes back from a wait in vain.
LEMMA EnqueueWakeups ==
    ASSUME CondInv, WakeInv, prompt, NEW t \in Threads, Runs(t), Enqueue(t),
           pc[t] # "cwait", pc' = [pc EXCEPT ![t] = "locking"], c_queue' = c_queue,
           NEW u \in Threads
    PROVE  OneWakeup(u)' /\ TargetsOf(u)'
<1> USE DEF CondInv, MutexInv, OwnerInv, CallTypeOK, MutexTypeOK
<1>1. /\ pc'[t] = "locking" /\ ostep'[t] = "wait"
      /\ \A v \in Threads \ {t} : pc'[v] = pc[v] /\ ostep'[v] = ostep[v]
      /\ UNCHANGED <<se_event, otargets, owait, m_owner>>
  BY DEF Enqueue, OcallWait, EventTypeOK
<1>2. /\ se_event[t] = 0 /\ ~ owait[t] /\ otargets[t] = <<>> /\ ~ WakeComing(t)
      /\ ostep[t] = "none" /\ pc[t] # "locking"
  BY RunningFacts, SMTT(30) DEF Entitled, Enqueue, MayTake, Runs, OcallDone
<1>3. m_queue' = Append(m_queue, t)
  BY <1>2 DEF Enqueue, QueueIsWaiters
<1>4. m_owner = Null => First(m_queue') = First(m_queue) /\ First(m_queue) # t
  <2>1. m_queue # <<>> => First(m_queue') = First(m_queue)
    BY <1>3, SMTT(30) DEF First
  <2> QED
    BY <2>1, FirstType DEF Enqueue, MayTake
<1>5. TargetsOf(u)' /\ (WakeComing(u)' <=> WakeComing(u))
  BY <1>1, <1>2, WakeupsOf, SameTargets, ZenonT(40) DEF TargetsOf
<1>6. CASE u = t
  <2>1. ~ Entitled(u)'
    BY <1>1, <1>4, <1>6, SMTT(30) DEF Entitled
  <2> QED
    BY <1>1, <1>2, <1>5, <1>6, <2>1, Zenon DEF OneWakeup, Unwoken
<1>7. CASE u # t
  <2>1. Entitled(u)' <=> Entitled(u)
    BY <1>1, <1>4, <1>7 DEF Entitled
  <2> QED
    BY <1>1, <1>5, <1>7, <2>1, WakeupsOf, UntouchedWakeup, ZenonT(40)
<1> QED
  BY <1>6, <1>7

\* Whom a release entitles: the head of the queue, when it frees the mutex.
LEMMA ReleaseEntitles ==
    ASSUME CondInv, NEW t \in Threads, Release(t), pc[t] = "ready"
    PROVE  /\ LazyWaiter # Null => /\ LazyWaiter \in Threads \ {t} /\ pc[LazyWaiter] = "locking"
                                  /\ m_owner' = Null /\ First(m_queue') = LazyWaiter
           /\ LazyWaiter = Null => m_owner' = t \/ First(m_queue') = Null
           /\ m_owner = t /\ m_queue' = m_queue
<1> USE DEF CondInv, MutexInv, OwnerInv, CallTypeOK, MutexTypeOK
<1>1. m_owner = t /\ m_queue' = m_queue /\ m_owner' = IF m_refcount = 1 THEN Null ELSE m_owner
  BY DEF Release
<1>2. ASSUME LazyWaiter # Null
      PROVE  /\ LazyWaiter \in Threads \ {t} /\ pc[LazyWaiter] = "locking"
             /\ m_owner' = Null /\ First(m_queue') = LazyWaiter
  <2>1. m_refcount = 1 /\ LazyWaiter = First(m_queue) /\ LazyWaiter \in Threads
    BY <1>2, LazyWaiterType DEF LazyWaiter
  <2>2. pc[LazyWaiter] = "locking"
    BY <2>1, FirstIn DEF QueueIsWaiters
  <2> QED
    BY <1>1, <2>1, <2>2
<1>3. LazyWaiter = Null => m_owner' = t \/ First(m_queue') = Null
  BY <1>1 DEF LazyWaiter
<1> QED
  BY <1>1, <1>2, <1>3

\* Another thread, when t releases the mutex and wakes the head of its queue.
LEMMA ReleaseOther ==
    ASSUME CondInv, WakeInv, prompt, NEW t \in Threads, Release(t), pc[t] = "ready",
           NEW u \in Threads, u # t,
           pc'[u] = pc[u], ostep'[u] = ostep[u], owait'[u] = owait[u],
           se_event'[u] = se_event[u], In(u, c_queue') <=> In(u, c_queue),
           WakeComing(u)' <=> WakeComing(u) \/ u = LazyWaiter
    PROVE  OneWakeup(u)'
<1> USE DEF CondInv, MutexInv, OwnerInv, CallTypeOK, MutexTypeOK
<1>1. OneWakeup(u)
  BY WakeupsOf, SMTT(30)
<1>2. CASE u = LazyWaiter
  <2>1. pc[u] = "locking" /\ m_owner' = Null /\ First(m_queue') = u /\ m_owner = t
    BY <1>2, ReleaseEntitles, MutexAssumption
  <2>2. Entitled(u)' /\ ~ Entitled(u)
    BY <2>1, MutexAssumption, SMTT(30) DEF Entitled
  <2> QED
    BY <1>1, <1>2, <2>1, <2>2 DEF OneWakeup, Unwoken
<1>3. CASE u # LazyWaiter
  <2>1. m_owner = t /\ (m_owner' = Null => First(m_queue') # u)
    BY <1>3, ReleaseEntitles, MutexAssumption
  <2>2. Entitled(u)' <=> Entitled(u)
    BY <2>1, MutexAssumption DEF Entitled
  <2> QED
    BY <1>1, <1>3, <2>2, UntouchedWakeup, SMTT(30)
<1> QED
  BY <1>2, <1>3

\* The OCALL that wakes LazyWaiter.
LEMMA LazyTargets ==
    ASSUME CondInv, WakeInv, prompt, NEW t \in Threads, Runs(t), Release(t), pc[t] = "ready",
           LazyWaiter # Null,
           otargets' = [otargets EXCEPT ![t] = <<LazyWaiter>>],
           ostep' = [ostep EXCEPT ![t] = "wake"],
           \A v \in Threads \ {t} : owait'[v] = owait[v],
           NEW u \in Threads
    PROVE  TargetsOf(u)' /\ (WakeComing(u)' <=> WakeComing(u) \/ u = LazyWaiter)
<1>1. LazyWaiter \in Threads \ {t} /\ pc[LazyWaiter] = "locking" /\ m_owner = t
  BY ReleaseEntitles
<1>2. ~ WakeComing(LazyWaiter)
  <2>1. ~ Entitled(LazyWaiter)
    BY <1>1, MutexAssumption DEF Entitled
  <2> QED
    BY <1>1, <2>1, WakeupsOf DEF OneWakeup
<1>3. PICK q \in Seq(Threads) : q = <<LazyWaiter>>
  <2>1. PICK w \in Threads : w = LazyWaiter
    BY <1>1
  <2>2. <<w>> \in Seq(Threads)
    OBVIOUS
  <2> QED
    BY <2>1, <2>2, Zenon
<1>4. q # <<>> /\ Distinct(q) /\ \A w \in Threads : In(w, q) <=> w = LazyWaiter
  BY <1>3 DEF Distinct, In
<1>5. otargets' = [otargets EXCEPT ![t] = q]
  BY <1>3
<1> QED
  BY <1>1, <1>2, <1>4, <1>5, NewTargets, ZenonT(40)

LEMMA UnlockWakeups ==
    ASSUME CondInv, WakeInv, prompt, NEW t \in Threads, Unlock(t), c_queue' = c_queue,
           NEW u \in Threads
    PROVE  OneWakeup(u)' /\ TargetsOf(u)'
<1>1. pc[t] = "ready" /\ Runs(t) /\ Release(t) /\ pc' = pc
  BY DEF Unlock
<1>2. /\ se_event' = se_event /\ owait' = owait
      /\ ostep'[t] \in {"none", "wake"}
      /\ \A v \in Threads \ {t} : ostep'[v] = ostep[v]
      /\ TargetsOf(u)' /\ (WakeComing(u)' <=> WakeComing(u) \/ u = LazyWaiter)
  <2>1. CASE LazyWaiter = Null
    <3>1. UNCHANGED eventVars /\ u # LazyWaiter
      BY <2>1, MutexAssumption DEF Unlock
    <3> QED
      BY <1>1, <3>1, WakeupsOf, SameTargets DEF eventVars, TargetsOf, Runs, OcallDone
  <2>2. CASE LazyWaiter # Null
    <3>1. OcallSet(t, <<LazyWaiter>>)
      BY <2>2 DEF Unlock
    <3>2. TargetsOf(u)' /\ (WakeComing(u)' <=> WakeComing(u) \/ u = LazyWaiter)
      BY <1>1, <2>2, <3>1, LazyTargets, Zenon DEF OcallSet
    <3> QED
      BY <1>1, <3>1, <3>2 DEF OcallSet, CondInv, MutexInv, OwnerInv, CallTypeOK, EventTypeOK
  <2> QED
    BY <2>1, <2>2, SMTT(30)
<1>3. CASE u = t
  <2>1. u # LazyWaiter
    BY <1>1, <1>3, ReleaseEntitles, MutexAssumption
  <2> QED
    BY <1>1, <1>2, <1>3, <2>1, RunningFacts DEF OneWakeup, Awake
<1>4. CASE u # t
  BY <1>1, <1>2, <1>4, ReleaseOther
<1> QED
  BY <1>2, <1>3, <1>4

LEMMA CondWaitWakeups ==
    ASSUME CondInv, WakeInv, prompt, NEW t \in Threads, CondWait(t), NEW u \in Threads
    PROVE  OneWakeup(u)' /\ TargetsOf(u)'
<1>1. /\ pc[t] = "ready" /\ Runs(t) /\ Release(t) /\ c_queue' = Append(c_queue, t)
      /\ pc'[t] = "cwait" /\ \A v \in Threads \ {t} : pc'[v] = pc[v]
  BY DEF CondWait, CondInv, MutexInv, OwnerInv, CallTypeOK
<1>2. In(t, c_queue') /\ (u # t => (In(u, c_queue') <=> In(u, c_queue)))
  BY <1>1, AppendIn DEF CondInv, CondQueueInv
<1>3. /\ se_event' = se_event
      /\ (ostep'[t] = "wake" /\ owait'[t]) \/ ostep'[t] = "wait"
      /\ \A v \in Threads \ {t} : ostep'[v] = ostep[v] /\ owait'[v] = owait[v]
      /\ TargetsOf(u)' /\ (WakeComing(u)' <=> WakeComing(u) \/ u = LazyWaiter)
  <2>1. CASE LazyWaiter = Null
    <3>1. OcallWait(t) /\ u # LazyWaiter
      BY <2>1, MutexAssumption DEF CondWait
    <3>2. /\ ostep'[t] = "wait" /\ \A v \in Threads \ {t} : ostep'[v] = ostep[v]
          /\ UNCHANGED <<se_event, otargets, owait>> /\ ostep[t] = "none"
      BY <1>1, <3>1
         DEF OcallWait, Runs, OcallDone, CondInv, MutexInv, OwnerInv, CallTypeOK, EventTypeOK
    <3>3. TargetsOf(u)' /\ (WakeComing(u)' <=> WakeComing(u))
      BY <3>2, WakeupsOf, SameTargets, Zenon DEF TargetsOf
    <3> QED
      BY <3>1, <3>2, <3>3
  <2>2. CASE LazyWaiter # Null
    <3>1. OcallSetWait(t, LazyWaiter)
      BY <2>2 DEF CondWait
    <3>2. /\ ostep'[t] = "wake" /\ owait'[t]
          /\ \A v \in Threads \ {t} : ostep'[v] = ostep[v] /\ owait'[v] = owait[v]
          /\ se_event' = se_event
      BY <3>1, SMTT(30) DEF OcallSetWait, CondInv, MutexInv, OwnerInv, CallTypeOK, EventTypeOK
    <3>3. TargetsOf(u)' /\ (WakeComing(u)' <=> WakeComing(u) \/ u = LazyWaiter)
      BY <1>1, <2>2, <3>1, <3>2, LazyTargets, Zenon DEF OcallSetWait
    <3> QED
      BY <3>2, <3>3
  <2> QED
    BY <2>1, <2>2
<1>4. CASE u = t
  <2>1. u # LazyWaiter /\ ~ WakeComing(t) /\ se_event[t] = 0
    BY <1>1, <1>4, ReleaseEntitles, RunningFacts, MutexAssumption
  <2>2. ~ Entitled(u)'
    BY <1>1, <1>2, <1>4 DEF Entitled
  <2> QED
    BY <1>1, <1>3, <1>4, <2>1, <2>2, Zenon DEF OneWakeup, Unwoken
<1>5. CASE u # t
  BY <1>1, <1>2, <1>3, <1>5, ReleaseOther
<1> QED
  BY <1>3, <1>4, <1>5

\* With exact wake-ups nobody comes back from cond_wait without a signal.
LEMMA CondLoopWakeups ==
    ASSUME CondInv, WakeInv, prompt, NEW t \in Threads, CondRewait(t) \/ CondLeave(t),
           NEW u \in Threads
    PROVE  OneWakeup(u)' /\ TargetsOf(u)'
<1>1. Runs(t) /\ pc[t] = "cwait"
  BY DEF CondRewait, CondLeave
<1>2. ~ In(t, c_queue)
  BY <1>1, RunningFacts DEF Entitled
<1>3. /\ pc'[t] = "relock" /\ \A v \in Threads \ {t} : pc'[v] = pc[v]
      /\ UNCHANGED <<mutexVars, eventVars, c_queue>>
  BY <1>2, SMTT(30) DEF CondRewait, CondLeave, CondInv, MutexInv, OwnerInv, CallTypeOK
<1>4. TargetsOf(u)' /\ (WakeComing(u)' <=> WakeComing(u))
  BY <1>3, WakeupsOf, SameTargets, SMTT(30) DEF eventVars, TargetsOf
<1>5. CASE u = t
  <2>1. se_event[t] = 0 /\ ~ owait[t] /\ ~ WakeComing(t)
    BY <1>1, RunningFacts
  <2>2. ostep'[t] = "none" /\ se_event'[t] = 0 /\ owait'[t] = owait[t]
    BY <1>1, <1>3, <2>1 DEF eventVars, Runs, OcallDone
  <2>3. Awake(t)'
    BY <2>1, <2>2 DEF Awake
  <2>4. pc'[t] = "relock" /\ ~ WakeComing(t)'
    BY <1>3, <1>4, <1>5, <2>1
  <2> QED
    BY <1>4, <1>5, <2>3, <2>4 DEF OneWakeup
<1>6. CASE u # t
  <2>1. Entitled(u)' <=> Entitled(u)
    BY <1>3, <1>6 DEF Entitled, mutexVars
  <2> QED
    BY <1>3, <1>4, <1>6, <2>1, WakeupsOf, UntouchedWakeup, Zenon DEF eventVars
<1> QED
  BY <1>4, <1>5, <1>6

\* A thread that a signal or a broadcast takes off the queue q of the condition
\* is from now on entitled to a wake-up, and gets it.
LEMMA SignalWakeups ==
    ASSUME CondInv, WakeInv, prompt, NEW t \in Threads, pc[t] = "ready", Runs(t),
           NEW q \in Seq(Threads), q # <<>>, Distinct(q),
           \A w \in Threads : In(w, c_queue') <=> In(w, c_queue) /\ ~ In(w, q),
           \A w \in Threads : In(w, q) => In(w, c_queue),
           OcallSet(t, q), UNCHANGED <<mutexVars, pc>>,
           NEW u \in Threads
    PROVE  OneWakeup(u)' /\ TargetsOf(u)'
<1>1. \A w \in Threads : In(w, q) => w # t /\ pc[w] = "cwait" /\ ~ Entitled(w)
  BY DEF CondInv, CondQueueInv, Entitled
<1>2. \A w \in Threads : In(w, q) => ~ WakeComing(w)
  BY <1>1 DEF WakeInv, OneWakeup
<1>3. /\ ostep'[t] = "wake" /\ \A v \in Threads \ {t} : ostep'[v] = ostep[v]
      /\ se_event' = se_event /\ owait' = owait
  BY DEF OcallSet, CondInv, MutexInv, OwnerInv, CallTypeOK, EventTypeOK
<1>4. TargetsOf(u)' /\ (WakeComing(u)' <=> WakeComing(u) \/ In(u, q))
  BY <1>1, <1>2, <1>3, NewTargets, ZenonT(40) DEF OcallSet
<1>5. OneWakeup(u)
  BY WakeupsOf
<1>6. CASE u = t
  BY <1>1, <1>3, <1>4, <1>6, RunningFacts, Zenon DEF OneWakeup, Awake
<1>7. CASE u # t /\ In(u, q)
  <2>1. Entitled(u)'
    BY <1>1, <1>7 DEF Entitled
  <2> QED
    BY <1>1, <1>3, <1>4, <1>5, <1>7, <2>1, Zenon DEF OneWakeup, Unwoken
<1>8. CASE u # t /\ ~ In(u, q)
  <2>1. Entitled(u)' <=> Entitled(u)
    BY <1>8 DEF Entitled, mutexVars
  <2> QED
    BY <1>3, <1>4, <1>5, <1>8, <2>1, UntouchedWakeup
<1> QED
  BY <1>4, <1>6, <1>7, <1>8

LEMMA CondSignalWakeups ==
    ASSUME CondInv, WakeInv, prompt, NEW t \in Threads, CondSignal(t) \/ CondBroadcast(t),
           NEW u \in Threads
    PROVE  OneWakeup(u)' /\ TargetsOf(u)'
<1>1. c_queue \in Seq(Threads) /\ Distinct(c_queue)
  BY DEF CondInv, CondQueueInv
<1>2. CASE CondSignal(t)
  <2>1. PICK h \in Threads : h = Head(c_queue)
    BY <1>1, <1>2 DEF CondSignal
  <2>2. PICK q \in Seq(Threads) : q = <<h>>
    <3>1. <<h>> \in Seq(Threads)
      OBVIOUS
    <3> QED
      BY <3>1, Zenon
  <2>3. q # <<>> /\ Distinct(q) /\ \A w \in Threads : In(w, q) <=> w = h
    BY <2>2 DEF Distinct, In
  <2>4. \A w \in Threads : In(w, Tail(c_queue)) <=> In(w, c_queue) /\ w # h
    <3>1. h = c_queue[1] /\ c_queue # <<>>
      BY <1>1, <1>2, <2>1 DEF CondSignal
    <3> QED
      BY <1>1, <3>1, TailIn
  <2>5. In(h, c_queue)
    BY <1>1, <1>2, <2>1 DEF CondSignal, In
  <2>6. OcallSet(t, q)
    BY <1>2, <2>1, <2>2 DEF CondSignal
  <2> QED
    BY <1>2, <2>3, <2>4, <2>5, <2>6, SignalWakeups DEF CondSignal
<1>3. CASE CondBroadcast(t)
  <2>1. \A w \in Threads : ~ In(w, c_queue')
    BY <1>3 DEF CondBroadcast, In
  <2> QED
    BY <1>1, <1>3, <2>1, SignalWakeups DEF CondBroadcast
<1> QED
  BY <1>2, <1>3

\* destroy and init find the mutex free and its queue empty.
LEMMA InitWakeups ==
    ASSUME CondInv, WakeInv, prompt, NEW t \in Threads, Destroy(t) \/ MutexInit(t),
           c_queue' = c_queue, NEW u \in Threads
    PROVE  OneWakeup(u)' /\ TargetsOf(u)'
<1>1. UNCHANGED <<pc, eventVars>>
  BY DEF Destroy, MutexInit
<1>2. Entitled(u)' <=> Entitled(u)
  <2>1. First(m_queue') = Null
    BY DEF Destroy, MutexInit, First
  <2>2. First(m_queue) = Null \/ pc[u] # "locking"
    BY SMTT(30) DEF Destroy, MutexInit, First, CondInv, MutexInv, OwnerInv, FreeAgrees
  <2> QED
    BY <1>1, <2>1, <2>2, MutexAssumption DEF Entitled
<1>3. TargetsOf(u)' /\ (WakeComing(u)' <=> WakeComing(u))
  BY <1>1, WakeupsOf, SameTargets, Zenon DEF eventVars, TargetsOf
<1> QED
  BY <1>1, <1>2, <1>3, WakeupsOf, UntouchedWakeup DEF eventVars

LEMMA EventDecWakeups ==
    ASSUME CondInv, WakeInv, prompt, NEW t \in Threads, EventDec(t),
           UNCHANGED <<mutexVars, pc, c_queue>>, NEW u \in Threads
    PROVE  OneWakeup(u)' /\ TargetsOf(u)'
<1> USE DEF CondInv, MutexInv, OwnerInv, CallTypeOK, EventTypeOK
<1>1. /\ ostep[t] = "wait" /\ se_event'[t] = se_event[t] - 1 /\ ~ owait'[t]
      /\ ostep'[t] = IF se_event[t] = 0 THEN "futexwait" ELSE "none"
      /\ \A v \in Threads \ {t} :
             ostep'[v] = ostep[v] /\ se_event'[v] = se_event[v] /\ owait'[v] = owait[v]
      /\ otargets' = otargets
  BY DEF EventDec
<1>2. Entitled(u)' <=> Entitled(u)
  BY SMTT(30) DEF Entitled, mutexVars
<1>3. TargetsOf(u)' /\ (WakeComing(u)' <=> WakeComing(u))
  BY <1>1, WakeupsOf, SameTargets, Zenon DEF TargetsOf
<1>4. CASE u = t
  <2>1. /\ pc[t] \in {"locking", "cwait"}
        /\ \/ se_event[t] = 0 /\ (WakeComing(t) <=> Entitled(t))
           \/ se_event[t] = 1 /\ Entitled(t) /\ ~ WakeComing(t)
    BY <1>1, WakeupsOf, Zenon DEF OneWakeup, Awake, Unwoken, Woken
  <2>2. pc'[t] \in {"locking", "cwait"}
    BY <2>1
  <2>3. CASE se_event[t] = 0
    <3>1. ostep'[t] = "futexwait" /\ se_event'[t] = -1
      BY <1>1, <2>3
    <3>2. Unwoken(t)'
      BY <3>1 DEF Unwoken
    <3> QED
      BY <1>2, <1>3, <1>4, <2>1, <2>2, <2>3, <3>2 DEF OneWakeup
  <2>4. CASE se_event[t] = 1
    <3>1. ostep'[t] = "none" /\ se_event'[t] = 0
      BY <1>1, <2>4
    <3>2. Woken(t)'
      BY <3>1, Zenon DEF Woken
    <3> QED
      BY <1>2, <1>3, <1>4, <2>1, <2>2, <2>4, <3>2 DEF OneWakeup
  <2> QED
    BY <2>1, <2>3, <2>4
<1>5. CASE u # t
  BY <1>1, <1>2, <1>3, <1>5, WakeupsOf, UntouchedWakeup, Zenon
<1> QED
  BY <1>3, <1>4, <1>5

LEMMA FutexWaitWakeups ==
    ASSUME CondInv, WakeInv, prompt, NEW t \in Threads, FutexWait(t),
           UNCHANGED <<mutexVars, pc, c_queue>>, NEW u \in Threads
    PROVE  OneWakeup(u)' /\ TargetsOf(u)'
<1> USE DEF CondInv, MutexInv, OwnerInv, CallTypeOK, EventTypeOK
<1>1. /\ ostep[t] = "futexwait"
      /\ ostep'[t] = IF se_event[t] = -1 THEN "asleep" ELSE "none"
      /\ \A v \in Threads \ {t} : ostep'[v] = ostep[v]
      /\ UNCHANGED <<otargets, se_event, owait>>
  BY DEF FutexWait
<1>2. Entitled(u)' <=> Entitled(u)
  BY DEF Entitled, mutexVars
<1>3. TargetsOf(u)' /\ (WakeComing(u)' <=> WakeComing(u))
  BY <1>1, WakeupsOf, SameTargets DEF TargetsOf
<1>4. CASE u = t
  BY <1>1, <1>2, <1>3, <1>4, WakeupsOf DEF OneWakeup, Awake, Unwoken, Woken
<1>5. CASE u # t
  BY <1>1, <1>2, <1>3, <1>5, WakeupsOf, UntouchedWakeup
<1> QED
  BY <1>3, <1>4, <1>5

\* The wake-up reaches the event of the thread that it is for, and no other
\* wake-up of that thread is on its way.
LEMMA EventWakeWakeups ==
    ASSUME CondInv, WakeInv, prompt, NEW t \in Threads, EventWakePrompt(t),
           UNCHANGED <<mutexVars, pc, c_queue>>, NEW u \in Threads
    PROVE  OneWakeup(u)' /\ TargetsOf(u)'
<1>t. EventTypeOK
  BY DEF CondInv, MutexInv, OwnerInv, CallTypeOK
<1>1. /\ otargets[t] \in Seq(Threads) /\ otargets[t] # <<>>
      /\ ostep[t] = "wake" /\ Distinct(otargets[t])
  BY <1>t, WakeupsOf DEF EventWakePrompt, EventTypeOK, TargetsOf
<1>2. PICK w \in Threads : w = Head(otargets[t]) /\ w = otargets[t][1]
  BY <1>1
<1>3. In(w, otargets[t]) /\ w # t /\ WakeComing(w)
  BY <1>1, <1>2, WakeupsOf DEF In, WakeComing, TargetsOf
<1>4. pc[w] \in {"locking", "cwait"} /\ Unwoken(w) /\ Entitled(w)
  BY <1>3, WakeupsOf DEF OneWakeup
<1>5. /\ se_event' = [se_event EXCEPT ![w] = @ + 1]
      /\ ostep' = [ostep EXCEPT ![t] = AfterWake(t),
                                ![w] = IF @ = "asleep" /\ se_event[w] # 0 THEN "none" ELSE @]
      /\ otargets' = [otargets EXCEPT ![t] = Tail(@)] /\ owait' = owait
  BY <1>2 DEF EventWakePrompt
<1>6. /\ se_event'[w] = se_event[w] + 1
      /\ ostep'[w] = IF ostep[w] = "asleep" /\ se_event[w] # 0 THEN "none" ELSE ostep[w]
      /\ ostep'[t] = AfterWake(t) /\ otargets'[t] = Tail(otargets[t])
      /\ \A v \in Threads \ {w} : se_event'[v] = se_event[v]
      /\ \A v \in Threads \ {t, w} : ostep'[v] = ostep[v]
      /\ \A v \in Threads \ {t} : otargets'[v] = otargets[v]
  BY <1>t, <1>3, <1>5, SMTT(30) DEF EventTypeOK
<1>7. \A v \in Threads : In(v, otargets'[t]) <=> In(v, otargets[t]) /\ v # w
  BY <1>1, <1>2, <1>6, TailIn
<1>8. /\ ~ WakeComing(w)'
      /\ u # w => (WakeComing(u)' <=> WakeComing(u))
  <2>1. \A v \in Threads : In(w, otargets[v]) => v = t
    BY <1>3, WakeupsOf, SMTT(30) DEF TargetsOf
  <2>2. ~ WakeComing(w)'
    BY <1>6, <1>7, <2>1 DEF WakeComing
  <2>3. u # w => (WakeComing(u)' <=> WakeComing(u))
    BY <1>6, <1>7 DEF WakeComing
  <2> QED
    BY <2>2, <2>3
<1>9. /\ ostep'[t] = "wake" <=> otargets'[t] # <<>>
      /\ ostep'[t] = "wait" <=> otargets'[t] = <<>> /\ owait[t]
      /\ ostep'[t] \in {"wake", "wait", "none"}
  <2>1. /\ Len(otargets[t]) \in Nat \ {0}
        /\ Tail(otargets[t]) = <<>> <=> Len(otargets[t]) = 1
    <3>1. PICK q \in Seq(Threads) : q = otargets[t]
      BY <1>1
    <3>2. Tail(q) \in Seq(Threads) /\ Len(Tail(q)) = Len(q) - 1 /\ Len(q) \in Nat \ {0}
      BY <1>1, <3>1
    <3>3. \A r \in Seq(Threads) : r = <<>> <=> Len(r) = 0
      OBVIOUS
    <3>4. Tail(q) = <<>> <=> Len(Tail(q)) = 0
      BY <3>2, <3>3, ZenonT(40)
    <3>5. PICK n \in Nat \ {0} : n = Len(q)
      BY <3>2, Zenon
    <3>6. n - 1 = 0 <=> n = 1
      OBVIOUS
    <3>7. Tail(q) = <<>> <=> Len(q) = 1
      BY <3>2, <3>4, <3>5, <3>6, Zenon
    <3> QED
      BY <3>1, <3>2, <3>7, Zenon
  <2>2. /\ Len(otargets[t]) > 1 => ostep'[t] = "wake"
        /\ Len(otargets[t]) = 1 /\ owait[t] => ostep'[t] = "wait"
        /\ Len(otargets[t]) = 1 /\ ~ owait[t] => ostep'[t] = "none"
    <3>1. ostep'[t] = IF Len(otargets[t]) > 1 THEN "wake"
                      ELSE IF owait[t] THEN "wait" ELSE "none"
      BY <1>6 DEF AfterWake
    <3>2. CASE Len(otargets[t]) > 1
      <4>1. Len(otargets[t]) # 1 /\ ostep'[t] = "wake"
        BY <2>1, <3>1, <3>2, SMTT(30)
      <4> QED
        BY <3>2, <4>1
    <3>3. CASE ~ (Len(otargets[t]) > 1)
      <4>1. ostep'[t] = IF owait[t] THEN "wait" ELSE "none"
        BY <3>1, <3>3
      <4> QED
        BY <3>3, <4>1
    <3> QED
      BY <3>2, <3>3
  <2> QED
    BY <1>6, <2>1, <2>2
<1>10. Entitled(u)' <=> Entitled(u)
  BY DEF Entitled, mutexVars
<1>11. TargetsOf(u)'
  <2>1. ~ In(u, otargets'[u])
    BY <1>6, <1>7, WakeupsOf DEF TargetsOf
  <2>2. Distinct(otargets'[u])
    <3>1. CASE u = t
      BY <1>1, <1>6, <3>1, TailDistinct, SMTT(30)
    <3>2. CASE u # t
      BY <1>6, <3>2, WakeupsOf, SMTT(30) DEF TargetsOf
    <3> QED
      BY <3>1, <3>2, SMTT(30)
  <2>3. \A v, x \in Threads : In(u, otargets'[v]) /\ In(u, otargets'[x]) => v = x
    <3>1. \A v \in Threads : In(u, otargets'[v]) => In(u, otargets[v])
      BY <1>6, <1>7, SMTT(30)
    <3> QED
      BY <3>1, WakeupsOf, SMTT(30) DEF TargetsOf
  <2>4. /\ ostep'[u] = "wake" <=> otargets'[u] # <<>>
        /\ owait'[u] => ostep'[u] \in {"wake", "wait"}
    <3>1. CASE u = t
      BY <1>5, <1>9, <3>1
    <3>2. CASE u # t
      <4>1. otargets'[u] = otargets[u] /\ owait'[u] = owait[u]
        BY <1>5, <1>6, <3>2
      <4>2. \/ ostep'[u] = ostep[u]
            \/ ostep[u] = "asleep" /\ ostep'[u] = "none"
        BY <1>6, <3>2, SMTT(30)
      <4>3. /\ ostep[u] = "wake" <=> otargets[u] # <<>>
            /\ owait[u] => ostep[u] \in {"wake", "wait"}
        BY WakeupsOf, SMTT(30) DEF TargetsOf
      <4> QED
        BY <4>1, <4>2, <4>3, SMTT(30)
    <3> QED
      BY <3>1, <3>2
  <2> QED
    BY <2>1, <2>2, <2>3, <2>4, SMTT(30) DEF TargetsOf
<1>12. CASE u = w
  <2>1. pc'[w] = pc[w] /\ owait'[w] = owait[w] /\ se_event[w] \in Int
    BY <1>t, <1>5 DEF EventTypeOK
  <2>2. Woken(w)'
    <3>1. CASE ostep[w] = "asleep"
      <4>1. se_event[w] = -1
        BY <1>4, <3>1 DEF Unwoken
      <4>2. ostep'[w] = "none" /\ se_event'[w] = 0
        BY <1>6, <3>1, <4>1
      <4> QED
        BY <4>2 DEF Woken
    <3>2. CASE ostep[w] = "futexwait"
      <4>1. se_event[w] = -1
        BY <1>4, <3>2 DEF Unwoken
      <4>2. ostep'[w] = "futexwait" /\ se_event'[w] = 0
        BY <1>6, <3>2, <4>1
      <4> QED
        BY <4>2 DEF Woken
    <3>3. CASE ostep[w] \in {"wake", "wait"}
      <4>1. se_event[w] = 0 /\ (ostep[w] = "wake" => pc[w] = "cwait" /\ owait[w])
        BY <1>4, <3>3 DEF Unwoken
      <4>2. ostep'[w] = ostep[w] /\ se_event'[w] = 1
        BY <1>6, <3>3, <4>1
      <4> QED
        BY <2>1, <3>3, <4>1, <4>2 DEF Woken
    <3> QED
      BY <1>4, <3>1, <3>2, <3>3 DEF Unwoken
  <2> QED
    BY <1>4, <1>8, <1>10, <1>11, <1>12, <2>1, <2>2 DEF OneWakeup
<1>13. CASE u = t
  <2>1. OneWakeup(t) /\ (WakeComing(t)' <=> WakeComing(t)) /\ (Entitled(t)' <=> Entitled(t))
    BY <1>3, <1>8, <1>10, <1>13, WakeupsOf, SMTT(30)
  <2>2. pc'[t] = pc[t] /\ owait'[t] = owait[t] /\ se_event'[t] = se_event[t]
    BY <1>3, <1>5, <1>6, SMTT(30)
  <2>3. CASE owait[t]
    <3>1. ostep'[t] \in {"wake", "wait"}
      BY <1>9, <2>3, SMTT(30)
    <3>2. pc[t] \in {"locking", "cwait"}
      BY <2>1, <2>3 DEF OneWakeup, Awake
    <3>3. /\ Unwoken(t) => pc[t] = "cwait" /\ se_event[t] = 0
          /\ Woken(t) => pc[t] = "cwait" /\ se_event[t] = 1
      BY <1>1, SMTT(30) DEF Unwoken, Woken
    <3>4. (Unwoken(t) => Unwoken(t)') /\ (Woken(t) => Woken(t)')
      <4>1. owait'[t]
        BY <2>2, <2>3
      <4>2. ASSUME Unwoken(t) PROVE Unwoken(t)'
        <5>1. pc'[t] = "cwait" /\ se_event'[t] = 0
          BY <2>2, <3>3, <4>2
        <5> QED
          BY <3>1, <4>1, <5>1 DEF Unwoken
      <4>3. ASSUME Woken(t) PROVE Woken(t)'
        <5>1. pc'[t] = "cwait" /\ se_event'[t] = 1
          BY <2>2, <3>3, <4>3, Zenon
        <5> QED
          BY <3>1, <4>1, <5>1 DEF Woken
      <4> QED
        BY <4>2, <4>3
    <3> QED
      BY <1>11, <1>13, <2>1, <2>2, <3>2, <3>4 DEF OneWakeup
  <2>4. CASE ~ owait[t]
    <3>1. ostep'[t] \in {"wake", "none"}
      BY <1>9, <2>4, SMTT(30)
    <3>2. pc[t] \in {"ready", "relock"} /\ Awake(t) /\ ~ WakeComing(t)
      BY <1>1, <2>1, <2>4, SMTT(30) DEF OneWakeup, Unwoken, Woken
    <3> QED
      BY <1>11, <1>13, <2>1, <2>2, <3>1, <3>2, SMTT(30) DEF OneWakeup, Awake
  <2> QED
    BY <2>3, <2>4
<1>14. CASE u \notin {t, w}
  <2>1. /\ pc'[u] = pc[u] /\ owait'[u] = owait[u] /\ se_event'[u] = se_event[u]
        /\ ostep'[u] = ostep[u] /\ (WakeComing(u)' <=> WakeComing(u)) /\ OneWakeup(u)
    BY <1>5, <1>6, <1>8, <1>14, WakeupsOf, Zenon
  <2> QED
    BY <1>10, <1>11, <2>1, UntouchedWakeup, ZenonT(40)
<1> QED
  BY <1>11, <1>12, <1>13, <1>14

LEMMA WakeSame ==
    ASSUME CondInv, WakeInv, prompt, UNCHANGED condVars, NEW u \in Threads
    PROVE  OneWakeup(u)' /\ TargetsOf(u)'
<1>1. Entitled(u)' <=> Entitled(u)
  BY DEF Entitled, condVars, vars, mutexVars
<1>2. TargetsOf(u)' /\ (WakeComing(u)' <=> WakeComing(u))
  BY WakeupsOf, SameTargets, Zenon DEF condVars, vars, eventVars, TargetsOf
<1> QED
  BY <1>1, <1>2, WakeupsOf, UntouchedWakeup DEF condVars, vars, eventVars

LEMMA LockPassWakeups ==
    ASSUME CondInv, WakeInv, prompt, NEW t \in Threads, Runs(t), LockPass(t),
           pc[t] # "cwait", c_queue' = c_queue, NEW u \in Threads
    PROVE  OneWakeup(u)' /\ TargetsOf(u)'
BY GrantWakeups, EnqueueWakeups DEF LockPass

\* The calls of the mutex and the OCALLs, one by one.
LEMMA MutexWakeups ==
    ASSUME CondInv, WakeInv, prompt, NEW t \in Threads, MutexStep(t), c_queue' = c_queue,
           NEW u \in Threads
    PROVE  OneWakeup(u)' /\ TargetsOf(u)'
<1>1. CASE Lock(t)
  BY <1>1, LockPassWakeups DEF Lock
<1>2. CASE LockRetry(t)
  <2>1. ~ LockInvalid(t)
    BY NoLockInvalid DEF CondInv
  <2> QED
    BY <1>2, <2>1, LockPassWakeups DEF LockRetry
<1>3. CASE Trylock(t)
  <2>1. pc' = [pc EXCEPT ![t] = "ready"]
    BY <1>3 DEF Trylock, CondInv, MutexInv, OwnerInv, CallTypeOK
  <2> QED
    BY <1>3, <2>1, GrantWakeups, ZenonT(40) DEF Trylock
<1>4. CASE Unlock(t)
  BY <1>4, UnlockWakeups
<1>5. CASE OcallStep(t)
  <2>1. CASE EventDec(t)
    BY <1>5, <2>1, EventDecWakeups DEF OcallStep
  <2>2. CASE FutexWait(t)
    BY <1>5, <2>2, FutexWaitWakeups DEF OcallStep
  <2>3. CASE EventWakePrompt(t)
    BY <1>5, <2>3, EventWakeWakeups DEF OcallStep
  <2>4. ~ EventInc(t)
    BY DEF EventInc
  <2>5. ~ FutexWake(t)
    BY WakeupsOf, Zenon DEF FutexWake, OneWakeup, Awake, Unwoken, Woken
  <2> QED
    BY <1>5, <2>1, <2>2, <2>3, <2>4, <2>5 DEF OcallStep, EventStep
<1>6. ~ Interrupted(t)
  BY DEF Interrupted, FutexInterrupted
<1> QED
  BY <1>1, <1>2, <1>3, <1>4, <1>5, <1>6 DEF MutexStep

LEMMA WakeStep == CondInv /\ WakeInv /\ [CondNext]_condVars => WakeInv'
<1> SUFFICES ASSUME CondInv, WakeInv, [CondNext]_condVars PROVE WakeInv'
  OBVIOUS
<1>1. prompt' = prompt
  BY ZenonT(40) DEF CondNext, CondStep, MutexStep, CondWait, CondRewait, CondLeave, CondRelock,
         CondSignal, CondBroadcast, Lock, LockRetry, Trylock, Unlock, OcallStep,
         Interrupted, Destroy, MutexInit, LockPass, LockInvalid, Enqueue, EventStep,
         EventDec, FutexWait, FutexInterrupted, EventInc, FutexWake, EventWakePrompt,
         OcallWait, OcallSet, OcallSetWait, eventVars, vars, condVars
<1>2. SUFFICES ASSUME prompt, NEW u \in Threads PROVE OneWakeup(u)' /\ TargetsOf(u)'
  BY <1>1 DEF WakeInv
<1>3. CASE UNCHANGED condVars
  BY <1>2, <1>3, WakeSame
<1>4. CASE CondNext
  <2>1. PICK t \in Threads :
           \/ CondStep(t)
           \/ MutexStep(t) /\ c_queue' = c_queue
           \/ (Destroy(t) \/ MutexInit(t)) /\ c_queue' = c_queue
    BY <1>4 DEF CondNext
  <2>2. CASE CondWait(t)
    BY <1>2, <2>2, CondWaitWakeups
  <2>3. CASE CondRewait(t) \/ CondLeave(t)
    BY <1>2, <2>3, CondLoopWakeups
  <2>4. CASE CondRelock(t)
    BY <1>2, <2>4, LockPassWakeups DEF CondRelock
  <2>5. CASE CondSignal(t) \/ CondBroadcast(t)
    BY <1>2, <2>5, CondSignalWakeups
  <2>6. CASE MutexStep(t) /\ c_queue' = c_queue
    BY <1>2, <2>6, MutexWakeups
  <2>7. CASE (Destroy(t) \/ MutexInit(t)) /\ c_queue' = c_queue
    BY <1>2, <2>7, InitWakeups
  <2> QED
    BY <2>1, <2>2, <2>3, <2>4, <2>5, <2>6, <2>7 DEF CondStep
<1> QED
  BY <1>3, <1>4

\* Where FUTEX_WAKE follows its atomic add at once, no wake-up of the mutex or of
\* the condition is lost and no event gathers a second one: the head of the queue
\* of a free mutex and every signalled thread runs or is about to be woken, and a
\* thread that leaves lock or cond_wait leaves its event as it found it.
THEOREM WakeupsAreExact == CondSpec => []WakeupsExact
<1>1. CondInit => WakeInv
  <2> SUFFICES ASSUME CondInit, NEW t \in Threads PROVE OneWakeup(t) /\ TargetsOf(t)
    BY Zenon DEF WakeInv
  <2>1. /\ pc[t] = "ready" /\ ostep[t] = "none" /\ ~ owait[t] /\ se_event[t] = 0
        /\ \A u \in Threads : otargets[u] = <<>>
    BY DEF CondInit, Init, EventInit
  <2>2. \A u, v \in Threads : ~ In(v, otargets[u])
    BY <2>1 DEF In
  <2>3. Distinct(otargets[t])
    BY <2>1 DEF Distinct
  <2> QED
    BY <2>1, <2>2, <2>3 DEF OneWakeup, TargetsOf, Awake, WakeComing
<1>2. CondInv /\ WakeInv => WakeupsExact
  <2> SUFFICES ASSUME CondInv, WakeInv, prompt
               PROVE  NoWakeupEverLost /\ NoLostSignal /\ EventBalanced
    BY DEF WakeupsExact
  <2>1. NoWakeupEverLost
    <3> SUFFICES ASSUME m_owner = Null, m_queue # <<>>, NEW w \in Threads, w = m_queue[1],
                        pc[w] = "locking"
                 PROVE  \/ ostep[w] = "none"
                        \/ WakeComing(w)
                        \/ ostep[w] = "wait" /\ se_event[w] # 0
                        \/ ostep[w] = "futexwait" /\ se_event[w] # -1
      <4>1. m_queue # <<>> => m_queue[1] \in Threads /\ In(m_queue[1], m_queue)
        <5>1. \A q \in Seq(Threads) : q # <<>> => q[1] \in Threads /\ 1 \in 1..Len(q)
          OBVIOUS
        <5>2. m_queue \in Seq(Threads)
          BY SMTT(30) DEF CondInv, MutexInv, OwnerInv, CallTypeOK, MutexTypeOK
        <5> QED
          BY <5>1, <5>2 DEF In
      <4>2. m_queue # <<>> => m_queue[1] \in Threads /\ pc[m_queue[1]] = "locking"
        BY <4>1 DEF CondInv, MutexInv, QueueIsWaiters
      <4> QED
        BY <4>2, Zenon DEF NoWakeupEverLost
    <3>1. Entitled(w)
      BY DEF Entitled, First
    <3> QED
      BY <3>1, WakeupsOf DEF OneWakeup, Woken
  <2>2. NoLostSignal
    <3> SUFFICES ASSUME NEW t \in Threads, pc[t] = "cwait", ~ In(t, c_queue)
                 PROVE  \/ ostep[t] \in {"none", "wake", "futexwake"}
                        \/ WakeComing(t)
                        \/ ostep[t] = "wait" /\ se_event[t] # 0
                        \/ ostep[t] = "futexwait" /\ se_event[t] # -1
      BY DEF NoLostSignal
    <3>1. Entitled(t)
      BY DEF Entitled
    <3> QED
      BY <3>1, WakeupsOf DEF OneWakeup, Woken
  <2>3. EventBalanced
    <3> SUFFICES ASSUME NEW t \in Threads
                 PROVE  /\ se_event[t] \in {-1, 0, 1}
                        /\ se_event[t] = -1 => ostep[t] \in {"futexwait", "asleep"}
                        /\ ostep[t] = "none" => pc[t] # "ready" \/ se_event[t] = 0
      BY Zenon DEF EventBalanced
    <3>1. \/ se_event[t] \in {0, 1} /\ (ostep[t] = "none" => se_event[t] = 0)
          \/ se_event[t] = -1 /\ ostep[t] \in {"futexwait", "asleep"}
      BY WakeupsOf DEF OneWakeup, Awake, Unwoken, Woken
    <3> QED
      BY <3>1
  <2> QED
    BY <2>1, <2>2, <2>3
<1> QED
  BY <1>1, <1>2, WakeStep, CondAlways, PTL DEF CondSpec

=============================================================================
