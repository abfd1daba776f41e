-------------------------- MODULE EnclaveLifecycle --------------------------
(***************************************************************************)
(* One enclave between its creation and the deletion of its CEnclave:      *)
(* psw/urts/enclave.cpp, routine.cpp and sgx_destroy_enclave.              *)
(*                                                                         *)
(* Ecalls, ocalls, nested ecalls and sgx_destroy_enclave of several threads *)
(* meet in five pieces of state: the pool's list under m_enclave_mutex,    *)
(* the reference count m_ref, m_zombie, m_destroyed, and m_rwlock, which   *)
(* an ecall holds for reading except while it is in an ocall.              *)
(*                                                                         *)
(* Each thread has a stack of calls; a frame says how far a call is:       *)
(*   "enter"   an ecall that has its reference, before se_try_rdlock;      *)
(*   "inside"  an ecall in the enclave, read lock held;                    *)
(*   "ocall"   an ecall in an ocall, read lock given back;                 *)
(*   "about"   the same, with its event in hand, before se_event_wait;     *)
(*   "asleep"  the same, waiting on its event;                             *)
(*   "polling" an ecall in pthread_create, whose ocalls wait with a timeout *)
(*             until the new thread runs, read lock given back;            *)
(*   "leave"   an ecall that is done, before unref_enclave;                *)
(*   "edmm", "uninit", "uninitin", "unref", "remove", "wtlock",            *)
(*   "destroyed", "delete"                                                 *)
(*             the steps of sgx_destroy_enclave;                           *)
(*   "start"   a new thread in pthread_create_routine, before its          *)
(*             atomic_inc_ref.                                             *)
(***************************************************************************)
EXTENDS Integers, Sequences, FiniteSets

CONSTANTS
    Threads,          \* the threads of the application
    Pthreads,         \* those of them that only the enclave creates
    Destroyers,       \* those of them that may destroy the enclave
    Edmm,             \* the values that edmm may have
    Schedules,        \* the values that prompt may have
    Careful,          \* TRUE: the application does not destroy the enclave while it
                      \* starts threads nor, with EDMM, twice at the same time
    MaxDepth,         \* bound: calls of one thread inside each other
    MaxWork,          \* bound: calls and ocalls of each thread
    None

ASSUME LifeAssumption ==
    /\ IsFiniteSet(Threads) /\ Pthreads \subseteq Threads /\ Destroyers \subseteq Threads
    /\ Edmm \subseteq BOOLEAN /\ Schedules \subseteq BOOLEAN /\ Careful \in BOOLEAN
    /\ MaxDepth \in Nat \ {0} /\ MaxWork \in Nat
    /\ None \notin Threads

VARIABLES
    edmm,             \* the enclave has EDMM: destroying makes the UNINIT ecall
    prompt,           \* FALSE: the real machine.  TRUE: a behaviour in which neither a
                      \* signal nor a late FUTEX_WAKE ends a wait for an event
    listed,           \* the enclave is in m_enclave_list
    m_enclave_mutex,  \* the thread in remove_enclave that holds it, or None
    m_ref, m_zombie, m_destroyed,
    readers,          \* the read locks on m_rwlock that each thread holds
    deleted,          \* how often the CEnclave was deleted
    event,            \* the word of the untrusted event of each thread
    stack,            \* the calls of each thread, innermost last
    child,            \* the thread that each one in pthread_create waits for, or None
    work              \* how many calls and ocalls each thread has made

modeVars == <<edmm, prompt>>
enclaveVars == <<modeVars, listed, m_ref, m_zombie, m_destroyed, deleted>>
vars == <<enclaveVars, m_enclave_mutex, readers, event, stack, child, work>>

EcallFrames == {"enter", "inside", "ocall", "about", "asleep", "polling", "leave"}
DestroyFrames == {"edmm", "uninit", "uninitin", "unref", "remove", "wtlock", "destroyed",
                  "delete"}
Frames == EcallFrames \cup DestroyFrames \cup {"start"}

ASSUME NoneAssumption == None \notin Frames

Init ==
    /\ edmm \in Edmm
    /\ prompt \in Schedules
    /\ listed = TRUE
    /\ m_enclave_mutex = None
    /\ m_ref = 0
    /\ m_zombie = FALSE
    /\ m_destroyed = FALSE
    /\ readers = [t \in Threads |-> 0]
    /\ deleted = 0
    /\ event = [t \in Threads |-> 0]
    /\ stack = [t \in Threads |-> <<>>]
    /\ child = [t \in Threads |-> None]
    /\ work = [t \in Threads |-> 0]

-----------------------------------------------------------------------------

Top(t) == IF stack[t] = <<>> THEN None ELSE stack[t][Len(stack[t])]
Push(t, f) == stack' = [stack EXCEPT ![t] = Append(@, f)]
Pop(t) == stack' = [stack EXCEPT ![t] = SubSeq(@, 1, Len(@) - 1)]
Goto(t, f) == stack' = [stack EXCEPT ![t][Len(stack[t])] = f]

\* The application's code runs: at the top level or in an ocall.
AtHome(t) == \/ stack[t] = <<>> /\ t \notin Pthreads
             \/ Top(t) = "ocall"

\* A bounded number of calls and ocalls.
Works(t) ==
    /\ work[t] < MaxWork
    /\ work' = [work EXCEPT ![t] = @ + 1]

CanCall(t) == AtHome(t) /\ Len(stack[t]) < MaxDepth /\ Works(t)

\* Calls of sgx_destroy_enclave, and threads that have not taken their reference.
Destroying == \E t \in Threads : \E i \in DOMAIN stack[t] : stack[t][i] \in DestroyFrames
Starting == \E t \in Threads : Top(t) = "start"

\* A short critical section of the pool's mutex.
Mutex == m_enclave_mutex = None

\* se_try_rdlock and the test of m_destroyed.  The write lock is held only within
\* the step that sets m_destroyed; a thread that finds it held goes the same way
\* as one that finds m_destroyed set.
TryRdlock(t) == ~ m_destroyed /\ readers' = [readers EXCEPT ![t] = @ + 1]

Rdunlock(t) == readers' = [readers EXCEPT ![t] = @ - 1]

\* Mutation of Unref: the last user of a zombie does not delete it.
Unref_NoDelete ==
    /\ Mutex
    /\ m_ref' = m_ref - 1
    /\ UNCHANGED deleted

\* Mutation of Unref: a zombie is deleted whoever else refers to it.
Unref_AnyZombie ==
    /\ Mutex
    /\ m_ref' = m_ref - 1
    /\ deleted' = IF m_zombie THEN deleted + 1 ELSE deleted

\* unref_enclave: the last user of a zombie deletes it.
Unref ==
    /\ Mutex
    /\ m_ref' = m_ref - 1
    /\ deleted' = IF m_zombie /\ m_ref' = 0 THEN deleted + 1 ELSE deleted

-----------------------------------------------------------------------------
(* Ecalls: _sgx_ecall and CEnclave::ecall.                                 *)

\* ref_enclave; an enclave that is not in the list is SGX_ERROR_INVALID_ENCLAVE_ID.
EcallRef(t) ==
    /\ CanCall(t)
    /\ Mutex
    /\ listed
    /\ m_ref' = m_ref + 1
    /\ Push(t, "enter")
    /\ UNCHANGED <<modeVars, listed, m_zombie, m_destroyed, deleted, m_enclave_mutex, readers,
                   event, child>>

EcallEnter(t) ==
    /\ Top(t) = "enter"
    /\ \/ TryRdlock(t) /\ Goto(t, "inside")
       \/ m_destroyed /\ Goto(t, "leave") /\ UNCHANGED readers
    /\ UNCHANGED <<enclaveVars, m_enclave_mutex, event, child, work>>

EcallExit(t) ==
    /\ Top(t) = "inside"
    /\ Rdunlock(t)
    /\ Goto(t, "leave")
    /\ UNCHANGED <<enclaveVars, m_enclave_mutex, event, child, work>>

EcallUnref(t) ==
    /\ Top(t) = "leave"
    /\ Unref
    /\ Pop(t)
    /\ UNCHANGED <<modeVars, listed, m_zombie, m_destroyed, m_enclave_mutex, readers, event,
                   child, work>>

-----------------------------------------------------------------------------
(* Ocalls: CEnclave::ocall, and the one that waits on an untrusted event.  *)

\* Mutation of Ocall: the read lock is kept.
Ocall_Locked(t) ==
    /\ Top(t) = "inside"
    /\ Works(t)
    /\ Goto(t, "ocall")
    /\ UNCHANGED <<enclaveVars, m_enclave_mutex, readers, event, child>>

Ocall(t) ==
    /\ Top(t) = "inside"
    /\ Works(t)
    /\ Rdunlock(t)
    /\ Goto(t, "ocall")
    /\ UNCHANGED <<enclaveVars, m_enclave_mutex, event, child>>

\* Mutation of OcallReturn: m_destroyed is not tested.
OcallReturn_Unchecked(t) ==
    /\ Top(t) = "ocall"
    /\ readers' = [readers EXCEPT ![t] = @ + 1]
    /\ Goto(t, "inside")
    /\ UNCHANGED <<enclaveVars, m_enclave_mutex, event, child, work>>

\* Back into the enclave, or out of the ecall without a lock
\* (SE_ERROR_READ_LOCK_FAIL).
OcallReturn(t) ==
    /\ Top(t) = "ocall"
    /\ \/ TryRdlock(t) /\ Goto(t, "inside")
       \/ m_destroyed /\ Goto(t, "leave") /\ UNCHANGED readers
    /\ UNCHANGED <<enclaveVars, m_enclave_mutex, event, child, work>>

\* sgx_thread_wait_untrusted_event_ocall: get_event, which finds the event only
\* while the enclave is listed.
GetEvent(t) ==
    /\ Top(t) = "ocall"
    /\ Mutex
    /\ listed
    /\ Works(t)
    /\ Goto(t, "about")
    /\ UNCHANGED <<enclaveVars, m_enclave_mutex, readers, event, child>>

\* se_event_wait: the atomic decrement, and FUTEX_WAIT if the event was 0 (see
\* UntrustedEvent).
EventWait(t) ==
    /\ Top(t) = "about"
    /\ event' = [event EXCEPT ![t] = @ - 1]
    /\ Goto(t, IF event[t] = 0 THEN "asleep" ELSE "ocall")
    /\ UNCHANGED <<enclaveVars, m_enclave_mutex, readers, child, work>>

\* A signal, or a FUTEX_WAKE of an earlier round that comes late, ends the wait;
\* se_event_wait returns success and leaves its decrement in the event.
EventStirred(t) ==
    /\ ~ prompt
    /\ Top(t) = "asleep"
    /\ Goto(t, "ocall")
    /\ UNCHANGED <<enclaveVars, m_enclave_mutex, readers, event, child, work>>

\* se_event_wake of the events of the threads in S: the atomic increments, and
\* FUTEX_WAKE for the events that were not 0.
EventsSet(S) == [t \in Threads |-> IF t \in S THEN event[t] + 1 ELSE event[t]]
Woken(S) == {t \in S : Top(t) = "asleep" /\ event[t] # 0}
StacksWoken(S) == [t \in Threads |-> IF t \in Woken(S)
                                     THEN [stack[t] EXCEPT ![Len(stack[t])] = "ocall"]
                                     ELSE stack[t]]

\* The threads in m_thread_list: they have been in the enclave.
Bound == {t \in Threads : \E i \in DOMAIN stack[t] : stack[t][i] \in EcallFrames \ {"enter"}}

\* sgx_thread_set_untrusted_event_ocall by t for u
SetEvent(t, u) ==
    /\ Top(t) = "ocall"
    /\ Mutex
    /\ listed
    /\ Works(t)
    /\ u \in Bound \ {t}
    /\ event' = EventsSet({u})
    /\ stack' = StacksWoken({u})
    /\ UNCHANGED <<enclaveVars, m_enclave_mutex, readers, child>>

-----------------------------------------------------------------------------
(* sgx_destroy_enclave.                                                    *)

\* ref_enclave; without the enclave, remove_enclave has nothing to do either.
DestroyRef(t) ==
    /\ t \in Destroyers
    /\ Careful => ~ Starting /\ ~ (edmm /\ Destroying)
    /\ CanCall(t)
    /\ Mutex
    /\ listed
    /\ m_ref' = m_ref + 1
    /\ Push(t, "edmm")
    /\ UNCHANGED <<modeVars, listed, m_zombie, m_destroyed, deleted, m_enclave_mutex, readers,
                   event, child>>

\* is_EDMM_supported: an enclave that another thread has removed has no EDMM.
DestroyEdmm(t) ==
    /\ Top(t) = "edmm"
    /\ Mutex
    /\ Goto(t, IF edmm /\ listed THEN "uninit" ELSE "unref")
    /\ UNCHANGED <<enclaveVars, m_enclave_mutex, readers, event, child, work>>

\* CEnclave::ecall(ECMD_UNINIT_ENCLAVE)
DestroyUninit(t) ==
    /\ Top(t) = "uninit"
    /\ \/ TryRdlock(t) /\ Goto(t, "uninitin")
       \/ m_destroyed /\ Goto(t, "unref") /\ UNCHANGED readers
    /\ UNCHANGED <<enclaveVars, m_enclave_mutex, event, child, work>>

\* With the read lock held it calls is_EDMM_supported again, which takes the mutex.
DestroyUninitDone(t) ==
    /\ Top(t) = "uninitin"
    /\ Mutex
    /\ Rdunlock(t)
    /\ Goto(t, "unref")
    /\ UNCHANGED <<enclaveVars, m_enclave_mutex, event, child, work>>

DestroyUnref(t) ==
    /\ Top(t) = "unref"
    /\ Unref
    /\ Goto(t, "remove")
    /\ UNCHANGED <<modeVars, listed, m_zombie, m_destroyed, m_enclave_mutex, readers, event,
                   child, work>>

\* remove_enclave: lock the pool; if the enclave is there, CEnclave::destroy.
RemoveLock(t) ==
    /\ Top(t) = "remove"
    /\ Mutex
    /\ \/ listed /\ m_enclave_mutex' = t /\ Goto(t, "wtlock")
       \/ ~ listed /\ UNCHANGED m_enclave_mutex /\ Pop(t)
    /\ UNCHANGED <<enclaveVars, readers, event, child, work>>

\* CEnclave::destroy: se_wtlock waits for every reader.
DestroyHw(t) ==
    /\ Top(t) = "wtlock"
    /\ \A u \in Threads : readers[u] = 0
    /\ m_destroyed' = TRUE
    /\ Goto(t, "destroyed")
    /\ UNCHANGED <<modeVars, listed, m_ref, m_zombie, deleted, m_enclave_mutex, readers, event,
                   child, work>>

\* Mutation of Remove: no thread is woken.
Remove_NoWake(t) ==
    /\ Top(t) = "destroyed"
    /\ listed' = FALSE
    /\ m_enclave_mutex' = None
    /\ m_zombie' = (m_ref # 0)
    /\ IF m_ref # 0 THEN Pop(t) ELSE Goto(t, "delete")
    /\ UNCHANGED <<modeVars, m_ref, m_destroyed, deleted, readers, event, child, work>>

\* The rest of remove_enclave.  An enclave in use becomes a zombie and every bound
\* thread gets a wake-up; one that is not in use is deleted by the caller.
Remove(t) ==
    /\ Top(t) = "destroyed"
    /\ listed' = FALSE
    /\ m_enclave_mutex' = None
    /\ m_zombie' = (m_ref # 0)
    /\ \/ /\ m_ref # 0
          /\ event' = EventsSet(Bound)
          /\ stack' = [StacksWoken(Bound) EXCEPT ![t] = SubSeq(@, 1, Len(@) - 1)]
       \/ /\ m_ref = 0
          /\ Goto(t, "delete")
          /\ UNCHANGED event
    /\ UNCHANGED <<modeVars, m_ref, m_destroyed, deleted, readers, child, work>>

\* delete enclave, after the pool's mutex is released
Delete(t) ==
    /\ Top(t) = "delete"
    /\ deleted' = deleted + 1
    /\ Pop(t)
    /\ UNCHANGED <<modeVars, listed, m_ref, m_zombie, m_destroyed, m_enclave_mutex, readers,
                   event, child, work>>

-----------------------------------------------------------------------------
(* Threads that the enclave creates: pthread_create_ocall.                 *)

\* The creator t goes on in pthread_create, which runs no code of the application.
CreatePthread(t, p) ==
    /\ Top(t) = "ocall"
    /\ Mutex
    /\ listed
    /\ Works(t)
    /\ Careful => ~ Destroying
    /\ p \in Pthreads /\ stack[p] = <<>> /\ \A u \in Threads : child[u] # p
    /\ stack' = [stack EXCEPT ![t][Len(stack[t])] = "polling", ![p] = <<"start">>]
    /\ child' = [child EXCEPT ![t] = p]
    /\ UNCHANGED <<enclaveVars, m_enclave_mutex, readers, event>>

\* The new thread has reached its start routine, which pthread_create waits for.
Runs(p) == Top(p) \notin {"start", "enter"}

\* The ocall that found the thread running returns into pthread_create; or one finds
\* the enclave destroyed.  One that finds neither changes nothing: it returns, with
\* the read lock, and the next one gives it back.
PollReturn(t) ==
    /\ Top(t) = "polling"
    /\ \/ TryRdlock(t) /\ Runs(child[t]) /\ Goto(t, "inside")
       \/ m_destroyed /\ Goto(t, "leave") /\ UNCHANGED readers
    /\ child' = [child EXCEPT ![t] = None]
    /\ UNCHANGED <<enclaveVars, m_enclave_mutex, event, work>>

\* pthread_create_routine takes its own reference, without the mutex.
PthreadRef(p) ==
    /\ Top(p) = "start"
    /\ m_ref' = m_ref + 1
    /\ Goto(p, "enter")
    /\ UNCHANGED <<modeVars, listed, m_zombie, m_destroyed, deleted, m_enclave_mutex, readers,
                   event, child, work>>

-----------------------------------------------------------------------------

\* What a thread does without the application's help.
ThreadStep(t) ==
    \/ EcallEnter(t) \/ EcallExit(t) \/ EcallUnref(t)
    \/ OcallReturn(t) \/ EventWait(t)
    \/ DestroyEdmm(t) \/ DestroyUninit(t) \/ DestroyUninitDone(t) \/ DestroyUnref(t)
    \/ RemoveLock(t) \/ DestroyHw(t) \/ Remove(t) \/ Delete(t)
    \/ PthreadRef(t) \/ PollReturn(t)

Next ==
    \E t \in Threads :
        \/ ThreadStep(t)
        \/ EcallRef(t) \/ Ocall(t) \/ GetEvent(t) \/ DestroyRef(t) \/ EventStirred(t)
        \/ \E u \in Threads : SetEvent(t, u) \/ CreatePthread(t, u)

\* Threads run, ecalls and ocalls that do not wait for an event end, and the
\* mutex is fair to those that wait for it.  Nobody has to set an event.
Fairness == \A t \in Threads : SF_vars(ThreadStep(t))

Spec == Init /\ [][Next]_vars

FairSpec == Spec /\ Fairness

-----------------------------------------------------------------------------

\* Types; neither references nor read locks are given back twice.
LifeTypeOK ==
    /\ edmm \in BOOLEAN /\ prompt \in BOOLEAN
    /\ listed \in BOOLEAN /\ m_zombie \in BOOLEAN /\ m_destroyed \in BOOLEAN
    /\ m_enclave_mutex \in Threads \cup {None}
    /\ m_ref \in Nat /\ deleted \in Nat
    /\ readers \in [Threads -> Nat]
    /\ event \in [Threads -> Int]
    /\ stack \in [Threads -> Seq(Frames)]
    /\ child \in [Threads -> Threads \cup {None}]
    /\ work \in [Threads -> 0..MaxWork]

\* The hardware enclave is destroyed only when no thread executes in it: a
\* thread that was in an ocall does not get back in.
NobodyInDestroyed ==
    \A t \in Threads : Top(t) \in {"inside", "uninitin"} => ~ m_destroyed

\* The calls that use the CEnclave.
Users ==
    {u \in Threads \X (1..MaxDepth) :
        u[2] \in DOMAIN stack[u[1]] /\ stack[u[1]][u[2]] # "remove"}

\* "the enclave instance will not be referenced any more, so we delete the
\* instance": nobody uses the CEnclave when it has been deleted.
NoUseAfterDelete == deleted > 0 => Users = {}

\* The CEnclave is deleted once, by whoever is last: the destroyer, or the last
\* call that was in an ocall when the enclave was destroyed.
DeletedOnce ==
    /\ LifeTypeOK
    /\ deleted <= 1
    /\ ~ listed /\ Users = {} => deleted = 1

\* Destroying an enclave does not leave a thread pending on an untrusted event,
\* whether it was asleep or about to sleep.  Only where nothing but a wake-up ends a
\* wait (prompt): otherwise the event may be left at -1, wake_threads brings it to 0,
\* and the thread that is about to sleep sleeps for ever, against the comment in
\* remove_enclave.
DestroyWakesWaiters ==
    \A t \in Threads :
        prompt /\ m_destroyed /\ Top(t) \in {"about", "asleep"}
            ~> Top(t) \notin {"about", "asleep"}

\* sgx_destroy_enclave returns.
DestroyEnds ==
    \A t \in Threads :
        Top(t) = "remove" ~> Top(t) \notin {"remove", "wtlock", "destroyed", "delete"}

=============================================================================
