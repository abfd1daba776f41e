-------------------------- MODULE TrustThreadPool ---------------------------
(***************************************************************************)
(* The pool of trusted threads (TCS pages) of one enclave: psw/urts/tcs.cpp *)
(* with the parts of enclave.cpp and enclave_thread.cpp that use it.       *)
(*                                                                         *)
(* An ecall runs on a TCS.  acquire_thread takes the one bound to the      *)
(* calling thread, or a free one, or one that garbage collection frees, or *)
(* waits for the filler thread to make one out of the unallocated dynamic  *)
(* ones.  All of it is under m_thread_mutex, which stays locked during     *)
(* that wait.  The filler and the end of an ecall take no m_thread_mutex.  *)
(*                                                                         *)
(* Initially the enclave has been created and initialized: reset() has     *)
(* emptied the list of bound threads.  A free list is a sequence, so that  *)
(* a TCS that is freed twice is seen.                                      *)
(***************************************************************************)
EXTENDS Integers, Sequences, FiniteSets

CONSTANTS
    Threads,          \* the thread ids of the process
    StaticTcs,        \* the TCS pages added when the enclave was built
    DynamicTcs,       \* those that EDMM can add later
    UtilityTcs,       \* the one set aside for MKTCS, or None without EDMM
    None,
    MinPool,          \* m_tcs_min_pool
    Modes,            \* the values that bind may have
    Schedules,        \* the values that prompt may have
    MaxNest,          \* bound: ecalls of one thread inside each other
    MaxEvents,        \* bound: wake-ups that the filler has not yet consumed
    EventDepth        \* bound: its event is decremented no further than -EventDepth

Tcs == StaticTcs \cup DynamicTcs \cup ({UtilityTcs} \ {None})

ASSUME PoolAssumption ==
    /\ IsFiniteSet(Threads) /\ IsFiniteSet(Tcs)
    /\ StaticTcs \cap DynamicTcs = {} /\ UtilityTcs \notin StaticTcs \cup DynamicTcs
    /\ None \notin Threads \cup StaticTcs \cup DynamicTcs
    /\ UtilityTcs = None => DynamicTcs = {}
    /\ MinPool \in Nat /\ MaxNest \in Nat \ {0} /\ MaxEvents \in Nat \ {0}
    /\ EventDepth \in Nat \ {0}
    /\ Modes \subseteq BOOLEAN /\ Schedules \subseteq BOOLEAN

VARIABLES
    bind,             \* TRUE: CThreadPoolBindMode, FALSE: CThreadPoolUnBindMode
    prompt,           \* FALSE: the real machine.  TRUE: a behaviour in which neither a
                      \* signal nor a late FUTEX_WAKE ends a sleep of the filler
    m_free_thread_vector, m_unallocated_threads, \* sequences of TCS
    m_thread_list,    \* the TCS bound to each thread id, or None
    m_reference,      \* of each TCS
    m_thread_mutex,   \* the thread that holds it while it waits, or None
    m_need_to_wait_for_new_thread,
    m_new_thread_event, \* the event that the filler waits on
    filler,           \* where the filler thread is
    tpc,              \* "out", "in" (an ecall), or waiting for a new TCS: "wait"
                      \* for an ecall, "waitnew" for a thread to be created
    alive,            \* the threads that exist
    reserved,         \* TCS taken for threads that pthread_create will start
    running,          \* the trust_thread of each ecall on a thread's stack, innermost last
    failed,           \* auxiliary: MKTCS has failed
    lost              \* auxiliary: TCS whose binding bind_pthread has refused

modeVars == <<bind, prompt, failed, lost>>
poolVars == <<modeVars, m_free_thread_vector, m_unallocated_threads, m_thread_list, m_reference>>
waitVars == <<m_thread_mutex, m_need_to_wait_for_new_thread, m_new_thread_event>>
vars == <<poolVars, waitVars, filler, tpc, alive, reserved, running>>

Elements(s) == {s[i] : i \in DOMAIN s}
Last(s) == s[Len(s)]
Front(s) == SubSeq(s, 1, Len(s) - 1)

\* The sequences that list a finite set once.
Listings(S) == {s \in [1..Cardinality(S) -> S] : Elements(s) = S}

Init ==
    /\ bind \in Modes
    /\ prompt \in Schedules
    /\ m_free_thread_vector \in Listings(StaticTcs)
    /\ m_unallocated_threads \in Listings(DynamicTcs)
    /\ m_thread_list = [t \in Threads |-> None]
    /\ m_reference = [x \in Tcs |-> 0]
    /\ m_thread_mutex = None
    /\ m_need_to_wait_for_new_thread = FALSE
    /\ m_new_thread_event = 0
    /\ filler = IF UtilityTcs = None THEN "none" ELSE "need"
    /\ tpc = [t \in Threads |-> "out"]
    /\ alive = Threads
    /\ reserved = {}
    /\ running = [t \in Threads |-> <<>>]
    /\ failed = FALSE
    /\ lost = {}

-----------------------------------------------------------------------------
(* Garbage collection, and the choice of a TCS for a thread.               *)

Bound == {t \in Threads : m_thread_list[t] # None}

\* Mutation of Collectable: the reference count is not consulted.
Collectable_Busy(seen) ==
    {t \in Bound : bind => t \notin seen}

\* The bound threads whose TCS garbage_collect takes back.  In bind mode these
\* are the threads that get_thread_set does not list; it may miss live ones.
Collectable(seen) ==
    {t \in Bound : m_reference[m_thread_list[t]] = 0 /\ (bind => t \notin seen)}

\* A walk over the list of bound threads frees their TCS in some order.
Collected(seen) == Listings({m_thread_list[t] : t \in Collectable(seen)})

\* The list of bound threads after it.
Unbound(seen) == [t \in Threads |-> IF t \in Collectable(seen) THEN None ELSE m_thread_list[t]]

\* get_free_thread, after garbage collection if there is none: the free list
\* that it pops, and the list of bound threads.
FreeOrCollected(free, list) ==
    \/ /\ free # <<>>
       /\ free = m_free_thread_vector
       /\ list = m_thread_list
    \/ /\ m_free_thread_vector = <<>>
       /\ \E seen \in SUBSET alive :
             /\ Collectable(seen) # {}
             /\ free \in Collected(seen)
             /\ list = Unbound(seen)

FreeLists == {m_free_thread_vector} \cup UNION {Collected(seen) : seen \in SUBSET alive}
BoundLists == {m_thread_list} \cup {Unbound(seen) : seen \in SUBSET alive}

NothingFree ==
    /\ m_free_thread_vector = <<>>
    /\ \E seen \in SUBSET alive : Collectable(seen) = {}

\* _acquire_thread finds a TCS, and increase_ref: the bound one, or a new one.
AcquireBound(t) ==
    /\ m_thread_list[t] # None
    /\ m_reference' = [m_reference EXCEPT ![m_thread_list[t]] = @ + 1]
    /\ running' = [running EXCEPT ![t] = Append(@, m_thread_list[t])]
    /\ UNCHANGED <<m_free_thread_vector, m_thread_list>>

AcquireNew(t) ==
    /\ m_thread_list[t] = None
    /\ \E free \in FreeLists, list \in BoundLists :
          /\ FreeOrCollected(free, list)
          /\ m_free_thread_vector' = Front(free)
          /\ m_thread_list' = [list EXCEPT ![t] = Last(free)]
          /\ m_reference' = [m_reference EXCEPT ![Last(free)] = @ + 1]
          /\ running' = [running EXCEPT ![t] = Append(@, Last(free))]

Found(t) == AcquireBound(t) \/ AcquireNew(t)

NotFound(t) == m_thread_list[t] = None /\ NothingFree

\* _acquire_free_thread finds a TCS, and reset_ref.
Reserve ==
    \E free \in FreeLists, list \in BoundLists :
        /\ FreeOrCollected(free, list)
        /\ m_free_thread_vector' = Front(free)
        /\ m_thread_list' = list
        /\ m_reference' = [m_reference EXCEPT ![Last(free)] = 0]
        /\ reserved' = reserved \cup {Last(free)}

\* need_to_new_thread, of the given free list
NeedToNewThread(free) ==
    /\ m_unallocated_threads # <<>>
    /\ IF MinPool = 0 THEN Len(free) = 0 ELSE Len(free) < MinPool

\* fill_tcs_mini_pool_fn: the filler exists, its event is set with se_event_wake.
\* That makes FUTEX_WAKE only if the event was not 0.
WakeFiller ==
    /\ m_new_thread_event < MaxEvents
    /\ m_new_thread_event' = m_new_thread_event + 1
    /\ filler' = IF filler = "asleep" /\ m_new_thread_event # 0 THEN "need" ELSE filler

\* Mutation of AskForMore: nobody asks before the pool is empty.
AskForMore_Never == UNCHANGED <<m_new_thread_event, filler>>

\* The end of acquire_thread and of acquire_free_thread.
AskForMore ==
    IF NeedToNewThread(m_free_thread_vector')
    THEN WakeFiller
    ELSE UNCHANGED <<m_new_thread_event, filler>>

-----------------------------------------------------------------------------
(* Ecalls: CEnclave::ecall with acquire_thread and decrease_ref.           *)

Lock == m_thread_mutex = None

\* An ecall is made at the top level or in an ocall of the same thread.
CanEnter(t) ==
    t \in alive /\ tpc[t] \in {"out", "in"} /\ Len(running[t]) < MaxNest

Ecall(t) ==
    /\ CanEnter(t)
    /\ Lock
    /\ Found(t)
    /\ AskForMore
    /\ tpc' = [tpc EXCEPT ![t] = "in"]
    /\ UNCHANGED <<modeVars, m_unallocated_threads, m_thread_mutex,
                   m_need_to_wait_for_new_thread, alive, reserved>>

\* No TCS: ask the filler for one and wait, keeping the mutex locked.  Without
\* EDMM the call fails at once (SGX_ERROR_OUT_OF_TCS) and nothing changes.
WaitForNewThread(t, p) ==
    /\ Lock
    /\ UtilityTcs # None
    /\ WakeFiller
    /\ m_need_to_wait_for_new_thread' = TRUE
    /\ m_thread_mutex' = t
    /\ tpc' = [tpc EXCEPT ![t] = p]
    /\ UNCHANGED <<poolVars, alive, reserved, running>>

EcallWait(t) == CanEnter(t) /\ NotFound(t) /\ WaitForNewThread(t, "wait")

\* The wait is over: one more try, with or without success.
EcallRetry(t) ==
    /\ tpc[t] = "wait"
    /\ ~ m_need_to_wait_for_new_thread
    /\ m_thread_mutex' = None
    /\ \/ /\ Found(t)
          /\ tpc' = [tpc EXCEPT ![t] = "in"]
       \/ /\ NotFound(t)
          /\ tpc' = [tpc EXCEPT ![t] = IF running[t] = <<>> THEN "out" ELSE "in"]
          /\ UNCHANGED <<m_free_thread_vector, m_thread_list, m_reference, running>>
    /\ AskForMore
    /\ UNCHANGED <<modeVars, m_unallocated_threads, m_need_to_wait_for_new_thread, alive,
                   reserved>>

\* The innermost ecall of the thread returns: decrease_ref, without a lock.
EcallReturns(t) ==
    /\ tpc[t] = "in" /\ t \in alive
    /\ m_reference' = [m_reference EXCEPT ![Last(running[t])] = @ - 1]
    /\ running' = [running EXCEPT ![t] = Front(@)]
    /\ tpc' = [tpc EXCEPT ![t] = IF Len(running[t]) = 1 THEN "out" ELSE "in"]
    /\ UNCHANGED <<modeVars, m_free_thread_vector, m_unallocated_threads, m_thread_list,
                   waitVars, filler, alive, reserved>>

\* pthread_exit, at any nesting: the trusted side leaves through the frame of the
\* root ecall, so the outermost CEnclave::ecall of the thread returns
\* SGX_PTHREAD_EXIT, and the ecalls inside it never return: reset_ref.
PthreadExit(t) ==
    /\ tpc[t] = "in" /\ t \in alive
    /\ m_reference' = [m_reference EXCEPT ![Last(running[t])] = 0]
    /\ running' = [running EXCEPT ![t] = <<>>]
    /\ tpc' = [tpc EXCEPT ![t] = "out"]
    /\ UNCHANGED <<modeVars, m_free_thread_vector, m_unallocated_threads, m_thread_list,
                   waitVars, filler, alive, reserved>>

-----------------------------------------------------------------------------
(* Threads of the process, and threads that the enclave creates.           *)

\* A thread ends, in or out of an ocall.
ThreadExits(t) ==
    /\ t \in alive
    /\ tpc[t] \in {"out", "in"}
    /\ alive' = alive \ {t}
    /\ UNCHANGED <<poolVars, waitVars, filler, tpc, reserved, running>>

\* Another one gets its id.  The kernel may reuse the id of a thread that left
\* nothing behind; one that ended inside an ocall keeps its TCS for good.
ThreadStarts(t) ==
    /\ t \notin alive
    /\ running[t] = <<>>
    /\ alive' = alive \cup {t}
    /\ UNCHANGED <<poolVars, waitVars, filler, tpc, reserved, running>>

\* pthread_create_ocall: acquire_free_thread, by a thread in an ocall.
CreateThread(t) ==
    /\ t \in alive /\ tpc[t] = "in"
    /\ Lock
    /\ Reserve
    /\ AskForMore
    /\ UNCHANGED <<modeVars, m_unallocated_threads, m_thread_mutex,
                   m_need_to_wait_for_new_thread, tpc, alive, running>>

CreateWait(t) ==
    t \in alive /\ tpc[t] = "in" /\ NothingFree /\ WaitForNewThread(t, "waitnew")

CreateRetry(t) ==
    /\ tpc[t] = "waitnew"
    /\ ~ m_need_to_wait_for_new_thread
    /\ m_thread_mutex' = None
    /\ \/ Reserve
       \/ NothingFree /\ UNCHANGED <<m_free_thread_vector, m_thread_list, m_reference, reserved>>
    /\ AskForMore
    /\ tpc' = [tpc EXCEPT ![t] = "in"]
    /\ UNCHANGED <<modeVars, m_unallocated_threads, m_need_to_wait_for_new_thread, alive,
                   running>>

\* pthread_create failed: add_to_free_thread_vector.
UnreserveTcs(x) ==
    /\ x \in reserved
    /\ reserved' = reserved \ {x}
    /\ m_free_thread_vector' = Append(m_free_thread_vector, x)
    /\ UNCHANGED <<modeVars, m_unallocated_threads, m_thread_list, m_reference, waitVars,
                   filler, tpc, alive, running>>

\* pthread_create_routine: the new thread t binds the TCS to itself.
BindPthread(t, x) ==
    /\ x \in reserved
    /\ t \notin alive /\ running[t] = <<>>
    /\ m_thread_list[t] = None
    /\ m_thread_mutex = None
    /\ alive' = alive \cup {t}
    /\ reserved' = reserved \ {x}
    /\ m_thread_list' = [m_thread_list EXCEPT ![t] = x]
    /\ UNCHANGED <<modeVars, m_free_thread_vector, m_unallocated_threads, m_reference,
                   waitVars, filler, tpc, running>>

\* Its id is still in the list, bound to the TCS of an earlier thread: InsertNext and
\* bind_pthread return FALSE, which pthread_create_routine ignores.  The thread's
\* ecalls use the earlier TCS, and nobody has a pointer to the new one any more.
BindRefused(t, x) ==
    /\ x \in reserved
    /\ t \notin alive /\ running[t] = <<>>
    /\ m_thread_list[t] # None
    /\ m_thread_mutex = None
    /\ alive' = alive \cup {t}
    /\ reserved' = reserved \ {x}
    /\ lost' = lost \cup {x}
    /\ UNCHANGED <<bind, prompt, failed, m_free_thread_vector, m_unallocated_threads,
                   m_thread_list, m_reference, waitVars, filler, tpc, running>>

-----------------------------------------------------------------------------
(* The filler: CEnclave::fill_tcs_mini_pool over the pool's own.           *)

FillerGoto(from, to) == filler = from /\ filler' = to

\* One turn of the loop: make a TCS if one is needed.
FillerNeeds ==
    /\ filler = "need"
    /\ filler' = IF NeedToNewThread(m_free_thread_vector) THEN "make" ELSE "stop"
    /\ UNCHANGED <<poolVars, waitVars, tpc, alive, reserved, running>>

\* Mutation of NewThread: the TCS stays among the unallocated ones.
NewThread_Kept ==
    /\ FillerGoto("make", "go")
    /\ m_free_thread_vector' = Append(m_free_thread_vector, Last(m_unallocated_threads))
    /\ UNCHANGED <<modeVars, m_unallocated_threads, m_thread_list, m_reference, waitVars,
                   tpc, alive, reserved, running>>

\* new_thread: the MKTCS ecall runs on the utility TCS.
NewThread ==
    /\ FillerGoto("make", "go")
    /\ m_free_thread_vector' = Append(m_free_thread_vector, Last(m_unallocated_threads))
    /\ m_unallocated_threads' = Front(m_unallocated_threads)
    /\ UNCHANGED <<modeVars, m_thread_list, m_reference, waitVars, tpc, alive, reserved,
                   running>>

NewThreadFails ==
    /\ FillerGoto("make", "stop")
    /\ failed' = TRUE
    /\ UNCHANGED <<bind, prompt, lost, m_free_thread_vector, m_unallocated_threads,
                   m_thread_list, m_reference, waitVars, tpc, alive, reserved, running>>

\* Mutation of FillerSignals: a failed turn signals nobody.
FillerSignals_OnSuccess ==
    /\ FillerGoto("go", "need") \/ FillerGoto("stop", "wait")
    /\ m_need_to_wait_for_new_thread' = (m_need_to_wait_for_new_thread /\ filler = "stop")
    /\ UNCHANGED <<poolVars, m_thread_mutex, m_new_thread_event, tpc, alive, reserved,
                   running>>

\* The end of every turn lets the waiting thread go on, failure or not.
FillerSignals ==
    /\ FillerGoto("go", "need") \/ FillerGoto("stop", "wait")
    /\ m_need_to_wait_for_new_thread' = FALSE
    /\ UNCHANGED <<poolVars, m_thread_mutex, m_new_thread_event, tpc, alive, reserved,
                   running>>

\* se_event_wait(m_new_thread_event): the atomic decrement, and FUTEX_WAIT if the
\* event was 0.  A wake-up between the two finds nobody and lets FUTEX_WAIT return,
\* which is as good as a sleep that it ends, so they are one step.
FillerWaits ==
    /\ filler = "wait"
    /\ m_new_thread_event > -EventDepth
    /\ m_new_thread_event' = m_new_thread_event - 1
    /\ filler' = IF m_new_thread_event = 0 THEN "asleep" ELSE "need"
    /\ UNCHANGED <<poolVars, m_thread_mutex, m_need_to_wait_for_new_thread, tpc, alive,
                   reserved, running>>

\* A signal, or a FUTEX_WAKE of an earlier round that comes late, ends the sleep;
\* se_event_wait returns success and leaves its decrement in the event.
FillerStirred ==
    /\ ~ prompt
    /\ FillerGoto("asleep", "need")
    /\ UNCHANGED <<poolVars, waitVars, tpc, alive, reserved, running>>

FillerStep == FillerNeeds \/ NewThread \/ NewThreadFails \/ FillerSignals \/ FillerWaits

-----------------------------------------------------------------------------

Next ==
    \/ \E t \in Threads :
          Ecall(t) \/ EcallWait(t) \/ EcallRetry(t) \/ EcallReturns(t) \/ PthreadExit(t)
          \/ CreateThread(t) \/ CreateWait(t) \/ CreateRetry(t)
          \/ ThreadExits(t) \/ ThreadStarts(t)
          \/ \E x \in Tcs : BindPthread(t, x) \/ BindRefused(t, x)
    \/ \E x \in Tcs : UnreserveTcs(x)
    \/ FillerStep
    \/ FillerStirred

\* The filler runs, and a thread whose wait is over goes on.
Fairness ==
    /\ WF_vars(FillerStep)
    /\ \A t \in Threads : WF_vars(EcallRetry(t) \/ CreateRetry(t))

Spec == Init /\ [][Next]_vars

FairSpec == Spec /\ Fairness

-----------------------------------------------------------------------------

\* Types; reference counts are never negative.
PoolTypeOK ==
    /\ bind \in BOOLEAN /\ prompt \in BOOLEAN
    /\ m_free_thread_vector \in Seq(Tcs)
    /\ m_unallocated_threads \in Seq(Tcs)
    /\ m_thread_list \in [Threads -> Tcs \cup {None}]
    /\ m_reference \in [Tcs -> Nat]
    /\ m_thread_mutex \in Threads \cup {None}
    /\ m_need_to_wait_for_new_thread \in BOOLEAN
    /\ m_new_thread_event \in -EventDepth..MaxEvents
    /\ filler \in {"none", "need", "make", "go", "stop", "wait", "asleep"}
    /\ tpc \in [Threads -> {"out", "in", "wait", "waitnew"}]
    /\ alive \subseteq Threads
    /\ reserved \subseteq Tcs /\ lost \subseteq Tcs
    /\ running \in [Threads -> Seq(Tcs)]
    /\ failed \in BOOLEAN

\* No two threads run ecalls on the same TCS, none runs on the utility TCS of
\* the filler, and a TCS that carries an ecall, running or in an ocall, is not
\* up for being handed out again, nor given up for lost.
TcsExclusive ==
    \A t \in Threads : \A x \in Elements(running[t]) :
        /\ x # UtilityTcs
        /\ x \notin Elements(m_free_thread_vector) \cup reserved \cup lost
        /\ \A u \in Threads \ {t} : x \notin Elements(running[u])

\* Garbage collection trusts the reference count: it is the number of ecalls on
\* the TCS, and the nested ecalls of a thread are all on the TCS bound to it.
ReferenceAgrees ==
    /\ PoolTypeOK
    /\ \A t \in Threads : \A x \in Elements(running[t]) : m_thread_list[t] = x
    /\ \A x \in Tcs :
          m_reference[x] = Cardinality({u \in Threads \X (1..MaxNest) :
                                           /\ u[2] \in DOMAIN running[u[1]]
                                           /\ running[u[1]][u[2]] = x})

Once(s) == \A i, j \in DOMAIN s : s[i] = s[j] => i = j

\* Where a TCS can be: free, unallocated, bound to one thread, reserved for one that
\* is being created, the utility, or lost to a thread that got a reused id.
TcsPlaces == <<Elements(m_free_thread_vector), Elements(m_unallocated_threads),
               {m_thread_list[t] : t \in Bound}, reserved, {UtilityTcs} \ {None}, lost>>

OnePlaceEach ==
    /\ Once(m_free_thread_vector) /\ Once(m_unallocated_threads)
    /\ \A t, u \in Bound : m_thread_list[t] = m_thread_list[u] => t = u
    /\ \A i, j \in DOMAIN TcsPlaces : i # j => TcsPlaces[i] \cap TcsPlaces[j] = {}
    /\ UNION Elements(TcsPlaces) = Tcs

\* What garbage collection and allocation rely on, whatever races: the reference
\* counts are exact, and every TCS is in exactly one place.  One way out of the pool
\* exists, and the property counts it as a place: the TCS of a pthread whose id was
\* still bound when it started, which bind_pthread refuses and the caller drops
\* (enclave_thread.cpp:59).  Such a TCS carries no ecall and never comes back; by no
\* other step is a TCS lost.
TcsAccounted == ReferenceAgrees /\ OnePlaceEach

\* A thread that waits for a TCS, with the pool's mutex locked, goes on, also
\* when no TCS could be made.  Only where nothing but a wake-up ends the filler's
\* sleep (prompt): otherwise its event may be left at -1, fill_tcs_mini_pool_fn brings
\* it to 0, and the filler on its way to se_event_wait sleeps through the request.
WaiterGoesOn ==
    \A t \in Threads :
        prompt /\ tpc[t] \in {"wait", "waitnew"} ~> tpc[t] \in {"out", "in"}

\* When the free list falls below m_tcs_min_pool the filler fills it, as far as
\* the unallocated TCS go; after a failure of MKTCS it waits to be asked again.
\* As above, where nothing but a wake-up ends the filler's sleep.
PoolRefilled ==
    prompt /\ NeedToNewThread(m_free_thread_vector) ~>
        \/ ~ NeedToNewThread(m_free_thread_vector)
        \/ failed

=============================================================================
