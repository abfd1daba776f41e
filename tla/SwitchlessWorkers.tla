------------------------- MODULE SwitchlessWorkers --------------------------
(***************************************************************************)
(* The worker threads of switchless calls, from creation to join:          *)
(* sdk/switchless/sgx_uswitchless/sl_workers_untrusted.c and               *)
(* sl_uswitchless_untrusted.c.                                             *)
(*                                                                         *)
(* Two pools of threads serve an enclave: "U" takes ocalls outside it, "T" *)
(* takes ecalls inside it.  They are created with the enclave, sleep on    *)
(* the futex word should_wake until the first ecall starts them, process   *)
(* calls until idle, sleep again until a caller wakes them, and are joined *)
(* when the enclave is destroyed.  The creating and destroying thread,     *)
(* the first caller, the waker thread and every worker run concurrently.   *)
(* What a worker does while it processes calls is module SwitchlessCalls.  *)
(***************************************************************************)
EXTENDS Integers, FiniteSets

CONSTANTS
    UWorkers, TWorkers, \* the threads of the two pools
    CreateFails,        \* TRUE: pthread_create may fail
    ConcurrentEcalls,   \* TRUE: other ecalls run while the first starts the pools
    Signals,            \* the values that signals may have
    Builds              \* the values that debug may have

ASSUME WorkersAssumption ==
    /\ IsFiniteSet(UWorkers) /\ IsFiniteSet(TWorkers)
    /\ UWorkers \cap TWorkers = {}
    /\ CreateFails \in BOOLEAN /\ ConcurrentEcalls \in BOOLEAN /\ Signals \subseteq BOOLEAN
    /\ Builds \subseteq BOOLEAN

VARIABLES
    signals,          \* TRUE: a signal may end FUTEX_WAIT without a wake (EINTR)
    debug,            \* TRUE: a build with SL_DEBUG, where a failed BUG_ON aborts
    aborted,          \* TRUE once the process has aborted
    main,             \* where the creating and destroying thread is
    pool,             \* the pool that it works on
    starter,          \* where the first caller is in start_workers
    waker,            \* where the waker thread is
    wpc,              \* where each worker is in run_worker
    should_wake, num_running, num_sleeping, \* of each pool
    us_ocall_table,   \* TRUE once the ocall table is registered
    us_should_stop, us_init_finished, us_wake_workers

poolVars == <<should_wake, num_running, num_sleeping>>
handleVars == <<us_ocall_table, us_should_stop, us_init_finished, us_wake_workers>>
buildVars == <<debug, aborted>>
workersVars == <<buildVars, signals, main, pool, starter, waker, wpc, poolVars, handleVars>>

Pools == {"U", "T"}
AllWorkers == UWorkers \cup TWorkers
Members(p) == IF p = "U" THEN UWorkers ELSE TWorkers
PoolOf(w) == IF w \in UWorkers THEN "U" ELSE "T"

Init ==
    /\ signals \in Signals
    /\ debug \in Builds
    /\ aborted = FALSE
    /\ main = "create"
    /\ pool = "U"
    /\ starter = "none"
    /\ waker = "none"
    /\ wpc = [w \in AllWorkers |-> "none"]
    /\ should_wake = [p \in Pools |-> 0]
    /\ num_running = [p \in Pools |-> 0]
    /\ num_sleeping = [p \in Pools |-> 0]
    /\ us_ocall_table = FALSE
    /\ us_should_stop = FALSE
    /\ us_init_finished = FALSE
    /\ us_wake_workers = FALSE

-----------------------------------------------------------------------------
(* BUG_ON.  Without SL_DEBUG it evaluates its condition and does nothing.  *)

\* A thread goes past BUG_ON(us_init_finished == 0).
Passes == us_init_finished \/ ~ debug

\* The threads that stand before it: a worker that returns from its first sleep,
\* and whoever is about to call wake_all_threads before the first ecall has
\* finished its initialization.  (A later return from a sleep meets no BUG_ON, but
\* comes after one that passed.)
AtBugOn ==
    {w \in AllWorkers : wpc[w] = "woken"}
    \cup {x \in {"waker"} : waker = "wake"}
    \cup {x \in {"main"} : \/ main = "error"
                           \/ main \in {"kill", "undo"} /\ (pool = "U" => waker = "gone")}

BugOn ==
    /\ ~ aborted
    /\ ~ Passes
    /\ AtBugOn # {}
    /\ aborted' = TRUE
    /\ UNCHANGED <<debug, signals, main, pool, starter, waker, wpc, poolVars, handleVars>>

\* Every other step is one of a process that runs.
Alive == ~ aborted /\ UNCHANGED buildVars

-----------------------------------------------------------------------------
(* The futex.                                                              *)

\* FUTEX_WAKE of all, with wp the worker states that the rest of the step gives.
Woken(wp, p) ==
    [w \in AllWorkers |-> IF w \in Members(p) /\ wp[w] = "futex" THEN "woken" ELSE wp[w]]

\* wake_all_threads
WakeAll(p) == Passes /\ wpc' = Woken(wpc, p)

-----------------------------------------------------------------------------
(* A worker: run_worker and sleep_this_thread.                             *)

WorkerAt(w, from, to) ==
    /\ wpc[w] = from
    /\ wpc' = [wpc EXCEPT ![w] = to]

Add(counter, w, n) == [counter EXCEPT ![PoolOf(w)] = @ + n]

\* Mutation of WorkerStart: no sleep after creation.
WorkerStart_Awake(w) ==
    /\ WorkerAt(w, "new", "loop")
    /\ num_running' = Add(num_running, w, 1)
    /\ UNCHANGED <<signals, main, pool, starter, waker, should_wake, num_sleeping,
                   handleVars>>

WorkerStart(w) ==
    /\ WorkerAt(w, "new", "first")
    /\ num_running' = Add(num_running, w, 1)
    /\ UNCHANGED <<signals, main, pool, starter, waker, should_wake, num_sleeping,
                   handleVars>>

\* The first sleep comes after creation, the others when idle.
WorkerDoze(w) ==
    /\ WorkerAt(w, "first", "doze") \/ WorkerAt(w, "idle", "doze")
    /\ num_sleeping' = Add(num_sleeping, w, 1)
    /\ UNCHANGED <<signals, main, pool, starter, waker, should_wake, num_running,
                   handleVars>>

\* FUTEX_WAIT sleeps only if should_wake is 0.
WorkerFutex(w) ==
    /\ WorkerAt(w, "doze", IF should_wake[PoolOf(w)] = 0 THEN "futex" ELSE "woken")
    /\ UNCHANGED <<signals, main, pool, starter, waker, poolVars, handleVars>>

Spurious(w) ==
    /\ signals
    /\ WorkerAt(w, "futex", "woken")
    /\ UNCHANGED <<signals, main, pool, starter, waker, poolVars, handleVars>>

\* Mutation of WorkerRise: num_sleeping is not decreased.
WorkerRise_Uncounted(w) ==
    /\ Passes
    /\ WorkerAt(w, "woken", "loop")
    /\ UNCHANGED <<signals, main, pool, starter, waker, poolVars, handleVars>>

\* The end of sleep_this_thread, with the BUG_ON that follows the first sleep.
WorkerRise(w) ==
    /\ Passes
    /\ WorkerAt(w, "woken", "loop")
    /\ num_sleeping' = Add(num_sleeping, w, -1)
    /\ UNCHANGED <<signals, main, pool, starter, waker, should_wake, num_running,
                   handleVars>>

\* The head of the main loop.  Its BUG_ON(us_ocall_table == NULL) is property
\* WorkAfterFirstEcall.
WorkerLoop(w) ==
    /\ WorkerAt(w, "loop", IF us_should_stop THEN "exit" ELSE "process")
    /\ UNCHANGED <<signals, main, pool, starter, waker, poolVars, handleVars>>

\* process_calls_fn returns after retries_before_sleep empty scans, or at the
\* first empty scan after us_should_stop; the flag is then read again.
WorkerIdle(w) ==
    /\ WorkerAt(w, "process", IF us_should_stop THEN "loop" ELSE "idle")
    /\ UNCHANGED <<signals, main, pool, starter, waker, poolVars, handleVars>>

WorkerExit(w) ==
    /\ WorkerAt(w, "exit", "gone")
    /\ num_running' = Add(num_running, w, -1)
    /\ UNCHANGED <<signals, main, pool, starter, waker, should_wake, num_sleeping,
                   handleVars>>

WorkerStep(w) ==
    /\ Alive
    /\ \/ WorkerStart(w) \/ WorkerDoze(w) \/ WorkerFutex(w) \/ WorkerRise(w)
       \/ WorkerLoop(w) \/ WorkerIdle(w) \/ WorkerExit(w)

-----------------------------------------------------------------------------
(* The waker thread, and callers that find workers asleep.                 *)

WakerLoop ==
    /\ waker = "run"
    /\ waker' = IF us_should_stop THEN "gone"
                ELSE IF us_wake_workers THEN "wake" ELSE "run"
    /\ UNCHANGED <<signals, main, pool, starter, wpc, poolVars, handleVars>>

WakerWake ==
    /\ waker = "wake"
    /\ waker' = "reset"
    /\ WakeAll("U")
    /\ UNCHANGED <<signals, main, pool, starter, poolVars, handleVars>>

WakerReset ==
    /\ waker = "reset"
    /\ waker' = "run"
    /\ us_wake_workers' = FALSE
    /\ UNCHANGED <<signals, main, pool, starter, wpc, poolVars, us_ocall_table,
                   us_should_stop, us_init_finished>>

WakerStep == Alive /\ (WakerLoop \/ WakerWake \/ WakerReset)

\* sl_uswitchless_do_switchless_ecall, up to the call itself
EcallWakes ==
    /\ main = "ready"
    /\ us_init_finished
    /\ num_running["T"] # 0
    /\ num_sleeping["T"] # 0
    /\ WakeAll("T")
    /\ UNCHANGED <<signals, main, pool, starter, waker, poolVars, handleVars>>

\* sgx_ocall_switchless, up to the call itself, in some ecall that runs when
\* the enclave knows the handle.
OcallWakes ==
    /\ main = "ready"
    /\ IF ConcurrentEcalls THEN starter # "none" ELSE starter = "done"
    /\ num_running["U"] # 0
    /\ num_sleeping["U"] # 0
    /\ us_wake_workers' = TRUE
    /\ UNCHANGED <<signals, main, pool, starter, waker, wpc, poolVars, us_ocall_table,
                   us_should_stop, us_init_finished>>

-----------------------------------------------------------------------------
(* The first ecall: sl_uswitchless_start_workers.                          *)

\* sl_call_once lets one caller through; sl_init_switchless gives the enclave
\* the handle.
StartInit ==
    /\ main = "ready"
    /\ starter = "none"
    /\ starter' = "init"
    /\ UNCHANGED <<signals, main, pool, waker, wpc, poolVars, handleVars>>

\* lock_cmpxchg_ptr and sl_call_mngr_register_calls
StartTable ==
    /\ starter = "init"
    /\ starter' = "table"
    /\ us_ocall_table' = TRUE
    /\ UNCHANGED <<signals, main, pool, waker, wpc, poolVars, us_should_stop,
                   us_init_finished, us_wake_workers>>

StartFinished ==
    /\ starter = "table"
    /\ starter' = "wakeU"
    /\ us_init_finished' = TRUE
    /\ UNCHANGED <<signals, main, pool, waker, wpc, poolVars, us_ocall_table,
                   us_should_stop, us_wake_workers>>

\* sl_workers_run_threads
StartWake ==
    /\ \/ starter = "wakeU" /\ starter' = "wakeT" /\ WakeAll("U")
       \/ starter = "wakeT" /\ starter' = "done" /\ WakeAll("T")
    /\ UNCHANGED <<signals, main, pool, waker, poolVars, handleVars>>

StarterStep == Alive /\ (StartTable \/ StartFinished \/ StartWake)

-----------------------------------------------------------------------------
(* Creation: sl_uswitchless_init_workers, one pool after the other.        *)

MainAt(from, to) == main = from /\ main' = to

\* One iteration of the pthread_create loop.
CreateWorker ==
    /\ main = "create"
    /\ \E w \in Members(pool) :
          /\ wpc[w] = "none"
          /\ \/ wpc' = [wpc EXCEPT ![w] = "new"] /\ UNCHANGED main
             \/ CreateFails /\ main' = "error" /\ UNCHANGED wpc
    /\ UNCHANGED <<signals, pool, starter, waker, poolVars, handleVars>>

CreatedAll ==
    /\ MainAt("create", "await")
    /\ \A w \in Members(pool) : wpc[w] # "none"
    /\ UNCHANGED <<signals, pool, starter, waker, wpc, poolVars, handleVars>>

\* while (num_running != num_all); the untrusted pool then gets its waker.
AwaitRunning ==
    /\ main = "await"
    /\ num_running[pool] = Cardinality(Members(pool))
    /\ \/ pool = "U" /\ main' = "create" /\ pool' = "T" /\ waker' = "run"
       \/ pool = "U" /\ CreateFails /\ main' = "error" /\ UNCHANGED <<pool, waker>>
       \/ pool = "T" /\ main' = "ready" /\ UNCHANGED <<pool, waker>>
    /\ UNCHANGED <<signals, starter, wpc, poolVars, handleVars>>

\* on_error: stop, wake, and then join those that were started.
InitError ==
    /\ MainAt("error", "errorjoin")
    /\ us_should_stop' = TRUE
    /\ WakeAll(pool)
    /\ UNCHANGED <<signals, pool, starter, waker, poolVars, us_ocall_table,
                   us_init_finished, us_wake_workers>>

\* If the trusted pool failed the untrusted one is killed.
InitErrorJoin ==
    /\ main = "errorjoin"
    /\ \A w \in Members(pool) : wpc[w] \in {"none", "gone"}
    /\ main' = IF pool = "T" THEN "undo" ELSE "freed"
    /\ pool' = "U"
    /\ UNCHANGED <<signals, starter, waker, wpc, poolVars, handleVars>>

-----------------------------------------------------------------------------
(* Destruction: sl_destroy_uswitchless.                                    *)

\* The client destroys the enclave when no ecall of its own is in progress,
\* possibly before it has made any.
Stop ==
    /\ MainAt("ready", "kill")
    /\ starter \in {"none", "done"}
    /\ us_should_stop' = TRUE
    /\ pool' = "U"
    /\ UNCHANGED <<signals, starter, waker, wpc, poolVars, us_ocall_table, us_init_finished,
                   us_wake_workers>>

\* Mutation of KillThreads: should_wake is left at 0.
KillThreads_NoFlag ==
    /\ MainAt("kill", "join") \/ MainAt("undo", "undojoin")
    /\ pool = "U" => waker = "gone"
    /\ WakeAll(pool)
    /\ UNCHANGED <<signals, pool, starter, waker, poolVars, handleVars>>

\* Mutation of KillThreads: the waker is not joined.
KillThreads_Waker ==
    /\ MainAt("kill", "join") \/ MainAt("undo", "undojoin")
    /\ should_wake' = [should_wake EXCEPT ![pool] = 1]
    /\ WakeAll(pool)
    /\ UNCHANGED <<signals, pool, starter, waker, num_running, num_sleeping, handleVars>>

\* sl_workers_kill_threads up to the joins, in sl_uswitchless_stop_workers or
\* in a failed initialization.  The waker is joined first.
KillThreads ==
    /\ MainAt("kill", "join") \/ MainAt("undo", "undojoin")
    /\ pool = "U" => waker = "gone"
    /\ should_wake' = [should_wake EXCEPT ![pool] = 1]
    /\ WakeAll(pool)
    /\ UNCHANGED <<signals, pool, starter, waker, num_running, num_sleeping, handleVars>>

\* The joins; then the other pool, and at last sl_uswitchless_free.
JoinThreads ==
    /\ \A w \in Members(pool) : wpc[w] = "gone"
    /\ \/ MainAt("join", IF pool = "U" THEN "kill" ELSE "freed")
       \/ MainAt("undojoin", "freed")
    /\ pool' = "T"
    /\ UNCHANGED <<signals, starter, waker, wpc, poolVars, handleVars>>

MainStep ==
    /\ Alive
    /\ \/ CreateWorker \/ CreatedAll \/ AwaitRunning \/ InitError \/ InitErrorJoin
       \/ KillThreads \/ JoinThreads

\* What nobody has to do: signals, calls, and the end.
ClientStep ==
    /\ Alive
    /\ \/ \E w \in AllWorkers : Spurious(w)
       \/ EcallWakes \/ OcallWakes
       \/ StartInit \/ Stop

-----------------------------------------------------------------------------

Next ==
    \/ \E w \in AllWorkers : WorkerStep(w)
    \/ WakerStep
    \/ StarterStep
    \/ MainStep
    \/ ClientStep
    \/ BugOn

\* Every thread that can run does; no one has to make a call or to stop.
Fairness ==
    /\ \A w \in AllWorkers : WF_workersVars(WorkerStep(w))
    /\ WF_workersVars(WakerStep)
    /\ WF_workersVars(StarterStep)
    /\ WF_workersVars(MainStep)
    /\ WF_workersVars(BugOn)

Spec == Init /\ [][Next]_workersVars

FairSpec == Spec /\ Fairness

-----------------------------------------------------------------------------

\* Types, and the range of the counters.
WorkersTypeOK ==
    /\ signals \in BOOLEAN /\ debug \in BOOLEAN /\ aborted \in BOOLEAN
    /\ main \in {"create", "await", "error", "errorjoin", "ready", "kill", "join", "undo",
                 "undojoin", "freed"}
    /\ pool \in Pools
    /\ starter \in {"none", "init", "table", "wakeU", "wakeT", "done"}
    /\ waker \in {"none", "run", "wake", "reset", "gone"}
    /\ wpc \in [AllWorkers -> {"none", "new", "first", "doze", "futex", "woken", "loop",
                               "process", "idle", "exit", "gone"}]
    /\ should_wake \in [Pools -> 0..1]
    /\ \A p \in Pools : num_running[p] \in 0..Cardinality(Members(p))
    /\ \A p \in Pools : num_sleeping[p] \in 0..Cardinality(Members(p))
    /\ us_ocall_table \in BOOLEAN /\ us_should_stop \in BOOLEAN /\ us_init_finished \in BOOLEAN
    /\ us_wake_workers \in BOOLEAN

Running(p) == {w \in Members(p) : wpc[w] \notin {"none", "new", "gone"}}
Sleeping(p) == {w \in Members(p) : wpc[w] \in {"doze", "futex", "woken"}}

\* The counters that callers read to decide whether there is anybody to call
\* and anybody to wake agree with the threads; in particular a worker in the
\* futex is always counted as sleeping.
CountersAgree ==
    /\ WorkersTypeOK
    /\ \A p \in Pools :
          /\ num_running[p] = Cardinality(Running(p))
          /\ num_sleeping[p] = Cardinality(Sleeping(p))

\* When the handle is freed none of its threads is left to use it; with
\* BUG_ON(workers->num_running > 0) in sl_workers_destroy.
FreedWithoutThreads ==
    main = "freed" =>
        /\ \A w \in AllWorkers : wpc[w] \in {"none", "gone"}
        /\ waker \in {"none", "gone"}
        /\ \A p \in Pools : num_running[p] = 0

\* "After creation, the worker thread will sleep until the first user-defined
\* ECall", because "this OCall table must be given to trusted or untrusted
\* workers": no worker processes calls before the table is registered, unless a
\* signal ends its first sleep.
WorkAfterFirstEcall ==
    signals \/ \A w \in AllWorkers : wpc[w] = "process" => us_ocall_table

\* A creating thread waits for a worker that went to sleep after on_error's wake-up.
JoinsSleeper == main = "errorjoin" /\ \E w \in Members(pool) : wpc[w] = "futex"

\* Destroying an enclave ends: every worker leaves its loop and is joined, wherever
\* it was when us_should_stop was set, also in the first sleep of an enclave that
\* never had an ecall.  A failed creation ends too, unless a worker reaches
\* FUTEX_WAIT after the one wake-up of on_error, which does not set should_wake.
\* That is a production build: with SL_DEBUG, BUG_ON(us_init_finished == 0) in
\* wake_all_threads aborts every stop that comes before the first ecall.
StopEnds ==
    /\ main = "kill" /\ Passes ~> main = "freed"
    /\ main = "error" /\ Passes ~> main = "freed" \/ JoinsSleeper
    /\ main \in {"kill", "error"} /\ ~ Passes ~> aborted

=============================================================================
