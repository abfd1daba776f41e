---------------------- MODULE SwitchlessWorkersProofs -----------------------
(***************************************************************************)
(* Proofs about SwitchlessWorkers, for any finite pools and with or        *)
(* without failures of pthread_create, signals and SL_DEBUG: the counters  *)
(* that callers read are exact, the handle is freed when no thread is left *)
(* and no worker works before the first ecall.                             *)
(***************************************************************************)
EXTENDS SwitchlessWorkers, FiniteSetTheorems, TLAPS

WorkerSteps == {"none", "new", "first", "doze", "futex", "woken", "loop", "process", "idle",
                "exit", "gone"}
RunningSteps == WorkerSteps \ {"none", "new", "gone"}
SleepingSteps == {"doze", "futex", "woken"}

\* The workers of pool p that wp has at one of the steps S.
Holding(wp, S, p) == {w \in Members(p) : wp[w] \in S}

\* The types, without the ranges of the counters.
StepTypeOK ==
    /\ signals \in BOOLEAN
    /\ main \in {"create", "await", "error", "errorjoin", "ready", "kill", "join", "undo",
                 "undojoin", "freed"}
    /\ pool \in Pools
    /\ starter \in {"none", "init", "table", "wakeU", "wakeT", "done"}
    /\ waker \in {"none", "run", "wake", "reset", "gone"}
    /\ wpc \in [AllWorkers -> WorkerSteps]
    /\ should_wake \in [Pools -> 0..1]
    /\ us_ocall_table \in BOOLEAN /\ us_should_stop \in BOOLEAN
    /\ us_init_finished \in BOOLEAN /\ us_wake_workers \in BOOLEAN

\* A counter of the pools counts the workers at the steps S.
Counts(counter, wp, S) ==
    /\ counter \in [Pools -> Int]
    /\ \A p \in Pools : counter[p] = Cardinality(Holding(wp, S, p))

CountInv == Counts(num_running, wpc, RunningSteps) /\ Counts(num_sleeping, wpc, SleepingSteps)

\* Which threads exist, by where the creating and destroying thread is: the pool
\* after the present one has no threads yet, and the pool before it has no more.
Creating == main \in {"create", "await", "error", "errorjoin"}

MainInv ==
    /\ Creating /\ pool = "U" => waker = "none" /\ \A w \in TWorkers : wpc[w] = "none"
    /\ main = "ready" => pool = "T"
    /\ main \in {"undo", "undojoin"} =>
           pool = "U" /\ \A w \in TWorkers : wpc[w] \in {"none", "gone"}
    /\ main \in {"kill", "join"} /\ pool = "T" => \A w \in UWorkers : wpc[w] = "gone"
    /\ main \in {"join", "undojoin"} \/ (main = "kill" /\ pool = "T") => waker = "gone"
    /\ main = "freed" =>
           /\ \A w \in AllWorkers : wpc[w] \in {"none", "gone"}
           /\ waker \in {"none", "gone"}

\* What the flags say: the workers are told to stop before they are killed, and
\* nobody is woken for work before the table of ocalls is there.
FlagInv ==
    /\ main \in {"errorjoin", "undo", "undojoin", "kill", "join", "freed"} => us_should_stop
    /\ \A p \in Pools : should_wake[p] # 0 => us_should_stop
    /\ us_ocall_table <=> starter \notin {"none", "init"}
    /\ us_init_finished => us_ocall_table
    /\ ~ ConcurrentEcalls /\ (us_wake_workers \/ waker = "wake") => us_ocall_table

\* Before the table is there a worker has left its first sleep only to stop.
FirstSleep ==
    ~ ConcurrentEcalls /\ ~ signals /\ ~ us_ocall_table =>
        /\ \A w \in AllWorkers : wpc[w] \notin {"process", "idle"}
        /\ ~ us_should_stop =>
               \A w \in AllWorkers : wpc[w] \in {"none", "new", "first", "doze", "futex"}

\* The inductive invariant.
WorkersInv == StepTypeOK /\ CountInv /\ MainInv /\ FlagInv /\ FirstSleep

-----------------------------------------------------------------------------
(* Counting the workers.                                                   *)

LEMMA PoolFacts ==
    /\ \A p \in Pools : Members(p) \subseteq AllWorkers /\ IsFiniteSet(Members(p))
    /\ \A w \in AllWorkers : PoolOf(w) \in Pools /\ w \in Members(PoolOf(w))
    /\ \A p \in Pools : \A w \in Members(p) : p = PoolOf(w)
BY WorkersAssumption DEF Pools, AllWorkers, Members, PoolOf

LEMMA HoldingFinite ==
    ASSUME NEW wp, NEW S, NEW p \in Pools
    PROVE  /\ IsFiniteSet(Holding(wp, S, p))
           /\ Cardinality(Holding(wp, S, p)) \in 0..Cardinality(Members(p))
<1>1. Holding(wp, S, p) \subseteq Members(p) /\ IsFiniteSet(Members(p))
  BY PoolFacts DEF Holding
<1>2. PICK H, M : H = Holding(wp, S, p) /\ M = Members(p)
  OBVIOUS
<1>3. /\ IsFiniteSet(H) /\ Cardinality(H) \in Nat /\ Cardinality(M) \in Nat
      /\ Cardinality(H) <= Cardinality(M)
  BY <1>1, <1>2, FS_Subset, FS_CardinalityType
<1> QED
  BY <1>2, <1>3

\* One worker goes from one step to another.
LEMMA CountMove ==
    ASSUME NEW wp \in [AllWorkers -> WorkerSteps], NEW w \in AllWorkers, NEW to,
           NEW wq, wq = [wp EXCEPT ![w] = to],
           NEW S, NEW counter, Counts(counter, wp, S),
           NEW next,
           \/ wp[w] \notin S /\ to \in S /\ next = Add(counter, w, 1)
           \/ wp[w] \in S /\ to \notin S /\ next = Add(counter, w, -1)
           \/ (wp[w] \in S <=> to \in S) /\ next = counter
    PROVE  Counts(next, wq, S)
<1>1. wq[w] = to /\ \A v \in AllWorkers \ {w} : wq[v] = wp[v]
  OBVIOUS
<1>2. counter \in [Pools -> Int] /\ PoolOf(w) \in Pools
  BY PoolFacts DEF Counts
<1>3. next \in [Pools -> Int]
  BY <1>2 DEF Add
<1>4. ASSUME NEW p \in Pools PROVE next[p] = Cardinality(Holding(wq, S, p))
  <2>1. counter[p] = Cardinality(Holding(wp, S, p)) /\ counter[p] \in Int
    BY <1>2, <1>4 DEF Counts
  <2>2. /\ IsFiniteSet(Holding(wp, S, p)) /\ Cardinality(Holding(wp, S, p)) \in Int
    BY <1>4, HoldingFinite
  <2>3. CASE p # PoolOf(w) \/ (wp[w] \in S <=> to \in S)
    <3>1. Holding(wq, S, p) = Holding(wp, S, p)
      BY <1>1, <1>4, <2>3, PoolFacts DEF Holding
    <3>2. next[p] = counter[p]
      BY <1>2, <1>4, <2>3 DEF Add
    <3> QED
      BY <2>1, <3>1, <3>2
  <2>4. CASE p = PoolOf(w) /\ wp[w] \notin S /\ to \in S
    <3>1. Holding(wq, S, p) = Holding(wp, S, p) \cup {w} /\ w \notin Holding(wp, S, p)
      BY <1>1, <1>4, <2>4, PoolFacts DEF Holding
    <3>2. next[p] = counter[p] + 1
      BY <1>2, <2>4 DEF Add
    <3>3. Cardinality(Holding(wp, S, p) \cup {w}) = Cardinality(Holding(wp, S, p)) + 1
      BY <2>2, <3>1, FS_AddElement
    <3> QED
      BY <2>1, <3>1, <3>2, <3>3
  <2>5. CASE p = PoolOf(w) /\ wp[w] \in S /\ to \notin S
    <3>1. Holding(wq, S, p) = Holding(wp, S, p) \ {w} /\ w \in Holding(wp, S, p)
      BY <1>1, <1>4, <2>5, PoolFacts DEF Holding
    <3>2. next[p] = counter[p] - 1
      BY <1>2, <2>5 DEF Add
    <3>3. Cardinality(Holding(wp, S, p) \ {w}) = Cardinality(Holding(wp, S, p)) - 1
      BY <2>2, <3>1, FS_RemoveElement
    <3> QED
      BY <2>1, <3>1, <3>2, <3>3
  <2> QED
    BY <2>3, <2>4, <2>5
<1> QED
  BY <1>3, <1>4 DEF Counts

\* Waking the workers in a futex changes no counter.
LEMMA CountWoken ==
    ASSUME NEW wp \in [AllWorkers -> WorkerSteps], NEW p \in Pools,
           NEW S, "futex" \in S <=> "woken" \in S, NEW counter, Counts(counter, wp, S)
    PROVE  Counts(counter, Woken(wp, p), S)
<1>1. \A q \in Pools : Holding(Woken(wp, p), S, q) = Holding(wp, S, q)
  BY PoolFacts DEF Holding, Woken
<1> QED
  BY <1>1 DEF Counts

-----------------------------------------------------------------------------
(* The steps of a worker.                                                  *)

\* All but the workers and their counters.
restVars == <<signals, main, pool, starter, waker, should_wake, handleVars>>

\* How a step of w moves it, with what it counts.
Moves(w, to) ==
    \/ /\ \/ wpc[w] = "new" /\ to = "first" /\ num_running' = Add(num_running, w, 1)
          \/ wpc[w] = "exit" /\ to = "gone" /\ num_running' = Add(num_running, w, -1)
       /\ num_sleeping' = num_sleeping
    \/ /\ \/ wpc[w] \in {"first", "idle"} /\ to = "doze" /\ num_sleeping' = Add(num_sleeping, w, 1)
          \/ wpc[w] = "woken" /\ to = "loop" /\ num_sleeping' = Add(num_sleeping, w, -1)
       /\ num_running' = num_running
    \/ /\ \/ wpc[w] = "doze" /\ to = "futex"
          \/ wpc[w] = "doze" /\ to = "woken" /\ should_wake[PoolOf(w)] # 0
          \/ wpc[w] = "futex" /\ to = "woken" /\ signals
          \/ wpc[w] = "loop" /\ to = IF us_should_stop THEN "exit" ELSE "process"
          \/ wpc[w] = "process" /\ to = IF us_should_stop THEN "loop" ELSE "idle"
       /\ num_running' = num_running /\ num_sleeping' = num_sleeping

LEMMA WorkerMoves ==
    ASSUME NEW w \in AllWorkers, WorkerStep(w) \/ Spurious(w)
    PROVE  UNCHANGED restVars /\ \E to \in WorkerSteps : wpc' = [wpc EXCEPT ![w] = to] /\ Moves(w, to)
<1> USE DEF WorkerAt, WorkerSteps, restVars, poolVars, Moves
<1>1. CASE WorkerStart(w)
  BY <1>1 DEF WorkerStart
<1>2. CASE WorkerDoze(w)
  BY <1>2 DEF WorkerDoze
<1>3. CASE WorkerFutex(w)
  <2>1. CASE should_wake[PoolOf(w)] = 0
    BY <1>3, <2>1 DEF WorkerFutex
  <2>2. CASE should_wake[PoolOf(w)] # 0
    BY <1>3, <2>2 DEF WorkerFutex
  <2> QED
    BY <2>1, <2>2
<1>4. CASE WorkerRise(w)
  BY <1>4 DEF WorkerRise
<1>5. CASE WorkerLoop(w)
  BY <1>5 DEF WorkerLoop
<1>6. CASE WorkerIdle(w)
  BY <1>6 DEF WorkerIdle
<1>7. CASE WorkerExit(w)
  BY <1>7 DEF WorkerExit
<1>8. CASE Spurious(w)
  BY <1>8 DEF Spurious
<1> QED
  BY <1>1, <1>2, <1>3, <1>4, <1>5, <1>6, <1>7, <1>8 DEF WorkerStep

LEMMA WorkerKeeps ==
    ASSUME WorkersInv, NEW w \in AllWorkers, WorkerStep(w) \/ Spurious(w)
    PROVE  WorkersInv'
<1>1. /\ signals' = signals /\ main' = main /\ pool' = pool /\ starter' = starter
      /\ waker' = waker /\ should_wake' = should_wake /\ us_ocall_table' = us_ocall_table
      /\ us_should_stop' = us_should_stop /\ us_init_finished' = us_init_finished
      /\ us_wake_workers' = us_wake_workers
  BY WorkerMoves DEF restVars, handleVars
<1>2. PICK to \in WorkerSteps : wpc' = [wpc EXCEPT ![w] = to] /\ Moves(w, to)
  BY WorkerMoves
<1>3. wpc \in [AllWorkers -> WorkerSteps]
  BY DEF WorkersInv, StepTypeOK
<1>4. wpc'[w] = to /\ \A v \in AllWorkers \ {w} : wpc'[v] = wpc[v]
  BY <1>2, <1>3
<1>5. wpc[w] \notin {"none", "gone"} /\ to # "none"
  BY <1>2 DEF Moves
<1>6. StepTypeOK'
  <2>1. wpc' \in [AllWorkers -> WorkerSteps]
    BY <1>2, <1>3
  <2> QED
    BY <1>1, <2>1 DEF WorkersInv, StepTypeOK
<1>7. CountInv'
  <2>1. Counts(num_running', wpc', RunningSteps)
    <3>1. \/ wpc[w] \notin RunningSteps /\ to \in RunningSteps /\ num_running' = Add(num_running, w, 1)
          \/ wpc[w] \in RunningSteps /\ to \notin RunningSteps /\ num_running' = Add(num_running, w, -1)
          \/ (wpc[w] \in RunningSteps <=> to \in RunningSteps) /\ num_running' = num_running
      BY <1>2 DEF Moves, RunningSteps, WorkerSteps
    <3> QED
      BY <1>2, <1>3, <3>1, CountMove DEF WorkersInv, CountInv
  <2>2. Counts(num_sleeping', wpc', SleepingSteps)
    <3>1. \/ wpc[w] \notin SleepingSteps /\ to \in SleepingSteps /\ num_sleeping' = Add(num_sleeping, w, 1)
          \/ wpc[w] \in SleepingSteps /\ to \notin SleepingSteps /\ num_sleeping' = Add(num_sleeping, w, -1)
          \/ (wpc[w] \in SleepingSteps <=> to \in SleepingSteps) /\ num_sleeping' = num_sleeping
      BY <1>2 DEF Moves, SleepingSteps
    <3> QED
      BY <1>2, <1>3, <3>1, CountMove DEF WorkersInv, CountInv
  <2> QED
    BY <2>1, <2>2 DEF CountInv
<1>8. MainInv'
  BY <1>1, <1>4, <1>5 DEF WorkersInv, MainInv, Creating, AllWorkers
<1>9. FlagInv'
  BY <1>1 DEF WorkersInv, FlagInv
<1>10. FirstSleep'
  <2> SUFFICES ASSUME ~ ConcurrentEcalls, ~ signals, ~ us_ocall_table
               PROVE  /\ to \notin {"process", "idle"}
                      /\ ~ us_should_stop => to \in {"none", "new", "first", "doze", "futex"}
    BY <1>1, <1>4 DEF WorkersInv, FirstSleep
  <2>1. /\ wpc[w] \notin {"process", "idle"}
        /\ ~ us_should_stop => wpc[w] \in {"none", "new", "first", "doze", "futex"}
    BY DEF WorkersInv, FirstSleep
  <2>2. should_wake[PoolOf(w)] # 0 => us_should_stop
    BY PoolFacts DEF WorkersInv, FlagInv
  <2> QED
    BY <1>2, <2>1, <2>2 DEF Moves
<1> QED
  BY <1>6, <1>7, <1>8, <1>9, <1>10 DEF WorkersInv

-----------------------------------------------------------------------------
(* The other threads.                                                      *)

\* A step that moves no worker, or only wakes those of one pool from the futex.
Rouses(p) == wpc' = wpc \/ WakeAll(p)

LEMMA RouseFacts ==
    ASSUME WorkersInv, NEW p \in Pools, Rouses(p)
    PROVE  /\ wpc' \in [AllWorkers -> WorkerSteps]
           /\ \A w \in AllWorkers :
                  wpc'[w] = wpc[w] \/ (wpc[w] = "futex" /\ wpc'[w] = "woken")
           /\ UNCHANGED <<num_running, num_sleeping>> => CountInv'
<1>1. wpc \in [AllWorkers -> WorkerSteps]
  BY DEF WorkersInv, StepTypeOK
<1>2. CASE wpc' = wpc
  <2>1. UNCHANGED <<num_running, num_sleeping>> => CountInv'
    BY <1>2 DEF WorkersInv, CountInv
  <2> QED
    BY <1>1, <1>2, <2>1
<1>3. CASE WakeAll(p)
  <2>1. wpc' = Woken(wpc, p)
    BY <1>3 DEF WakeAll
  <2>2. Counts(num_running, wpc', RunningSteps) /\ Counts(num_sleeping, wpc', SleepingSteps)
    BY <1>1, <2>1, CountWoken DEF WorkersInv, CountInv, RunningSteps, SleepingSteps, WorkerSteps
  <2>3. UNCHANGED <<num_running, num_sleeping>> => CountInv'
    BY <2>2 DEF CountInv
  <2>4. /\ wpc' \in [AllWorkers -> WorkerSteps]
        /\ \A w \in AllWorkers :
               wpc'[w] = wpc[w] \/ (wpc[w] = "futex" /\ wpc'[w] = "woken")
    BY <1>1, <2>1 DEF Woken, WorkerSteps
  <2> QED
    BY <2>3, <2>4
<1> QED
  BY <1>2, <1>3 DEF Rouses

\* The waker thread, callers that wake workers, and the first ecall.
LEMMA CallersKeep ==
    ASSUME WorkersInv, WakerStep \/ EcallWakes \/ OcallWakes \/ StartInit \/ StarterStep
    PROVE  WorkersInv'
<1> USE DEF WakerStep, WakerLoop, WakerWake, WakerReset, EcallWakes, OcallWakes, StartInit,
            StarterStep, StartTable, StartFinished, StartWake
<1>1. /\ UNCHANGED <<signals, main, pool, poolVars, us_should_stop>>
      /\ \E p \in Pools : Rouses(p)
  BY DEF handleVars, Rouses, Pools
<1>2. PICK p \in Pools : Rouses(p)
  BY <1>1
<1>3. \A w \in AllWorkers : wpc'[w] = wpc[w] \/ (wpc[w] = "futex" /\ wpc'[w] = "woken")
  BY <1>2, RouseFacts
<1>4. StepTypeOK'
  <2>1. /\ starter' \in {"none", "init", "table", "wakeU", "wakeT", "done"}
        /\ waker' \in {"none", "run", "wake", "reset", "gone"}
    BY DEF WorkersInv, StepTypeOK
  <2>2. us_ocall_table' \in BOOLEAN /\ us_init_finished' \in BOOLEAN /\ us_wake_workers' \in BOOLEAN
    BY Zenon DEF WorkersInv, StepTypeOK, handleVars
  <2> QED
    BY <1>1, <1>2, <2>1, <2>2, RouseFacts DEF WorkersInv, StepTypeOK, poolVars
<1>5. CountInv'
  BY <1>1, <1>2, RouseFacts DEF poolVars
<1>6. MainInv'
  <2>1. waker' = waker \/ waker \notin {"none", "gone"}
    OBVIOUS
  <2> QED
    BY <1>1, <1>3, <2>1 DEF WorkersInv, MainInv, Creating, AllWorkers
<1>7. FlagInv'
  <2>1. us_ocall_table' <=> starter' \notin {"none", "init"}
    BY DEF WorkersInv, FlagInv, handleVars
  <2>2. us_init_finished' => us_ocall_table'
    BY DEF WorkersInv, FlagInv, handleVars
  <2>3. ~ ConcurrentEcalls /\ (us_wake_workers' \/ waker' = "wake") => us_ocall_table'
    BY DEF WorkersInv, FlagInv, handleVars
  <2> QED
    BY <1>1, <2>1, <2>2, <2>3 DEF WorkersInv, FlagInv, poolVars
<1>8. FirstSleep'
  <2> SUFFICES ASSUME ~ ConcurrentEcalls, ~ us_ocall_table' PROVE ~ us_ocall_table /\ wpc' = wpc
    BY <1>1 DEF WorkersInv, FirstSleep
  <2> QED
    BY DEF WorkersInv, FlagInv, handleVars
<1> QED
  BY <1>4, <1>5, <1>6, <1>7, <1>8 DEF WorkersInv

\* pthread_create.
LEMMA CreateKeeps ==
    ASSUME WorkersInv, CreateWorker
    PROVE  WorkersInv'
<1>1. PICK w \in Members(pool) :
         /\ wpc[w] = "none"
         /\ \/ wpc' = [wpc EXCEPT ![w] = "new"] /\ UNCHANGED main
            \/ main' = "error" /\ UNCHANGED wpc
  BY DEF CreateWorker
<1>2. /\ main = "create" /\ UNCHANGED <<signals, pool, starter, waker, poolVars, handleVars>>
      /\ main' \in {"create", "error"}
  BY <1>1 DEF CreateWorker
<1>3. wpc \in [AllWorkers -> WorkerSteps] /\ w \in AllWorkers /\ pool \in Pools
  BY PoolFacts DEF WorkersInv, StepTypeOK
<1>4. /\ wpc' \in [AllWorkers -> WorkerSteps]
      /\ wpc'[w] \in {"none", "new"} /\ \A v \in AllWorkers \ {w} : wpc'[v] = wpc[v]
  BY <1>1, <1>3 DEF WorkerSteps
<1>5. StepTypeOK'
  BY <1>2, <1>4 DEF WorkersInv, StepTypeOK, poolVars, handleVars
<1>6. CountInv'
  <2>1. CASE wpc' = wpc
    BY <1>2, <2>1 DEF WorkersInv, CountInv, poolVars
  <2>2. CASE wpc' = [wpc EXCEPT ![w] = "new"]
    <3>1. /\ wpc[w] \notin RunningSteps /\ "new" \notin RunningSteps
          /\ wpc[w] \notin SleepingSteps /\ "new" \notin SleepingSteps
      BY <1>1 DEF RunningSteps, SleepingSteps
    <3>2. Counts(num_running, wpc', RunningSteps)
      BY <1>3, <2>2, <3>1, CountMove DEF WorkersInv, CountInv
    <3>3. Counts(num_sleeping, wpc', SleepingSteps)
      BY <1>3, <2>2, <3>1, CountMove DEF WorkersInv, CountInv
    <3> QED
      BY <1>2, <3>2, <3>3 DEF CountInv, poolVars
  <2> QED
    BY <1>1, <2>1, <2>2
<1>7. MainInv'
  <2>1. pool = "U" => w \notin TWorkers
    BY WorkersAssumption DEF Members
  <2> QED
    BY <1>2, <1>4, <2>1 DEF WorkersInv, MainInv, Creating, AllWorkers
<1>8. FlagInv'
  BY <1>2 DEF WorkersInv, FlagInv, poolVars, handleVars
<1>9. FirstSleep'
  BY <1>2, <1>4 DEF WorkersInv, FirstSleep, handleVars
<1> QED
  BY <1>5, <1>6, <1>7, <1>8, <1>9 DEF WorkersInv

\* The creating and destroying thread.
LEMMA MainKeeps ==
    ASSUME WorkersInv,
           CreatedAll \/ AwaitRunning \/ InitError \/ InitErrorJoin \/ Stop \/ KillThreads
               \/ JoinThreads
    PROVE  WorkersInv'
<1> USE DEF CreatedAll, AwaitRunning, InitError, InitErrorJoin, Stop, KillThreads, JoinThreads,
            MainAt
<1>1. /\ UNCHANGED <<signals, starter, num_running, num_sleeping, us_ocall_table,
                     us_init_finished, us_wake_workers>>
      /\ Rouses(pool) /\ pool \in Pools
  BY DEF handleVars, poolVars, Rouses, WorkersInv, StepTypeOK
<1>2. \A w \in AllWorkers : wpc'[w] = wpc[w] \/ (wpc[w] = "futex" /\ wpc'[w] = "woken")
  BY <1>1, RouseFacts
<1>3. us_should_stop' = us_should_stop \/ us_should_stop'
  BY DEF handleVars
<1>4. StepTypeOK'
  <2>1. /\ main' \in {"create", "await", "error", "errorjoin", "ready", "kill", "join", "undo",
                     "undojoin", "freed"}
        /\ pool' \in Pools /\ waker' \in {"none", "run", "wake", "reset", "gone"}
    BY DEF WorkersInv, StepTypeOK, Pools
  <2>2. should_wake' \in [Pools -> 0..1]
    BY DEF WorkersInv, StepTypeOK, poolVars
  <2>3. us_should_stop' \in BOOLEAN
    BY Zenon DEF WorkersInv, StepTypeOK, handleVars
  <2> QED
    BY <1>1, <2>1, <2>2, <2>3, RouseFacts DEF WorkersInv, StepTypeOK
<1>5. CountInv'
  BY <1>1, RouseFacts
<1>6. MainInv'
  <2> USE <1>2 DEF WorkersInv, MainInv, Creating, AllWorkers
  <2>1. CASE CreatedAll
    BY <2>1
  <2>2. CASE AwaitRunning
    BY <2>2
  <2>3. CASE InitError
    BY <2>3
  <2>4. CASE InitErrorJoin
    BY <2>4, <1>1 DEF Pools, Members
  <2>5. CASE Stop
    BY <2>5
  <2>6. CASE KillThreads
    BY <2>6, <1>1 DEF Pools
  <2>7. CASE JoinThreads
    BY <2>7, <1>1 DEF Pools, Members
  <2> QED
    BY <2>1, <2>2, <2>3, <2>4, <2>5, <2>6, <2>7
<1>7. FlagInv'
  <2>1. main' \in {"errorjoin", "undo", "undojoin", "kill", "join", "freed"} => us_should_stop'
    BY DEF WorkersInv, FlagInv, handleVars
  <2>2. \A p \in Pools : should_wake'[p] # 0 => us_should_stop'
    BY DEF WorkersInv, FlagInv, StepTypeOK, poolVars, handleVars
  <2>3. waker' = waker \/ waker' = "run"
    OBVIOUS
  <2> QED
    BY <1>1, <2>1, <2>2, <2>3 DEF WorkersInv, FlagInv
<1>8. FirstSleep'
  <2> SUFFICES ASSUME ~ ConcurrentEcalls, ~ signals, ~ us_ocall_table
               PROVE  /\ \A w \in AllWorkers : wpc'[w] \notin {"process", "idle"}
                      /\ us_should_stop' \/ (wpc' = wpc /\ us_should_stop' = us_should_stop)
    BY <1>1 DEF WorkersInv, FirstSleep
  <2>1. us_should_stop' \/ (wpc' = wpc /\ us_should_stop' = us_should_stop)
    BY DEF WorkersInv, FlagInv, handleVars
  <2>2. \A w \in AllWorkers : wpc'[w] \notin {"process", "idle"}
    BY <1>2 DEF WorkersInv, FirstSleep
  <2> QED
    BY <2>1, <2>2
<1> QED
  BY <1>4, <1>5, <1>6, <1>7, <1>8 DEF WorkersInv

-----------------------------------------------------------------------------

LEMMA WorkersStep == WorkersInv /\ [Next]_workersVars => WorkersInv'
<1> SUFFICES ASSUME WorkersInv, [Next]_workersVars PROVE WorkersInv'
  OBVIOUS
<1>1. CASE \E w \in AllWorkers : WorkerStep(w) \/ Spurious(w)
  BY <1>1, WorkerKeeps
<1>2. CASE WakerStep \/ EcallWakes \/ OcallWakes \/ StartInit \/ StarterStep
  BY <1>2, CallersKeep
<1>3. CASE MainStep \/ Stop
  BY <1>3, CreateKeeps, MainKeeps DEF MainStep
<1>4. CASE BugOn \/ UNCHANGED workersVars
  <2>1. UNCHANGED <<signals, main, pool, starter, waker, wpc, poolVars, handleVars>>
    BY <1>4, Zenon DEF BugOn, workersVars
  <2> QED
    BY <2>1 DEF poolVars, handleVars, WorkersInv, StepTypeOK, CountInv, MainInv, Creating,
                FlagInv, FirstSleep
<1> QED
  BY <1>1, <1>2, <1>3, <1>4 DEF Next, ClientStep

LEMMA WorkersFirst == Init => WorkersInv
<1> SUFFICES ASSUME Init PROVE WorkersInv
  OBVIOUS
<1>1. StepTypeOK
  <2>1. wpc \in [AllWorkers -> WorkerSteps] /\ should_wake \in [Pools -> 0..1]
    BY DEF Init, WorkerSteps
  <2>2. /\ signals \in BOOLEAN /\ us_ocall_table \in BOOLEAN /\ us_should_stop \in BOOLEAN
        /\ us_init_finished \in BOOLEAN /\ us_wake_workers \in BOOLEAN
    BY WorkersAssumption, Zenon DEF Init
  <2> QED
    BY <2>1, <2>2 DEF Init, StepTypeOK, Pools
<1>2. CountInv
  <2>1. \A p \in Pools : /\ Holding(wpc, RunningSteps, p) = {}
                         /\ Holding(wpc, SleepingSteps, p) = {}
    BY PoolFacts DEF Init, Holding, RunningSteps, SleepingSteps
  <2> QED
    BY <2>1, FS_EmptySet DEF Init, CountInv, Counts
<1>3. MainInv /\ FlagInv /\ FirstSleep
  BY DEF Init, MainInv, Creating, FlagInv, FirstSleep, Pools, AllWorkers
<1> QED
  BY <1>1, <1>2, <1>3 DEF WorkersInv

LEMMA WorkersAlways == Spec => []WorkersInv
BY WorkersFirst, WorkersStep, PTL DEF Spec

\* Only a failed BUG_ON changes aborted, and nothing the build.
BuildOK == debug \in BOOLEAN /\ aborted \in BOOLEAN

LEMMA BuildAlways == Spec => []BuildOK
<1>1. Init => BuildOK
  BY WorkersAssumption, Zenon DEF Init, BuildOK
<1>2. BuildOK /\ [Next]_workersVars => BuildOK'
  <2> SUFFICES ASSUME BuildOK, [Next]_workersVars PROVE BuildOK'
    OBVIOUS
  <2>1. UNCHANGED buildVars \/ (debug' = debug /\ aborted' = TRUE)
    BY Zenon DEF Next, WorkerStep, WakerStep, StarterStep, MainStep, ClientStep, Alive, BugOn,
                 workersVars
  <2> QED
    BY <2>1, Zenon DEF BuildOK, buildVars
<1> QED
  BY <1>1, <1>2, PTL DEF Spec

\* num_running and num_sleeping of both pools are at every moment the numbers of
\* threads that run and that sleep: a caller that reads num_sleeping = 0 has no
\* worker in the futex to wake.
THEOREM CountersExact == Spec => []CountersAgree
<1>1. WorkersInv /\ BuildOK => CountersAgree
  <2> SUFFICES ASSUME WorkersInv, BuildOK PROVE CountersAgree
    OBVIOUS
  <2>1. \A p \in Pools : /\ Running(p) = Holding(wpc, RunningSteps, p)
                         /\ Sleeping(p) = Holding(wpc, SleepingSteps, p)
    BY PoolFacts DEF Running, Sleeping, Holding, RunningSteps, SleepingSteps, WorkersInv,
                     StepTypeOK
  <2>2. \A p \in Pools :
           /\ num_running[p] = Cardinality(Running(p))
           /\ num_sleeping[p] = Cardinality(Sleeping(p))
    BY <2>1 DEF WorkersInv, CountInv, Counts
  <2>3. \A p \in Pools :
           /\ num_running[p] \in 0..Cardinality(Members(p))
           /\ num_sleeping[p] \in 0..Cardinality(Members(p))
    BY <2>1, <2>2, HoldingFinite
  <2>4. WorkersTypeOK
    BY <2>3, Zenon DEF WorkersInv, BuildOK, StepTypeOK, WorkersTypeOK, WorkerSteps
  <2> QED
    BY <2>2, <2>4 DEF CountersAgree
<1> QED
  BY <1>1, WorkersAlways, BuildAlways, PTL

\* When sl_uswitchless_free runs, after a destroy or a failed creation, every
\* worker and the waker have ended or were never created, and num_running is 0.
THEOREM FreedAfterThreads == Spec => []FreedWithoutThreads
<1>1. WorkersInv => FreedWithoutThreads
  <2> SUFFICES ASSUME WorkersInv, main = "freed" PROVE FreedWithoutThreads
    BY DEF FreedWithoutThreads
  <2>1. /\ \A w \in AllWorkers : wpc[w] \in {"none", "gone"}
        /\ waker \in {"none", "gone"}
    BY DEF WorkersInv, MainInv
  <2>2. \A p \in Pools : Holding(wpc, RunningSteps, p) = {}
    BY <2>1, PoolFacts DEF Holding, RunningSteps
  <2>3. \A p \in Pools : num_running[p] = 0
    BY <2>2, FS_EmptySet DEF WorkersInv, CountInv, Counts
  <2> QED
    BY <2>1, <2>3 DEF FreedWithoutThreads
<1> QED
  BY <1>1, WorkersAlways, PTL

\* No worker processes calls before start_workers has registered the ocall table,
\* provided that no other ecall is in the enclave while the first one does that
\* and that no signal ends a worker's first sleep.
THEOREM NoWorkBeforeTable ==
    ASSUME ~ ConcurrentEcalls
    PROVE  Spec => []WorkAfterFirstEcall
<1>1. WorkersInv => WorkAfterFirstEcall
  BY DEF WorkersInv, FirstSleep, WorkAfterFirstEcall
<1> QED
  BY <1>1, WorkersAlways, PTL

=============================================================================
