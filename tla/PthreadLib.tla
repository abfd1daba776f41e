----------------------------- MODULE PthreadLib -----------------------------
(***************************************************************************)
(* pthread_create and pthread_join inside an enclave (sdk/pthread), with   *)
(* the ocalls that start, suspend and wake threads (psw/urts).             *)
(*                                                                         *)
(* pthread_create puts a descriptor in g_work_queue and asks for a native  *)
(* thread; whichever native thread enters first takes the first descriptor,*)
(* so the descriptor that a creator puts in and the native thread that it  *)
(* has started need not meet.  Waiting is polling: a timed wait on the     *)
(* thread's event, then a look at the descriptor.                          *)
(*                                                                         *)
(* A native thread and the TCS that it is bound to are one element of      *)
(* Runners.  A section under a spin lock is one step.                      *)
(***************************************************************************)
EXTENDS UntrustedEvent, FiniteSets

CONSTANTS
    Creators,         \* the threads, in ecalls, that create and join threads
    Runners,          \* the TCSs that pthread_create_ocall can take
    Descriptors,      \* the pthread structures that malloc returns
    CreateFails,      \* the errors of pthread_create_ocall that may happen
    None

ASSUME PthreadAssumption ==
    /\ Threads = Creators \cup Runners /\ Creators \cap Runners = {}
    /\ IsFiniteSet(Threads)
    /\ CreateFails \subseteq {"OUT_OF_TCS", "UNEXPECTED"}
    /\ Descriptors \subseteq Nat /\ None \notin Threads \cup Descriptors

VARIABLES
    g_work_queue,     \* the descriptors that no native thread has taken
    state,            \* of each descriptor
    creater_td, joiner_td,
    life,             \* "unused", "live" or "freed": its memory
    pc,               \* where each thread is
    at,               \* the descriptor that it is busy with
    other,            \* the one that a failed creator has taken from the queue
    error,            \* the error of its pthread_create_ocall
    timed,            \* its wait has slept, and resets the event when it is over
    starts,           \* how often the routine of each descriptor was started
    result,           \* of pthread_create for each descriptor: "none", "ok", "error", or
                      \* "unknown" when it read the descriptor after it was freed
    early,            \* the descriptors joined before their pthread_create returned
    misused           \* the reads and writes of freed descriptors: <<step, descriptor>>

descVars == <<g_work_queue, state, creater_td, joiner_td, life>>
threadVars == <<pc, at, other, error>>
history == <<starts, result, early, misused>>
vars == <<eventVars, descVars, threadVars, timed, history>>

Errors == {"OUT_OF_TCS", "UNEXPECTED"}

PthreadInit ==
    /\ EventInit
    /\ g_work_queue = <<>>
    /\ state = [d \in Descriptors |-> "NONE"]
    /\ creater_td = [d \in Descriptors |-> None]
    /\ joiner_td = [d \in Descriptors |-> None]
    /\ life = [d \in Descriptors |-> "unused"]
    /\ pc = [t \in Threads |-> IF t \in Creators THEN "idle" ELSE "free"]
    /\ at = [t \in Threads |-> None]
    /\ other = [t \in Threads |-> None]
    /\ error = [t \in Threads |-> None]
    /\ timed = [t \in Threads |-> FALSE]
    /\ starts = [d \in Descriptors |-> 0]
    /\ result = [d \in Descriptors |-> "none"]
    /\ early = {}
    /\ misused = {}

Goto(t, step) == pc' = [pc EXCEPT ![t] = step]

\* The step of t reads or writes descriptor d.
Touch(t, d) ==
    misused' = IF life[d] = "freed" THEN misused \cup {<<pc[t], d>>} ELSE misused

-----------------------------------------------------------------------------
(* The timed wait: pthread_wait_timeout_ocall and se_event_wait_timeout.   *)

Resumed(t) == OcallDone(t) /\ ~timed[t]

\* The decrement, and whether it is followed by FUTEX_WAIT and the reset.
TimedDec(t) ==
    /\ EventDec(t)
    /\ timed' = [timed EXCEPT ![t] = (se_event[t] = 0)]
    /\ UNCHANGED <<descVars, threadVars, history>>

\* The timeout, or a signal.
TimedOut(t) ==
    /\ timed[t] /\ FutexInterrupted(t)
    /\ UNCHANGED <<descVars, threadVars, timed, history>>

\* Mutant: no reset, as in se_event_wait.
ResetEvent_None(t) ==
    /\ timed[t] /\ OcallDone(t)
    /\ timed' = [timed EXCEPT ![t] = FALSE]
    /\ UNCHANGED <<eventVars, descVars, threadVars, history>>

\* The compare-and-swap of -1 to 0 after the sleep.
ResetEvent(t) ==
    /\ timed[t] /\ OcallDone(t)
    /\ se_event' = [se_event EXCEPT ![t] = IF @ = -1 THEN 0 ELSE @]
    /\ timed' = [timed EXCEPT ![t] = FALSE]
    /\ UNCHANGED <<ostep, otargets, owait, prompt, descVars, threadVars, history>>

OtherEventStep(t) ==
    /\ FutexWait(t) \/ EventInc(t) \/ FutexWake(t)
    /\ UNCHANGED <<descVars, threadVars, timed, history>>

WaitStep(t) == TimedDec(t) \/ TimedOut(t) \/ ResetEvent(t) \/ OtherEventStep(t)

-----------------------------------------------------------------------------
(* pthread_create.                                                         *)

\* The descriptor is made and queued before the ocall.
Create(c) ==
    /\ pc[c] = "idle"
    /\ \E d \in Descriptors :
        /\ life[d] = "unused"
        /\ \A e \in Descriptors : life[e] = "unused" => d <= e
        /\ life' = [life EXCEPT ![d] = "live"]
        /\ state' = [state EXCEPT ![d] = "PREPARING"]
        /\ creater_td' = [creater_td EXCEPT ![d] = c]
        /\ g_work_queue' = Append(g_work_queue, d)
        /\ at' = [at EXCEPT ![c] = d]
    /\ Goto(c, "ocall")
    /\ UNCHANGED <<eventVars, joiner_td, other, error, timed, history>>

\* pthread_create_ocall takes a TCS and starts a native thread.
CreateOcall(c) ==
    /\ pc[c] = "ocall"
    /\ \E r \in Runners :
        /\ pc[r] = "free"
        /\ pc' = [pc EXCEPT ![c] = "suspend", ![r] = "start"]
    /\ UNCHANGED <<eventVars, descVars, at, other, error, timed, history>>

\* Mutant: a failed creator takes nothing from the queue.
CreateOcallFails_NoPop(c) ==
    /\ pc[c] = "ocall"
    /\ \E e \in CreateFails :
        /\ e = "OUT_OF_TCS" => \A r \in Runners : pc[r] # "free"
        /\ error' = [error EXCEPT ![c] = e]
    /\ Goto(c, "suspend")
    /\ UNCHANGED <<eventVars, descVars, at, other, timed, history>>

\* It has no TCS, or no native thread.
CreateOcallFails(c) ==
    /\ pc[c] = "ocall"
    /\ \E e \in CreateFails :
        /\ e = "OUT_OF_TCS" => \A r \in Runners : pc[r] # "free"
        /\ error' = [error EXCEPT ![c] = e]
    /\ Goto(c, "pop")
    /\ UNCHANGED <<eventVars, descVars, at, other, timed, history>>

Free(d) == life' = [life EXCEPT ![d] = "freed"]

CreateReturns(c, answer) ==
    /\ result' = [result EXCEPT ![at[c]] = answer]
    /\ at' = [at EXCEPT ![c] = None]
    /\ error' = [error EXCEPT ![c] = None]
    /\ Goto(c, "idle")

\* pthread_create returns an error: the descriptor is freed.
CreateError(c) == Free(at[c]) /\ CreateReturns(c, "error")

\* The first descriptor leaves the queue, whoever it belongs to.
TakeFirst == IF g_work_queue = <<>> THEN g_work_queue ELSE Tail(g_work_queue)

PopOwn(c) ==
    /\ pc[c] = "pop"
    /\ g_work_queue # <<>> /\ Head(g_work_queue) = at[c]
    /\ g_work_queue' = TakeFirst
    /\ CreateError(c)
    /\ UNCHANGED <<eventVars, state, creater_td, joiner_td, other, timed, starts, early, misused>>

\* Mutant: whatever descriptor was first counts as the creator's own.
PopOther_Unchecked(c) ==
    /\ pc[c] = "pop"
    /\ g_work_queue # <<>> => Head(g_work_queue) # at[c]
    /\ g_work_queue' = TakeFirst
    /\ CreateError(c)
    /\ UNCHANGED <<eventVars, state, creater_td, joiner_td, other, timed, starts, early, misused>>

\* Another's creator gets the error instead; this one's may still be run.
PopOther(c) ==
    /\ pc[c] = "pop"
    /\ g_work_queue # <<>> => Head(g_work_queue) # at[c]
    /\ g_work_queue' = TakeFirst
    /\ IF g_work_queue = <<>> THEN Goto(c, "suspend") /\ UNCHANGED other
       ELSE Goto(c, "mark") /\ other' = [other EXCEPT ![c] = Head(g_work_queue)]
    /\ UNCHANGED <<eventVars, state, creater_td, joiner_td, life, at, error, timed, history>>

\* Mutant: the other descriptor is not given the error.
MarkOther_Silent(c) ==
    /\ pc[c] = "mark"
    /\ Touch(c, other[c])
    /\ Goto(c, "notify")
    /\ UNCHANGED <<eventVars, descVars, at, other, error, timed, starts, result, early>>

\* The other descriptor is given the error, under its lock ...
MarkOther(c) ==
    /\ pc[c] = "mark"
    /\ state' = [state EXCEPT ![other[c]] = error[c]]
    /\ Touch(c, other[c])
    /\ Goto(c, "notify")
    /\ UNCHANGED <<eventVars, g_work_queue, creater_td, joiner_td, life, at, other, error,
                   timed, starts, result, early>>

\* ... and its creater_td is read after the unlock, when its creator may have seen
\* the error and freed it: then what is read is anybody's, or nobody's.
NotifyOther(c) ==
    /\ pc[c] = "notify"
    /\ Touch(c, other[c])
    /\ \/ OcallSet(c, <<creater_td[other[c]]>>)
       \/ life[other[c]] = "freed" /\ \E t \in Creators : OcallSet(c, <<t>>)
       \/ life[other[c]] = "freed" /\ UNCHANGED eventVars
    /\ other' = [other EXCEPT ![c] = None]
    /\ Goto(c, "suspend")
    /\ UNCHANGED <<descVars, at, error, timed, starts, result, early>>

\* The creator can go on, and its descriptor is there to be read.
OwnIsThere(c) == Resumed(c) /\ life[at[c]] # "freed"

\* _pthread_wait_timeout, once the wake-up of another is through.
Suspend(c) ==
    /\ pc[c] = "suspend" /\ OwnIsThere(c)
    /\ OcallWait(c)
    /\ Goto(c, "poll")
    /\ UNCHANGED <<descVars, at, other, error, timed, history>>

\* The look at the descriptor, under its lock.
PollPreparing(c) ==
    /\ pc[c] = "poll" /\ OwnIsThere(c)
    /\ state[at[c]] = "PREPARING"
    /\ Goto(c, "suspend")
    /\ UNCHANGED <<eventVars, descVars, at, other, error, timed, history>>

PollStarted(c) ==
    /\ pc[c] = "poll" /\ OwnIsThere(c)
    /\ state[at[c]] \in {"EXECUTION", "WAKEDUP"}
    /\ CreateReturns(c, "ok")
    /\ UNCHANGED <<eventVars, descVars, other, timed, starts, early, misused>>

PollError(c) ==
    /\ pc[c] = "poll" /\ OwnIsThere(c)
    /\ state[at[c]] \in Errors
    /\ CreateError(c)
    /\ UNCHANGED <<eventVars, g_work_queue, state, creater_td, joiner_td, other, timed, starts,
                   early, misused>>

\* The descriptor was joined and freed before pthread_create looked: what the reads
\* of creater_td and state find is not known.  It returns 0 or an error (and frees
\* the descriptor again), or it goes on polling.
PollFreed(c) ==
    /\ pc[c] \in {"suspend", "poll"} /\ Resumed(c)
    /\ life[at[c]] = "freed"
    /\ Touch(c, at[c])
    /\ \/ CreateReturns(c, "unknown")
       \/ UNCHANGED <<result, at, error, pc>>
    /\ UNCHANGED <<eventVars, descVars, other, timed, starts, early>>

-----------------------------------------------------------------------------
(* _pthread_thread_run, and the end of a created thread.                   *)

\* The first descriptor is taken; a native thread that finds none leaves.
TakeTask(r) ==
    /\ pc[r] = "start"
    /\ g_work_queue' = TakeFirst
    /\ IF g_work_queue = <<>> THEN Goto(r, "leave") /\ UNCHANGED at
       ELSE Goto(r, "begin") /\ at' = [at EXCEPT ![r] = Head(g_work_queue)]
    /\ UNCHANGED <<eventVars, state, creater_td, joiner_td, life, other, error, timed, history>>

BeginTask(r) ==
    /\ pc[r] = "begin"
    /\ Touch(r, at[r])
    /\ state' = [state EXCEPT ![at[r]] = "EXECUTION"]
    /\ Goto(r, "wake")
    /\ UNCHANGED <<eventVars, g_work_queue, creater_td, joiner_td, life, at, other, error,
                   timed, starts, result, early>>

\* _pthread_wakeup of the creator.
WakeCreator(r) ==
    /\ pc[r] = "wake"
    /\ Touch(r, at[r])
    /\ OcallSet(r, <<creater_td[at[r]]>>)
    /\ Goto(r, "routine")
    /\ UNCHANGED <<descVars, at, other, error, timed, starts, result, early>>

StartRoutine(r) ==
    /\ pc[r] = "routine" /\ Resumed(r)
    /\ Touch(r, at[r])
    /\ starts' = [starts EXCEPT ![at[r]] = @ + 1]
    /\ Goto(r, "run")
    /\ UNCHANGED <<eventVars, descVars, at, other, error, timed, result, early>>

\* The routine returns or calls pthread_exit: _pthread_wakeup_join, and the
\* wake-up of the joiner by pthread_create_routine.
WakeupJoin(r) ==
    /\ pc[r] = "run"
    /\ Touch(r, at[r])
    /\ IF joiner_td[at[r]] # None THEN OcallSet(r, <<joiner_td[at[r]]>>)
       ELSE UNCHANGED eventVars
    /\ state' = [state EXCEPT ![at[r]] = "WAKEDUP"]
    /\ at' = [at EXCEPT ![r] = None]
    /\ Goto(r, "leave")
    /\ UNCHANGED <<g_work_queue, creater_td, joiner_td, life, other, error, timed, starts,
                   result, early>>

Leave(r) ==
    /\ pc[r] = "leave" /\ Resumed(r)
    /\ Goto(r, "free")
    /\ UNCHANGED <<eventVars, descVars, at, other, error, timed, history>>

-----------------------------------------------------------------------------
(* pthread_join, by one thread and once, as its comment asks: once         *)
(* pthread_create has returned, or as soon as the new thread, which runs,  *)
(* can have handed out its pthread_self().                                 *)

Joinable(d) ==
    /\ result[d] = "ok" \/ starts[d] = 1
    /\ life[d] = "live" /\ joiner_td[d] = None
    /\ \A t \in Creators : ~(pc[t] = "join" /\ at[t] = d)

Join(c) ==
    /\ pc[c] = "idle"
    /\ \E d \in Descriptors : Joinable(d) /\ at' = [at EXCEPT ![c] = d]
    /\ Goto(c, "join")
    /\ UNCHANGED <<eventVars, descVars, other, error, timed, history>>

JoinWait(c) ==
    /\ pc[c] = "join" /\ Resumed(c)
    /\ state[at[c]] # "WAKEDUP"
    /\ Touch(c, at[c])
    /\ joiner_td' = [joiner_td EXCEPT ![at[c]] = c]
    /\ OcallWait(c)
    /\ UNCHANGED <<g_work_queue, state, creater_td, life, threadVars, timed, starts, result, early>>

\* Mutant: a thread that runs counts as one that has exited.
JoinDone_Running(c) ==
    /\ pc[c] = "join" /\ Resumed(c)
    /\ state[at[c]] \in {"EXECUTION", "WAKEDUP"}
    /\ Touch(c, at[c])
    /\ Free(at[c])
    /\ early' = IF result[at[c]] = "none" THEN early \cup {at[c]} ELSE early
    /\ at' = [at EXCEPT ![c] = None]
    /\ Goto(c, "idle")
    /\ UNCHANGED <<eventVars, g_work_queue, state, creater_td, joiner_td, other, error, timed,
                   starts, result>>

JoinDone(c) ==
    /\ pc[c] = "join" /\ Resumed(c)
    /\ state[at[c]] = "WAKEDUP"
    /\ Touch(c, at[c])
    /\ Free(at[c])
    /\ early' = IF result[at[c]] = "none" THEN early \cup {at[c]} ELSE early
    /\ at' = [at EXCEPT ![c] = None]
    /\ Goto(c, "idle")
    /\ UNCHANGED <<eventVars, g_work_queue, state, creater_td, joiner_td, other, error, timed,
                   starts, result>>

-----------------------------------------------------------------------------
CreatorStep(c) ==
    \/ CreateOcall(c) \/ CreateOcallFails(c) \/ PopOwn(c) \/ PopOther(c)
    \/ MarkOther(c) \/ NotifyOther(c) \/ Suspend(c)
    \/ PollPreparing(c) \/ PollStarted(c) \/ PollError(c)
    \/ JoinWait(c) \/ JoinDone(c)

RunnerStep(r) ==
    TakeTask(r) \/ BeginTask(r) \/ WakeCreator(r) \/ StartRoutine(r) \/ WakeupJoin(r) \/ Leave(r)

PthreadNext ==
    \/ \E c \in Creators : Create(c) \/ Join(c) \/ CreatorStep(c) \/ PollFreed(c)
    \/ \E r \in Runners : RunnerStep(r)
    \/ \E t \in Threads : WaitStep(t)

\* Every thread is scheduled, a timed wait ends, and every routine returns.  A
\* creator that reads a freed descriptor may do so for ever.
PthreadSpec ==
    /\ PthreadInit /\ [][PthreadNext]_vars
    /\ \A c \in Creators : WF_vars(CreatorStep(c))
    /\ \A r \in Runners : WF_vars(RunnerStep(r))
    /\ \A t \in Threads : WF_vars(WaitStep(t))

-----------------------------------------------------------------------------
(* Properties.                                                             *)

Waiting(step) == {t \in Threads : pc[t] = step}

\* "Every time entry into _pthread_thread_run(), it can get an task from
\* g_work_queue successfully": the descriptors in the queue are as many as the
\* native threads that have still to take one and the creators whose ocall may
\* still fail, whatever descriptors the failed ones took out.
TaskForEveryRunner ==
    Len(g_work_queue) = Cardinality(Waiting("start"))
                        + Cardinality(Waiting("ocall")) + Cardinality(Waiting("pop"))

\* What pthread_create returns is true of that descriptor: after success it is
\* being started or was, once; after an error no native thread has it or will
\* get it, even when the error was another creator's.
CreateTellsTruth ==
    \A d \in Descriptors :
        LET held == \E r \in Runners : at[r] = d
            queued == \E i \in DOMAIN g_work_queue : g_work_queue[i] = d
        IN /\ starts[d] <= 1
           /\ result[d] = "ok" => starts[d] = 1 \/ held
           /\ result[d] = "error" => starts[d] = 0 /\ ~held /\ ~queued

\* No thread reads or writes a descriptor after it was freed, by pthread_join or by
\* a pthread_create that failed, but at two places.  A failed creator reads the
\* creater_td of the descriptor that it has just given the error, after the unlock.
\* And a pthread_create polls a descriptor whose thread was joined before it returned.
NoUseAfterFree ==
    \A m \in misused :
        \/ m[1] = "notify" /\ state[m[2]] \in Errors
        \/ m[1] \in {"suspend", "poll"} /\ m[2] \in early

\* The reset after a timed wait keeps the event usable: it is never below what
\* its thread's own wait in progress accounts for, so the next wait sleeps
\* instead of spinning (the comment in se_event_wait_timeout).
EventUsable ==
    \A t \in Threads :
        se_event[t] >= IF timed[t] THEN -1 ELSE 0

\* Every pthread_create and pthread_join returns: a lost or stolen wake-up
\* only costs a timeout, and an error meant for one creator reaches one.  Nothing
\* can be said of a pthread_create whose descriptor a join has freed.
EveryPthreadCallReturns ==
    \A c \in Creators : pc[c] # "idle" ~> pc[c] = "idle" \/ at[c] \in early
=============================================================================
