--------------------------- MODULE UntrustedEvent ---------------------------
(***************************************************************************)
(* The untrusted events on which the trusted threads of an enclave block.  *)
(*                                                                         *)
(* Every TCS has one event: an int that se_event.c decrements to wait and  *)
(* increments to wake, with a futex on the same int.  A trusted thread     *)
(* reaches it only by the four OCALLs of psw/urts/enclave_mutex.cpp.  This *)
(* module models an OCALL in progress, one atomic step of the C code (an   *)
(* atomic add, or a futex system call) per action.  The modules that       *)
(* EXTEND it start OCALLs with OcallWait, OcallSet and OcallSetWait and go *)
(* on when OcallDone holds.                                                *)
(***************************************************************************)
EXTENDS Integers, Sequences

CONSTANTS
    Threads,          \* the trusted threads, each with a TCS and an event
    Schedules,        \* the values that prompt may have
    EventDepth        \* bound: an event is decremented no further than -EventDepth

ASSUME EventAssumption ==
    /\ Schedules \subseteq BOOLEAN
    /\ EventDepth \in Nat \ {0}

VARIABLES
    se_event,         \* the int of every event
    ostep,            \* where each thread's OCALL is; "none" when not in one
    otargets,         \* the threads that the OCALL has still to wake, in order
    owait,            \* whether the OCALL waits on the caller's own event next
    prompt            \* FALSE: the real machine.  TRUE: a behaviour in which no
                      \* waker is descheduled between its atomic add and its
                      \* FUTEX_WAKE, and no POSIX signal ends a futex wait.

eventVars == <<se_event, ostep, otargets, owait, prompt>>

OSteps == {"none", "wait", "futexwait", "asleep", "wake", "futexwake"}

EventTypeOK ==
    /\ se_event \in [Threads -> Int]
    /\ ostep \in [Threads -> OSteps]
    /\ otargets \in [Threads -> Seq(Threads)]
    /\ owait \in [Threads -> BOOLEAN]
    /\ prompt \in BOOLEAN

EventInit ==
    /\ se_event = [t \in Threads |-> 0]
    /\ ostep = [t \in Threads |-> "none"]
    /\ otargets = [t \in Threads |-> <<>>]
    /\ owait = [t \in Threads |-> FALSE]
    /\ prompt \in Schedules

-----------------------------------------------------------------------------
(* Entering and leaving an OCALL.                                          *)

OcallDone(t) == ostep[t] = "none"

\* sgx_thread_wait_untrusted_event_ocall
OcallWait(t) ==
    /\ ostep' = [ostep EXCEPT ![t] = "wait"]
    /\ UNCHANGED <<se_event, otargets, owait, prompt>>

\* sgx_thread_set_untrusted_event_ocall and its _multiple_ form
OcallSet(t, waiters) ==
    /\ ostep' = [ostep EXCEPT ![t] = "wake"]
    /\ otargets' = [otargets EXCEPT ![t] = waiters]
    /\ UNCHANGED <<se_event, owait, prompt>>

\* sgx_thread_setwait_untrusted_events_ocall: wake one thread, then wait
OcallSetWait(t, waiter) ==
    /\ ostep' = [ostep EXCEPT ![t] = "wake"]
    /\ otargets' = [otargets EXCEPT ![t] = <<waiter>>]
    /\ owait' = [owait EXCEPT ![t] = TRUE]
    /\ UNCHANGED <<se_event, prompt>>

\* The step after the head of the targets has been woken.
AfterWake(t) ==
    IF Len(otargets[t]) > 1 THEN "wake"
    ELSE IF owait[t] THEN "wait" ELSE "none"

-----------------------------------------------------------------------------
(* se_event_wait: the atomic decrement, then FUTEX_WAIT on the value -1.   *)

EventDec(t) ==
    /\ ostep[t] = "wait"
    /\ se_event[t] > -EventDepth
    /\ se_event' = [se_event EXCEPT ![t] = @ - 1]
    /\ ostep' = [ostep EXCEPT ![t] = IF se_event[t] = 0 THEN "futexwait" ELSE "none"]
    /\ owait' = [owait EXCEPT ![t] = FALSE]
    /\ UNCHANGED <<otargets, prompt>>

\* The kernel compares the int with -1: it sleeps, or returns EAGAIN.
FutexWait(t) ==
    /\ ostep[t] = "futexwait"
    /\ ostep' = [ostep EXCEPT ![t] = IF se_event[t] = -1 THEN "asleep" ELSE "none"]
    /\ UNCHANGED <<se_event, otargets, owait, prompt>>

\* A signal ends FUTEX_WAIT with EINTR; se_event_wait returns success.
FutexInterrupted(t) ==
    /\ ~ prompt
    /\ ostep[t] = "asleep"
    /\ ostep' = [ostep EXCEPT ![t] = "none"]
    /\ UNCHANGED <<se_event, otargets, owait, prompt>>

(* se_event_wake: the atomic increment, then FUTEX_WAKE if it was not 0.   *)

EventInc(t) ==
    LET w == Head(otargets[t]) IN
    /\ ostep[t] = "wake"
    /\ otargets[t] # <<>>
    /\ ~ prompt
    /\ se_event' = [se_event EXCEPT ![w] = @ + 1]
    /\ IF se_event[w] # 0
       THEN /\ ostep' = [ostep EXCEPT ![t] = "futexwake"]
            /\ UNCHANGED otargets
       ELSE /\ ostep' = [ostep EXCEPT ![t] = AfterWake(t)]
            /\ otargets' = [otargets EXCEPT ![t] = Tail(@)]
    /\ UNCHANGED <<owait, prompt>>

FutexWake(t) ==
    LET w == Head(otargets[t]) IN
    /\ ostep[t] = "futexwake"
    /\ otargets[t] # <<>>
    /\ ostep' = [ostep EXCEPT ![t] = AfterWake(t),
                              ![w] = IF @ = "asleep" THEN "none" ELSE @]
    /\ otargets' = [otargets EXCEPT ![t] = Tail(@)]
    /\ UNCHANGED <<se_event, owait, prompt>>

\* EventInc and FutexWake in one step, when the waker is never descheduled.
EventWakePrompt(t) ==
    LET w == Head(otargets[t]) IN
    /\ ostep[t] = "wake"
    /\ otargets[t] # <<>>
    /\ prompt
    /\ se_event' = [se_event EXCEPT ![w] = @ + 1]
    /\ ostep' = [ostep EXCEPT ![t] = AfterWake(t),
                              ![w] = IF @ = "asleep" /\ se_event[w] # 0 THEN "none" ELSE @]
    /\ otargets' = [otargets EXCEPT ![t] = Tail(@)]
    /\ UNCHANGED <<owait, prompt>>

EventStep(t) ==
    \/ EventDec(t)
    \/ FutexWait(t)
    \/ EventInc(t)
    \/ FutexWake(t)
    \/ EventWakePrompt(t)

=============================================================================
