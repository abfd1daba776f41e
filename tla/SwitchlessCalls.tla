-------------------------- MODULE SwitchlessCalls ---------------------------
(***************************************************************************)
(* A switchless call manager: sdk/switchless/inc/sl_fcall_mngr_common.h on *)
(* the signal lines of sl_siglines.h.  Callers on one side of the enclave  *)
(* boundary hand tasks to workers on the other side without a transition.  *)
(*                                                                         *)
(* A caller takes a line from the bitmap free_lines, fills tasks[line],    *)
(* sets the line's bit in event_lines, and polls the task's status.  A     *)
(* worker scans event_lines, clears a bit and so owns the task, runs it    *)
(* and sets its status to DONE.  A caller whose task nobody accepts tries  *)
(* to clear the bit itself and falls back to an ordinary call.  One action *)
(* per atomic bit operation or access to a shared field.                   *)
(*                                                                         *)
(* There are two managers, with the same code: SL_TYPE_ECALL (callers      *)
(* outside, workers inside) and SL_TYPE_OCALL (the reverse).  They differ  *)
(* in who notices that the enclave has crashed: the side inside it.        *)
(***************************************************************************)
EXTENDS Integers, FiniteSets

CONSTANTS
    Callers, Workers, \* the threads on either side of the manager
    NWords, NBits,    \* the bitmaps: NWords words of NBits bits (64 in C)
    MaxTries,         \* retries_before_fallback
    Types,            \* the managers considered: "ECALL", "OCALL"
    CanCrash,         \* TRUE: the enclave may crash
    Unlisted,         \* the callers that ask for a function that is not in the table
    Busy,             \* how many lines may be with callers that are not modelled,
                      \* in long calls: each element is a number of first lines
    None              \* neither a line nor a caller

Words == 1..NWords
Bits == 1..NBits
Lines == Words \X Bits

ASSUME CallsAssumption ==
    /\ NWords \in Nat \ {0} /\ NBits \in Nat \ {0}
    /\ MaxTries \in Nat \ {0}
    /\ Types \subseteq {"ECALL", "OCALL"}
    /\ CanCrash \in BOOLEAN
    /\ Unlisted \subseteq Callers
    /\ Busy \subseteq 0..(NWords * NBits)
    /\ None \notin Callers /\ None \notin Lines
    /\ Callers \cap {"unexpected", "invalid", "none", "again", "crashed"} = {}

VARIABLES
    type,             \* the manager's type
    free_lines,       \* the lines whose bit in free_lines is 1
    event_lines,      \* the lines whose bit in event_lines is 1
    status, func_id, ret_code,  \* the fields of tasks[line]
    cpc,              \* where each caller is in sl_call_mngr_call
    cword,            \* the word that it searches for a free line
    cline,            \* its line
    tries,            \* what is left of max_tries
    outcome,          \* what its last call returned
    wpc,              \* where each worker is in sl_call_mngr_process
    wword, wbits,     \* the word that it scans, and the bits still to test
    wline,            \* the line whose task it processes
    crashed,          \* sgx_is_enclave_crashed()
    runs              \* auxiliary: how often workers ran each caller's call

taskVars == <<status, func_id, ret_code>>
callerVars == <<cpc, cword, cline, tries, outcome>>
workerVars == <<wpc, wword, wbits, wline>>
crashVars == <<type, crashed>>
callVars == <<free_lines, event_lines, taskVars, callerVars, workerVars,
              crashVars, runs>>

Statuses == {"INIT", "SUBMITTED", "ACCEPTED", "DONE"}

\* A task asks for the function of its caller.  The code returned is that caller's
\* result, or an error.
Results == Callers \cup {"unexpected", "invalid"}

ResultOf(c) == IF c \in Unlisted THEN "invalid" ELSE c

CallsInit ==
    /\ type \in Types
    /\ \E n \in Busy : free_lines = {l \in Lines : (l[1] - 1) * NBits + l[2] > n}
    /\ event_lines = {}
    /\ status = [l \in Lines |-> "INIT"]
    /\ func_id = [l \in Lines |-> None]
    /\ ret_code = [l \in Lines |-> "unexpected"]
    /\ cpc = [c \in Callers |-> "out"]
    /\ cword = [c \in Callers |-> 1]
    /\ cline = [c \in Callers |-> None]
    /\ tries = [c \in Callers |-> 0]
    /\ outcome = [c \in Callers |-> "none"]
    /\ wpc = [w \in Workers |-> "idle"]
    /\ wword = [w \in Workers |-> 1]
    /\ wbits = [w \in Workers |-> {}]
    /\ wline = [w \in Workers |-> None]
    /\ crashed = FALSE
    /\ runs = [c \in Callers |-> 0]

-----------------------------------------------------------------------------
(* The caller: sl_call_mngr_call.                                          *)

Goto(c, p) == cpc' = [cpc EXCEPT ![c] = p]

\* The call ends early with result r, "again" or "crashed".
Return(c, r) ==
    /\ Goto(c, "out")
    /\ outcome' = [outcome EXCEPT ![c] = r]

\* Inside the enclave a caller checks for a crash first, and again as it polls.
SeesCrash == type = "OCALL" /\ crashed

\* sl_uswitchless_do_switchless_ecall or sgx_ocall_switchless, from the point
\* where it has found workers.
BeginCall(c) ==
    /\ cpc[c] = "out"
    /\ ~ SeesCrash
    /\ Goto(c, "alloc")
    /\ cword' = [cword EXCEPT ![c] = 1]
    /\ tries' = [tries EXCEPT ![c] = MaxTries]
    /\ outcome' = [outcome EXCEPT ![c] = "none"]
    /\ runs' = [runs EXCEPT ![c] = 0]
    /\ UNCHANGED <<free_lines, event_lines, taskVars, cline, workerVars, crashVars>>

\* Mutation of AllocLine: the bit is read but not cleared.
AllocLine_NoClear(c) ==
    /\ cpc[c] = "alloc"
    /\ \E b \in Bits :
          /\ <<cword[c], b>> \in free_lines
          /\ cline' = [cline EXCEPT ![c] = <<cword[c], b>>]
    /\ Goto(c, "submit")
    /\ UNCHANGED <<free_lines, event_lines, taskVars, cword, tries, outcome, workerVars,
                   crashVars, runs>>

\* Mutation of AllocLine: the signal is raised before the task is written.
AllocLine_Signals(c) ==
    /\ cpc[c] = "alloc"
    /\ \E b \in Bits :
          LET l == <<cword[c], b>> IN
          /\ l \in free_lines
          /\ free_lines' = free_lines \ {l}
          /\ event_lines' = event_lines \cup {l}
          /\ cline' = [cline EXCEPT ![c] = l]
    /\ Goto(c, "submit")
    /\ UNCHANGED <<taskVars, cword, tries, outcome, workerVars, crashVars, runs>>

\* sl_siglines_alloc_line: a set bit of the word, cleared atomically; the next
\* word if there is none; -EAGAIN after the last.
AllocLine(c) ==
    /\ cpc[c] = "alloc"
    /\ \E b \in Bits :
          LET l == <<cword[c], b>> IN
          /\ l \in free_lines
          /\ free_lines' = free_lines \ {l}
          /\ cline' = [cline EXCEPT ![c] = l]
    /\ Goto(c, "submit")
    /\ UNCHANGED <<event_lines, taskVars, cword, tries, outcome, workerVars, crashVars,
                   runs>>

AllocNext(c) ==
    /\ cpc[c] = "alloc"
    /\ \A b \in Bits : <<cword[c], b>> \notin free_lines
    /\ IF cword[c] < NWords
       THEN /\ cword' = [cword EXCEPT ![c] = @ + 1]
            /\ UNCHANGED <<cpc, outcome>>
       ELSE /\ Return(c, "again")
            /\ UNCHANGED cword
    /\ UNCHANGED <<free_lines, event_lines, taskVars, cline, tries, workerVars, crashVars,
                   runs>>

Submit(c) ==
    /\ cpc[c] = "submit"
    /\ status' = [status EXCEPT ![cline[c]] = "SUBMITTED"]
    /\ func_id' = [func_id EXCEPT ![cline[c]] = c]
    /\ ret_code' = [ret_code EXCEPT ![cline[c]] = "unexpected"]
    /\ Goto(c, "trigger")
    /\ UNCHANGED <<free_lines, event_lines, cword, cline, tries, outcome, workerVars,
                   crashVars, runs>>

\* sl_siglines_trigger_signal
Trigger(c) ==
    /\ cpc[c] = "trigger"
    /\ event_lines' = event_lines \cup {cline[c]}
    /\ Goto(c, "poll")
    /\ UNCHANGED <<free_lines, taskVars, cword, cline, tries, outcome, workerVars,
                   crashVars, runs>>

\* Mutation of Poll: a caller that is out of tries waits and never revokes.
Poll_NoRevoke(c) ==
    /\ cpc[c] = "poll"
    /\ IF status[cline[c]] # "SUBMITTED"
       THEN Goto(c, "wait") /\ UNCHANGED tries
       ELSE /\ tries' = [tries EXCEPT ![c] = @ - 1]
            /\ IF tries[c] = 1 THEN Goto(c, "wait") ELSE UNCHANGED cpc
    /\ UNCHANGED <<free_lines, event_lines, taskVars, cword, cline, outcome, workerVars,
                   crashVars, runs>>

\* while ((status == SL_SUBMITTED) && (--max_tries > 0)).  A caller that sees
\* the crash returns at once and keeps its line.  tries is of no use after it.
Poll(c) ==
    /\ cpc[c] = "poll"
    /\ IF status[cline[c]] # "SUBMITTED"
       THEN /\ Goto(c, "wait")
            /\ tries' = [tries EXCEPT ![c] = 0]
            /\ UNCHANGED outcome
       ELSE /\ tries' = [tries EXCEPT ![c] = @ - 1]
            /\ IF tries[c] = 1 THEN Goto(c, "revoke") /\ UNCHANGED outcome
               ELSE IF SeesCrash THEN Return(c, "crashed")
               ELSE UNCHANGED <<cpc, outcome>>
    /\ UNCHANGED <<free_lines, event_lines, taskVars, cword, cline, workerVars, crashVars,
                   runs>>

\* Mutation of Revoke: the result of test_and_clear_bit is ignored.
Revoke_Unchecked(c) ==
    /\ cpc[c] = "revoke"
    /\ event_lines' = event_lines \ {cline[c]}
    /\ outcome' = [outcome EXCEPT ![c] = "again"]
    /\ Goto(c, "clear")
    /\ UNCHANGED <<free_lines, taskVars, cword, cline, tries, workerVars, crashVars, runs>>

\* sl_siglines_revoke_signal: whoever clears the bit has the task.
Revoke(c) ==
    /\ cpc[c] = "revoke"
    /\ IF cline[c] \in event_lines
       THEN /\ event_lines' = event_lines \ {cline[c]}
            /\ outcome' = [outcome EXCEPT ![c] = "again"]
            /\ Goto(c, "clear")
       ELSE /\ Goto(c, "wait")
            /\ UNCHANGED <<event_lines, outcome>>
    /\ UNCHANGED <<free_lines, taskVars, cword, cline, tries, workerVars, crashVars, runs>>

\* while (status != SL_DONE)
WaitDone(c) ==
    /\ cpc[c] = "wait"
    /\ \/ /\ status[cline[c]] = "DONE"
          /\ Goto(c, "collect")
          /\ UNCHANGED outcome
       \/ /\ status[cline[c]] # "DONE"
          /\ SeesCrash
          /\ Return(c, "crashed")
    /\ UNCHANGED <<free_lines, event_lines, taskVars, cword, cline, tries, workerVars,
                   crashVars, runs>>

\* The return code is recorded in outcome.
Collect(c) ==
    /\ cpc[c] = "collect"
    /\ outcome' = [outcome EXCEPT ![c] = ret_code[cline[c]]]
    /\ Goto(c, "clear")
    /\ UNCHANGED <<free_lines, event_lines, taskVars, cword, cline, tries, workerVars,
                   crashVars, runs>>

ClearTask(c) ==
    /\ cpc[c] = "clear"
    /\ func_id' = [func_id EXCEPT ![cline[c]] = None]
    /\ Goto(c, "free")
    /\ UNCHANGED <<free_lines, event_lines, status, ret_code, cword, cline, tries, outcome,
                   workerVars, crashVars, runs>>

\* sl_siglines_free_line
FreeLine(c) ==
    /\ cpc[c] = "free"
    /\ free_lines' = free_lines \cup {cline[c]}
    /\ cline' = [cline EXCEPT ![c] = None]
    /\ Goto(c, "out")
    /\ UNCHANGED <<event_lines, taskVars, cword, tries, outcome, workerVars, crashVars,
                   runs>>

-----------------------------------------------------------------------------
(* The worker: sl_siglines_process_signals and process_switchless_call.    *)

WGoto(w, p) == wpc' = [wpc EXCEPT ![w] = p]

\* Inside the enclave the worker stops, and drops a task it has just taken,
\* when the enclave has crashed.
WorkerSeesCrash == type = "ECALL" /\ crashed

BeginScan(w) ==
    /\ wpc[w] = "idle"
    /\ ~ WorkerSeesCrash
    /\ WGoto(w, "scan")
    /\ UNCHANGED <<free_lines, event_lines, taskVars, callerVars, wword, wbits, wline,
                   crashVars, runs>>

\* After a word: the next one, or the end of the scan.
NextWord(w) ==
    IF wword[w] < NWords
    THEN wword' = [wword EXCEPT ![w] = @ + 1] /\ WGoto(w, "scan")
    ELSE wword' = [wword EXCEPT ![w] = 1] /\ WGoto(w, "idle")

Pending(i) == {b \in Bits : <<i, b>> \in event_lines}

\* Read a word once; its lowest and highest set bits bound the loop.
ScanWord(w) ==
    /\ wpc[w] = "scan"
    /\ LET on == Pending(wword[w]) IN
       /\ wbits' = [wbits EXCEPT ![w] = {b \in Bits : \E lo, hi \in on : lo <= b /\ b <= hi}]
       /\ IF on = {} THEN NextWord(w) ELSE WGoto(w, "bits") /\ UNCHANGED wword
    /\ UNCHANGED <<free_lines, event_lines, taskVars, callerVars, wline, crashVars, runs>>

\* for (bit_n = start_bit; bit_n < end_bit; bit_n++), with the bits of rest to go
NextBit(w, rest) ==
    IF rest # {} THEN WGoto(w, "bits") /\ UNCHANGED wword ELSE NextWord(w)

Least(S) == CHOOSE b \in S : \A d \in S : b <= d

\* test_and_clear_bit: whoever clears the bit has the task.
TestBit(w) ==
    LET b == Least(wbits[w])
        l == <<wword[w], b>> IN
    /\ wpc[w] = "bits"
    /\ wbits' = [wbits EXCEPT ![w] = @ \ {b}]
    /\ IF l \in event_lines
       THEN /\ event_lines' = event_lines \ {l}
            /\ wline' = [wline EXCEPT ![w] = l]
            /\ WGoto(w, "accept")
            /\ UNCHANGED wword
       ELSE /\ NextBit(w, wbits[w] \ {b})
            /\ UNCHANGED <<event_lines, wline>>
    /\ UNCHANGED <<free_lines, taskVars, callerVars, crashVars, runs>>

Accept(w) ==
    /\ wpc[w] = "accept"
    /\ ~ WorkerSeesCrash
    /\ status' = [status EXCEPT ![wline[w]] = "ACCEPTED"]
    /\ WGoto(w, "run")
    /\ UNCHANGED <<free_lines, event_lines, func_id, ret_code, callerVars, wword, wbits,
                   wline, crashVars, runs>>

Skip(w) ==
    /\ wpc[w] = "accept"
    /\ WorkerSeesCrash
    /\ wline' = [wline EXCEPT ![w] = None]
    /\ NextBit(w, wbits[w])
    /\ UNCHANGED <<free_lines, event_lines, taskVars, callerVars, wbits, crashVars, runs>>

\* Look the function up and call it: a function that is not in the table is
\* not run.  A task that was withdrawn has no function (SL_INVALID_FUNC_ID).
RunTask(w) ==
    LET f == func_id[wline[w]] IN
    /\ wpc[w] = "run"
    /\ IF f \in Callers \ Unlisted
       THEN /\ runs' = [runs EXCEPT ![f] = @ + 1]
            /\ ret_code' = [ret_code EXCEPT ![wline[w]] = f]
       ELSE /\ ret_code' = [ret_code EXCEPT ![wline[w]] = "invalid"]
            /\ UNCHANGED runs
    /\ WGoto(w, "done")
    /\ UNCHANGED <<free_lines, event_lines, status, func_id, callerVars, wword, wbits,
                   wline, crashVars>>

Done(w) ==
    /\ wpc[w] = "done"
    /\ status' = [status EXCEPT ![wline[w]] = "DONE"]
    /\ wline' = [wline EXCEPT ![w] = None]
    /\ NextBit(w, wbits[w])
    /\ UNCHANGED <<free_lines, event_lines, func_id, ret_code, callerVars, wbits, crashVars,
                   runs>>

\* The called function aborts the enclave: the worker's own ecall returns.
Abort(w) ==
    /\ wpc[w] = "run"
    /\ CanCrash /\ type = "ECALL"
    /\ crashed' = TRUE
    /\ wline' = [wline EXCEPT ![w] = None]
    /\ wword' = [wword EXCEPT ![w] = 1]
    /\ wbits' = [wbits EXCEPT ![w] = {}]
    /\ WGoto(w, "idle")
    /\ UNCHANGED <<type, free_lines, event_lines, taskVars, callerVars, runs>>

\* Some other thread of the enclave aborts.
Crash ==
    /\ CanCrash
    /\ ~ crashed
    /\ crashed' = TRUE
    /\ UNCHANGED <<type, free_lines, event_lines, taskVars, callerVars, workerVars, runs>>

-----------------------------------------------------------------------------

CallerStep(c) ==
    \/ AllocLine(c) \/ AllocNext(c) \/ Submit(c) \/ Trigger(c)
    \/ Poll(c) \/ Revoke(c) \/ WaitDone(c) \/ Collect(c)
    \/ ClearTask(c) \/ FreeLine(c)

TaskStep(w) == Accept(w) \/ Skip(w) \/ RunTask(w) \/ Done(w)

WorkerStep(w) == BeginScan(w) \/ ScanWord(w) \/ TestBit(w) \/ TaskStep(w)

CallsNext ==
    \/ \E c \in Callers : BeginCall(c) \/ CallerStep(c)
    \/ \E w \in Workers : WorkerStep(w) \/ Abort(w)
    \/ Crash

\* Callers and workers run.  A worker that has a task finishes it, but no
\* worker has to look for one: a caller falls back by itself.
CallsFairness ==
    /\ \A c \in Callers : WF_callVars(CallerStep(c))
    /\ \A w \in Workers : WF_callVars(TaskStep(w))

CallsSpec == CallsInit /\ [][CallsNext]_callVars

CallsFairSpec == CallsSpec /\ CallsFairness

-----------------------------------------------------------------------------

\* Types of the shared bitmaps and tasks and of the two sides' local state.
CallsTypeOK ==
    /\ free_lines \subseteq Lines
    /\ event_lines \subseteq Lines
    /\ status \in [Lines -> Statuses]
    /\ func_id \in [Lines -> Callers \cup {None}]
    /\ ret_code \in [Lines -> Results]
    /\ cpc \in [Callers -> {"out", "alloc", "submit", "trigger", "poll", "revoke", "wait",
                            "collect", "clear", "free"}]
    /\ cword \in [Callers -> Words]
    /\ cline \in [Callers -> Lines \cup {None}]
    /\ tries \in [Callers -> 0..MaxTries]
    /\ outcome \in [Callers -> Results \cup {"none", "again", "crashed"}]
    /\ wpc \in [Workers -> {"idle", "scan", "bits", "accept", "run", "done"}]
    /\ wword \in [Workers -> Words]
    /\ wbits \in [Workers -> SUBSET Bits]
    /\ wline \in [Workers -> Lines \cup {None}]
    /\ type \in Types /\ crashed \in BOOLEAN
    /\ runs \in [Callers -> Nat]

\* A line has one user on each side: callers never share one, nor do workers,
\* and neither a free line nor one whose bit is set is with a worker.
LinesExclusive ==
    /\ CallsTypeOK
    /\ \A c, d \in Callers : cline[c] # None /\ cline[c] = cline[d] => c = d
    /\ \A v, w \in Workers : wline[v] # None /\ wline[v] = wline[w] => v = w
    /\ \A c \in Callers : cline[c] \notin free_lines
    /\ \A w \in Workers : wline[w] \notin free_lines \cup event_lines

\* BUG_ON(call_task_u->status != SL_SUBMITTED): whoever clears a bit finds a
\* submitted task with the function of the caller that owns the line.
SignalledTaskIsSubmitted ==
    \A l \in Lines :
        l \in event_lines \/ (\E w \in Workers : wpc[w] = "accept" /\ wline[w] = l) =>
            /\ status[l] = "SUBMITTED"
            /\ \E c \in Callers : cline[c] = l /\ func_id[l] = c

\* A call that falls back has not been run by a worker and never will be, and
\* a call that returns a worker's result was run exactly once (or not at all
\* when its function is not in the table) and returns its own result.
ExactlyOnce ==
    \A c \in Callers :
        /\ outcome[c] = "again" =>
              /\ runs[c] = 0
              /\ \A w \in Workers : wline[w] # None => func_id[wline[w]] # c
        /\ outcome[c] \in Results =>
              /\ outcome[c] = ResultOf(c)
              /\ runs[c] = IF c \in Unlisted THEN 0 ELSE 1

\* "The request must has been accepted": when a caller waits for DONE, its task
\* is accepted or finished, or a worker has it and is about to accept it.
AcceptedWhenWaiting ==
    \A c \in Callers : cpc[c] = "wait" =>
        \/ status[cline[c]] \in {"ACCEPTED", "DONE"}
        \/ \E w \in Workers : wline[w] = cline[c]

\* The same for a manager whose callers are inside, and for the other one as long
\* as the enclave has not crashed.
AcceptedUnlessCrashed == ~ WorkerSeesCrash => AcceptedWhenWaiting

\* The task that a bit or a waiting caller stands for is there: submitted before a
\* worker accepts it, and in a worker's hands once its caller waits for DONE.
TasksAccounted == SignalledTaskIsSubmitted /\ AcceptedUnlessCrashed

\* There, every call returns, whatever the workers do while they have no task.
EveryCallEnds ==
    \A c \in Callers : cpc[c] # "out" ~> cpc[c] = "out" \/ WorkerSeesCrash

=============================================================================
