------------------------ MODULE SwitchlessCallsProofs -----------------------
(***************************************************************************)
(* Proofs about SwitchlessCalls, for either type of manager, any number of *)
(* callers, workers, lines and tries, and an enclave that may crash at any *)
(* moment.                                                                 *)
(***************************************************************************)
EXTENDS SwitchlessCalls, TLAPS

\* How often a worker runs a call, and what the caller has once it has its answer
\* or has taken its task back.
Expected(c) == IF c \in Unlisted THEN 0 ELSE 1

Answered(c) == ret_code[cline[c]] = ResultOf(c) /\ runs[c] = Expected(c)

Ended(c) == \/ outcome[c] = "again" /\ runs[c] = 0
            \/ outcome[c] = ResultOf(c) /\ runs[c] = Expected(c)

Taken(l) == \E w \in Workers : wline[w] = l

\* Where the task of a caller that polls, revokes or waits is: signalled, with a
\* worker, finished, or lost with the enclave.
TaskIsSomewhere(c) ==
    \/ /\ status[cline[c]] = "SUBMITTED"
       /\ \/ cline[c] \in event_lines /\ cpc[c] # "wait"
          \/ Taken(cline[c])
          \/ WorkerSeesCrash
    \/ status[cline[c]] = "ACCEPTED"
    \/ status[cline[c]] = "DONE" /\ Answered(c)

CallerAt(c) ==
    /\ cpc[c] \in {"alloc", "submit", "trigger", "poll"} => tries[c] > 0
    /\ cpc[c] \in {"alloc", "submit", "trigger"} => runs[c] = 0
    /\ cpc[c] \in {"alloc", "submit", "trigger", "poll", "revoke", "wait", "collect"} =>
          outcome[c] = "none"
    /\ cpc[c] \notin {"out", "alloc"} => cline[c] \in Lines
    /\ cpc[c] = "alloc" => cline[c] = None
    /\ cpc[c] = "out" =>
          \/ cline[c] = None /\ (outcome[c] = "none" \/ Ended(c))
          \/ cline[c] \in Lines /\ outcome[c] = "crashed" /\ SeesCrash
    /\ cpc[c] \in {"trigger", "poll", "revoke", "wait", "collect"} => func_id[cline[c]] = c
    /\ cpc[c] = "trigger" => status[cline[c]] = "SUBMITTED"
    /\ cpc[c] \in {"poll", "revoke", "wait"} => TaskIsSomewhere(c)
    /\ cpc[c] = "collect" => status[cline[c]] = "DONE" /\ Answered(c)
    /\ cpc[c] \in {"clear", "free"} => Ended(c)

\* The line's task belongs to the caller that has the line.
Owned(l) == func_id[l] \in Callers /\ cline[func_id[l]] = l

SignalAt(l) ==
    l \in event_lines =>
        /\ Owned(l) /\ cpc[func_id[l]] \in {"poll", "revoke", "out"}
        /\ status[l] = "SUBMITTED" /\ runs[func_id[l]] = 0

WorkerAt(w) ==
    /\ wpc[w] \in {"accept", "run", "done"} <=> wline[w] # None
    /\ wline[w] # None =>
          /\ wline[w] \notin event_lines
          /\ Owned(wline[w]) /\ cpc[func_id[wline[w]]] \in {"poll", "revoke", "wait", "out"}
          /\ status[wline[w]] = IF wpc[w] = "accept" THEN "SUBMITTED" ELSE "ACCEPTED"
          /\ wpc[w] = "done" => Answered(func_id[wline[w]])
          /\ wpc[w] # "done" => runs[func_id[wline[w]]] = 0

Alone ==
    /\ \A c, d \in Callers : cline[c] # None /\ cline[c] = cline[d] => c = d
    /\ \A v, w \in Workers : wline[v] # None /\ wline[v] = wline[w] => v = w
    /\ \A c \in Callers : cline[c] \notin free_lines

\* The inductive invariant.
CallsInv ==
    /\ CallsTypeOK
    /\ \A c \in Callers : CallerAt(c)
    /\ \A l \in Lines : SignalAt(l)
    /\ \A w \in Workers : WorkerAt(w)
    /\ Alone

LEMMA CallsInitOK == CallsInit => CallsInv
<1> SUFFICES ASSUME CallsInit PROVE CallsInv
  BY Zenon
<1>1. CallsTypeOK
  <2>1. 1 \in Words /\ MaxTries \in Nat
    BY CallsAssumption DEF Words
  <2>2. free_lines \subseteq Lines /\ type \in Types
    BY Zenon DEF CallsInit
  <2>3. /\ event_lines \subseteq Lines /\ status \in [Lines -> Statuses]
        /\ func_id \in [Lines -> Callers \cup {None}] /\ ret_code \in [Lines -> Results]
    BY Zenon DEF CallsInit, Statuses, Results
  <2>4. /\ cpc \in [Callers -> {"out", "alloc", "submit", "trigger", "poll", "revoke", "wait",
                                 "collect", "clear", "free"}]
        /\ cword \in [Callers -> Words] /\ cline \in [Callers -> Lines \cup {None}]
        /\ tries \in [Callers -> 0..MaxTries] /\ runs \in [Callers -> Nat]
        /\ outcome \in [Callers -> Results \cup {"none", "again", "crashed"}]
    BY <2>1 DEF CallsInit
  <2>5. /\ wpc \in [Workers -> {"idle", "scan", "bits", "accept", "run", "done"}]
        /\ wword \in [Workers -> Words] /\ wbits \in [Workers -> SUBSET Bits]
        /\ wline \in [Workers -> Lines \cup {None}]
    BY <2>1, Zenon DEF CallsInit
  <2>6. crashed \in BOOLEAN
    BY Zenon DEF CallsInit
  <2> QED
    BY <2>2, <2>3, <2>4, <2>5, <2>6, Zenon DEF CallsTypeOK
<1>2. \A c \in Callers : cpc[c] = "out" /\ cline[c] = None /\ outcome[c] = "none"
  BY Zenon DEF CallsInit
<1>3. \A w \in Workers : wpc[w] = "idle" /\ wline[w] = None
  BY Zenon DEF CallsInit
<1>4. \A c \in Callers : CallerAt(c)
  BY <1>2, Zenon DEF CallerAt
<1>5. \A l \in Lines : SignalAt(l)
  BY Zenon DEF CallsInit, SignalAt
<1>6. \A w \in Workers : WorkerAt(w)
  BY <1>3, Zenon DEF WorkerAt
<1>7. Alone
  BY <1>1, <1>2, <1>3, CallsAssumption DEF Alone, CallsTypeOK
<1> QED
  BY <1>1, <1>4, <1>5, <1>6, <1>7, Zenon DEF CallsInv

\* What the invariant says about the properties.
LEMMA InvExclusive == CallsInv => LinesExclusive
<1> SUFFICES ASSUME CallsInv PROVE LinesExclusive
  BY Zenon
<1>1. \A w \in Workers : wline[w] \notin free_lines \cup event_lines
  <2> SUFFICES ASSUME NEW w \in Workers, wline[w] \in free_lines \cup event_lines PROVE FALSE
    BY Zenon
  <2>1. wline[w] # None
    BY CallsAssumption, Zenon DEF CallsInv, CallsTypeOK
  <2>2. wline[w] \notin event_lines /\ Owned(wline[w])
    BY <2>1, Zenon DEF CallsInv, WorkerAt
  <2> QED
    BY <2>2, Zenon DEF CallsInv, Owned, Alone
<1> QED
  BY <1>1, Zenon DEF CallsInv, LinesExclusive, Alone

LEMMA InvAccounted == CallsInv => TasksAccounted
<1> SUFFICES ASSUME CallsInv PROVE TasksAccounted
  BY Zenon
<1>1. SignalledTaskIsSubmitted
  <2> SUFFICES ASSUME NEW l \in Lines,
                      l \in event_lines \/ (\E w \in Workers : wpc[w] = "accept" /\ wline[w] = l)
               PROVE  status[l] = "SUBMITTED" /\ Owned(l)
    BY Zenon DEF SignalledTaskIsSubmitted, Owned
  <2>1. CASE l \in event_lines
    BY <2>1, Zenon DEF CallsInv, SignalAt
  <2>2. CASE \E w \in Workers : wpc[w] = "accept" /\ wline[w] = l
    BY <2>2, CallsAssumption DEF CallsInv, WorkerAt
  <2> QED
    BY <2>1, <2>2, Zenon
<1>2. AcceptedUnlessCrashed
  BY Zenon DEF CallsInv, CallerAt, TaskIsSomewhere, AcceptedUnlessCrashed, AcceptedWhenWaiting,
               Taken
<1> QED
  BY <1>1, <1>2, Zenon DEF TasksAccounted

LEMMA InvOnce == CallsInv => ExactlyOnce
<1> SUFFICES ASSUME CallsInv, NEW c \in Callers
             PROVE  /\ outcome[c] = "again" =>
                          /\ runs[c] = 0
                          /\ \A w \in Workers : wline[w] # None => func_id[wline[w]] # c
                    /\ outcome[c] \in Results =>
                          outcome[c] = ResultOf(c) /\ runs[c] = Expected(c)
  BY Zenon DEF ExactlyOnce, Expected
<1>1. ResultOf(c) # "again" /\ {"again", "none", "crashed"} \cap Results = {}
  BY CallsAssumption, Zenon DEF ResultOf, Results
<1>2. outcome[c] \notin {"none", "crashed"} =>
          /\ Ended(c)
          /\ cpc[c] \in {"clear", "free"} \/ (cpc[c] = "out" /\ cline[c] = None)
  <2>1. /\ cpc[c] \in {"out", "alloc", "submit", "trigger", "poll", "revoke", "wait",
                       "collect", "clear", "free"}
        /\ CallerAt(c)
    BY Zenon DEF CallsInv, CallsTypeOK
  <2> QED
    BY <2>1, Zenon DEF CallerAt
<1>3. outcome[c] = "again" => runs[c] = 0
  BY <1>1, <1>2, Zenon DEF Ended
<1>4. outcome[c] = "again" => \A w \in Workers : wline[w] # None => func_id[wline[w]] # c
  BY <1>2 DEF CallsInv, WorkerAt, Owned
<1>5. outcome[c] \in Results => outcome[c] = ResultOf(c) /\ runs[c] = Expected(c)
  BY <1>1, <1>2, Zenon DEF Ended
<1> QED
  BY <1>3, <1>4, <1>5, Zenon

-----------------------------------------------------------------------------
(* The caller's steps.                                                     *)

\* All that a step of caller c, which has the line l or None, leaves alone.
Frame(c, l) ==
    /\ \A d \in Callers \ {c} :
          /\ cpc'[d] = cpc[d] /\ cline'[d] = cline[d] /\ tries'[d] = tries[d]
          /\ outcome'[d] = outcome[d] /\ runs'[d] = runs[d]
    /\ \A k \in Lines \ {l} :
          /\ status'[k] = status[k] /\ func_id'[k] = func_id[k] /\ ret_code'[k] = ret_code[k]
          /\ k \in event_lines' <=> k \in event_lines
    /\ UNCHANGED <<wpc, wline, type, crashed>>

\* It may keep its line, give it back, or take one that was free.
LineStep(c, l) ==
    \/ cline'[c] = l /\ free_lines' = free_lines
    \/ cline'[c] = None /\ l # None /\ free_lines' = free_lines \cup {l}
    \/ l = None /\ cline'[c] \in free_lines /\ free_lines' = free_lines \ {cline'[c]}

LEMMA CallerMoves ==
    ASSUME CallsInv, CallsTypeOK', NEW c \in Callers, NEW l \in Lines \cup {None},
           cline[c] = l, Frame(c, l), LineStep(c, l), CallerAt(c)',
           l # None => SignalAt(l)' /\ \A w \in Workers : wline[w] = l => WorkerAt(w)'
    PROVE  CallsInv'
<1>1. ASSUME NEW d \in Callers, d # c PROVE CallerAt(d)'
  <2>1. /\ CallerAt(d) /\ cpc'[d] = cpc[d] /\ cline'[d] = cline[d] /\ tries'[d] = tries[d]
        /\ outcome'[d] = outcome[d] /\ runs'[d] = runs[d] /\ UNCHANGED <<wline, type, crashed>>
    BY <1>1, Zenon DEF CallsInv, Frame
  <2>2. CASE cline[d] = None
    BY <2>1, <2>2, CallsAssumption, Zenon DEF CallerAt, Ended
  <2>3. CASE cline[d] # None
    <3>1. cline[d] \in Lines /\ cline[d] # l
      BY <1>1, <2>3, Zenon DEF CallsInv, CallsTypeOK, Alone
    <3>2. /\ status'[cline[d]] = status[cline[d]] /\ func_id'[cline[d]] = func_id[cline[d]]
          /\ ret_code'[cline[d]] = ret_code[cline[d]]
          /\ cline[d] \in event_lines' <=> cline[d] \in event_lines
      BY <3>1, Zenon DEF Frame
    <3>3. Taken(cline[d])' <=> Taken(cline[d])
      BY <2>1, Zenon DEF Taken
    <3> QED
      BY <2>1, <3>1, <3>2, <3>3, Zenon DEF CallerAt, TaskIsSomewhere, Answered, Ended, SeesCrash,
                                    WorkerSeesCrash
  <2> QED
    BY <2>2, <2>3, Zenon
<1>2. ASSUME NEW k \in Lines, k # l PROVE SignalAt(k)'
  <2>1. /\ SignalAt(k) /\ status'[k] = status[k] /\ func_id'[k] = func_id[k]
        /\ k \in event_lines' <=> k \in event_lines
    BY <1>2, Zenon DEF CallsInv, Frame
  <2>2. k \in event_lines => func_id[k] \in Callers \ {c}
    BY <1>2, <2>1, Zenon DEF SignalAt, Owned
  <2> QED
    BY <2>1, <2>2 DEF SignalAt, Owned, Frame
<1>3. ASSUME NEW w \in Workers, wline[w] # l \/ l = None PROVE WorkerAt(w)'
  <2>1. WorkerAt(w) /\ wpc' = wpc /\ wline' = wline
    BY Zenon DEF CallsInv, Frame
  <2>2. CASE wline[w] = None
    BY <2>1, <2>2, Zenon DEF WorkerAt
  <2>3. CASE wline[w] # None
    <3>1. wline[w] \in Lines \ {l} /\ func_id[wline[w]] \in Callers \ {c}
      BY <1>3, <2>1, <2>3, CallsAssumption DEF WorkerAt, Owned, CallsInv, CallsTypeOK
    <3> QED
      BY <2>1, <2>3, <3>1 DEF WorkerAt, Owned, Answered, Frame
  <2> QED
    BY <2>2, <2>3, Zenon
<1>4. Alone'
  <2>1. /\ \A d \in Callers \ {c} : cline'[d] = cline[d] /\ (cline[d] # None => cline[d] # l)
        /\ cline'[c] \in {l, None} \/ cline'[c] \in free_lines
        /\ wline' = wline
    BY Zenon DEF Frame, LineStep, CallsInv, Alone
  <2>2. \A d \in Callers \ {c} : cline[d] # None => cline'[c] # cline[d]
    BY <2>1, Zenon DEF CallsInv, Alone
  <2>3. \A a, d \in Callers : cline'[a] # None /\ cline'[a] = cline'[d] => a = d
    BY <2>1, <2>2, Zenon DEF CallsInv, Alone
  <2>4. \A d \in Callers : cline'[d] \notin free_lines'
    BY <2>1, CallsAssumption DEF LineStep, CallsInv, Alone, CallsTypeOK
  <2> QED
    BY <2>1, <2>3, <2>4, Zenon DEF CallsInv, Alone
<1>5. \A k \in Lines : SignalAt(k)'
  BY <1>2, CallsAssumption, Zenon
<1>6. \A w \in Workers : WorkerAt(w)'
  BY <1>3, Zenon
<1> QED
  BY <1>1, <1>4, <1>5, <1>6, Zenon DEF CallsInv

\* A caller that has not raised its signal, or has its task back, has its line to
\* itself.
LEMMA OwnLine ==
    ASSUME CallsInv, NEW c \in Callers, NEW l \in Lines, cline[c] = l,
           cpc[c] \notin {"poll", "revoke", "wait", "out"}
    PROVE  l \notin event_lines /\ \A w \in Workers : wline[w] # l
<1>1. l # None
  BY CallsAssumption, Zenon
<1>2. ASSUME Owned(l), cpc[func_id[l]] \in {"poll", "revoke", "wait", "out"} PROVE FALSE
  BY <1>1, <1>2, Zenon DEF Owned, CallsInv, Alone
<1>3. l \notin event_lines
  BY <1>2, Zenon DEF CallsInv, SignalAt
<1>4. \A w \in Workers : wline[w] # l
  BY <1>1, <1>2, Zenon DEF CallsInv, WorkerAt
<1> QED
  BY <1>3, <1>4, Zenon

LEMMA BeginCallOK ==
    ASSUME CallsInv, NEW c \in Callers, BeginCall(c)
    PROVE  CallsInv'
<1>1. /\ cpc[c] = "out" /\ ~ SeesCrash /\ cpc' = [cpc EXCEPT ![c] = "alloc"]
      /\ cword' = [cword EXCEPT ![c] = 1] /\ tries' = [tries EXCEPT ![c] = MaxTries]
      /\ outcome' = [outcome EXCEPT ![c] = "none"] /\ runs' = [runs EXCEPT ![c] = 0]
      /\ UNCHANGED <<free_lines, event_lines, status, func_id, ret_code, cline, wpc, wword,
                     wbits, wline, type, crashed>>
  BY Zenon DEF BeginCall, Goto, taskVars, workerVars, crashVars
<1>2. cline[c] = None
  BY <1>1, Zenon DEF CallsInv, CallerAt
<1>3. 1 \in Words /\ MaxTries \in 0..MaxTries /\ MaxTries > 0
  BY CallsAssumption DEF Words
<1>4. CallsTypeOK'
  BY <1>1, <1>3, Zenon DEF CallsInv, CallsTypeOK
<1>5. Frame(c, None) /\ LineStep(c, None)
  BY <1>1, <1>2, Zenon DEF Frame, LineStep, CallsInv, CallsTypeOK
<1>6. CallerAt(c)'
  BY <1>1, <1>2, <1>3, Zenon DEF CallerAt, CallsInv, CallsTypeOK
<1> QED
  BY <1>2, <1>4, <1>5, <1>6, CallerMoves, Zenon

LEMMA AllocLineOK ==
    ASSUME CallsInv, NEW c \in Callers, AllocLine(c)
    PROVE  CallsInv'
<1>1. PICK k \in Lines : k \in free_lines /\ free_lines' = free_lines \ {k}
                         /\ cline' = [cline EXCEPT ![c] = k]
  BY Zenon DEF AllocLine, CallsInv, CallsTypeOK
<1>2. /\ cpc[c] = "alloc" /\ cpc' = [cpc EXCEPT ![c] = "submit"]
      /\ UNCHANGED <<event_lines, status, func_id, ret_code, cword, tries, outcome, runs, wpc,
                     wword, wbits, wline, type, crashed>>
  BY Zenon DEF AllocLine, Goto, taskVars, workerVars, crashVars
<1>3. cline[c] = None /\ CallerAt(c)
  BY <1>2, Zenon DEF CallsInv, CallerAt
<1>4. CallsTypeOK'
  BY <1>1, <1>2, Zenon DEF CallsInv, CallsTypeOK
<1>5. Frame(c, None) /\ LineStep(c, None)
  BY <1>1, <1>2, <1>3, Zenon DEF Frame, LineStep, CallsInv, CallsTypeOK
<1>6. CallerAt(c)'
  BY <1>1, <1>2, <1>3, Zenon DEF CallerAt, CallsInv, CallsTypeOK
<1> QED
  BY <1>3, <1>4, <1>5, <1>6, CallerMoves, Zenon

LEMMA AllocNextOK ==
    ASSUME CallsInv, NEW c \in Callers, AllocNext(c)
    PROVE  CallsInv'
<1>1. /\ cpc[c] = "alloc"
      /\ UNCHANGED <<free_lines, event_lines, status, func_id, ret_code, cline, tries, runs,
                     wpc, wword, wbits, wline, type, crashed>>
  BY Zenon DEF AllocNext, taskVars, workerVars, crashVars
<1>2. cline[c] = None /\ CallerAt(c) /\ runs[c] = 0
  BY <1>1, Zenon DEF CallsInv, CallerAt
<1>3. CASE cword[c] < NWords
  <2>1. cword' = [cword EXCEPT ![c] = @ + 1] /\ UNCHANGED <<cpc, outcome>>
    BY <1>3, Zenon DEF AllocNext
  <2>2. cword[c] + 1 \in Words
    BY <1>3, CallsAssumption DEF CallsInv, CallsTypeOK, Words
  <2>3. CallsTypeOK'
    BY <1>1, <2>1, <2>2, Zenon DEF CallsInv, CallsTypeOK
  <2>4. Frame(c, None) /\ LineStep(c, None)
    BY <1>1, <1>2, <2>1, Zenon DEF Frame, LineStep
  <2>5. CallerAt(c)'
    BY <1>1, <1>2, <2>1, Zenon DEF CallerAt
  <2> QED
    BY <1>2, <2>3, <2>4, <2>5, CallerMoves, Zenon
<1>4. CASE ~ (cword[c] < NWords)
  <2>1. /\ cpc' = [cpc EXCEPT ![c] = "out"] /\ outcome' = [outcome EXCEPT ![c] = "again"]
        /\ UNCHANGED cword
    BY <1>4, Zenon DEF AllocNext, Return, Goto
  <2>2. CallsTypeOK'
    BY <1>1, <2>1, Zenon DEF CallsInv, CallsTypeOK
  <2>3. Frame(c, None) /\ LineStep(c, None)
    BY <1>1, <1>2, <2>1, Zenon DEF Frame, LineStep, CallsInv, CallsTypeOK
  <2>4. CallerAt(c)'
    BY <1>1, <1>2, <2>1, Zenon DEF CallerAt, Ended, CallsInv, CallsTypeOK
  <2> QED
    BY <1>2, <2>2, <2>3, <2>4, CallerMoves, Zenon
<1> QED
  BY <1>3, <1>4, Zenon

LEMMA SubmitOK ==
    ASSUME CallsInv, NEW c \in Callers, Submit(c)
    PROVE  CallsInv'
<1>0. CallerAt(c) /\ cpc[c] = "submit"
  BY Zenon DEF CallsInv, Submit
<1> PICK l \in Lines : cline[c] = l
  BY <1>0, Zenon DEF CallerAt
<1>1. /\ cpc' = [cpc EXCEPT ![c] = "trigger"]
      /\ status' = [status EXCEPT ![l] = "SUBMITTED"] /\ func_id' = [func_id EXCEPT ![l] = c]
      /\ ret_code' = [ret_code EXCEPT ![l] = "unexpected"]
      /\ UNCHANGED <<free_lines, event_lines, cword, cline, tries, outcome, runs, wpc, wword,
                     wbits, wline, type, crashed>>
  BY Zenon DEF Submit, Goto, workerVars, crashVars
<1>2. l \notin event_lines /\ \A w \in Workers : wline[w] # l
  BY <1>0, OwnLine, Zenon
<1>3. CallsTypeOK'
  BY <1>1, Zenon DEF CallsInv, CallsTypeOK, Statuses, Results
<1>4. Frame(c, l) /\ LineStep(c, l)
  BY <1>1, Zenon DEF Frame, LineStep, CallsInv, CallsTypeOK
<1>5. CallerAt(c)'
  BY <1>0, <1>1 DEF CallerAt, CallsInv, CallsTypeOK
<1>6. SignalAt(l)'
  BY <1>1, <1>2, Zenon DEF SignalAt
<1> QED
  BY <1>2, <1>3, <1>4, <1>5, <1>6, CallerMoves, Zenon

LEMMA TriggerOK ==
    ASSUME CallsInv, NEW c \in Callers, Trigger(c)
    PROVE  CallsInv'
<1>0. CallerAt(c) /\ cpc[c] = "trigger"
  BY Zenon DEF CallsInv, Trigger
<1> PICK l \in Lines : cline[c] = l
  BY <1>0, Zenon DEF CallerAt
<1>1. /\ cpc' = [cpc EXCEPT ![c] = "poll"]
      /\ event_lines' = event_lines \cup {l}
      /\ UNCHANGED <<free_lines, status, func_id, ret_code, cword, cline, tries, outcome, runs,
                     wpc, wword, wbits, wline, type, crashed>>
  BY Zenon DEF Trigger, Goto, taskVars, workerVars, crashVars
<1>2. \A w \in Workers : wline[w] # l
  BY <1>0, OwnLine, Zenon
<1>3. CallsTypeOK'
  BY <1>1, Zenon DEF CallsInv, CallsTypeOK
<1>4. Frame(c, l) /\ LineStep(c, l)
  BY <1>1, Zenon DEF Frame, LineStep, CallsInv, CallsTypeOK
<1>5. cpc'[c] = "poll" /\ cline'[c] = l /\ func_id[l] = c /\ status[l] = "SUBMITTED" /\ runs[c] = 0
  BY <1>0, <1>1 DEF CallsInv, CallsTypeOK, CallerAt
<1>6. CallerAt(c)'
  BY <1>0, <1>1, <1>5, Zenon DEF CallerAt, TaskIsSomewhere
<1>7. SignalAt(l)'
  BY <1>1, <1>5, Zenon DEF SignalAt, Owned
<1> QED
  BY <1>2, <1>3, <1>4, <1>6, <1>7, CallerMoves, Zenon

\* A caller goes on, or returns because of the crash, and leaves its task alone.
LEMMA WatcherMoves ==
    ASSUME CallsInv, NEW c \in Callers, NEW l \in Lines, cline[c] = l,
           cpc[c] \in {"poll", "revoke", "wait"},
           CallsTypeOK', CallerAt(c)', NEW p, cpc' = [cpc EXCEPT ![c] = p],
           p = "collect" => status[l] = "DONE",
           p = "wait" => l \notin event_lines, p \in {"poll", "revoke", "wait", "out", "collect"},
           \A d \in Callers \ {c} : tries'[d] = tries[d] /\ outcome'[d] = outcome[d],
           UNCHANGED <<free_lines, event_lines, status, func_id, ret_code, cline, runs, wpc,
                       wline, type, crashed>>
    PROVE  CallsInv'
<1>1. cpc'[c] = p /\ \A d \in Callers \ {c} : cpc'[d] = cpc[d]
  BY DEF CallsInv, CallsTypeOK
<1>2. Frame(c, l) /\ LineStep(c, l)
  BY <1>1, Zenon DEF Frame, LineStep
<1>3. func_id[l] = c
  BY Zenon DEF CallsInv, CallerAt
<1>4. SignalAt(l)'
  BY <1>1, <1>3, Zenon DEF CallsInv, SignalAt, Owned
<1>5. ASSUME NEW w \in Workers, wline[w] = l PROVE WorkerAt(w)'
  <2>1. WorkerAt(w) /\ l # None
    BY CallsAssumption, Zenon DEF CallsInv
  <2>2. p # "collect"
    BY <1>5, <2>1, Zenon DEF WorkerAt
  <2> QED
    BY <1>1, <1>3, <1>5, <2>1, <2>2, Zenon DEF WorkerAt, Owned, Answered
<1> QED
  BY <1>2, <1>4, <1>5, CallerMoves, Zenon

LEMMA PollOK ==
    ASSUME CallsInv, NEW c \in Callers, Poll(c)
    PROVE  CallsInv'
<1>0. CallerAt(c) /\ cpc[c] = "poll"
  BY Zenon DEF CallsInv, Poll
<1> PICK l \in Lines : cline[c] = l
  BY <1>0, Zenon DEF CallerAt
<1>1. UNCHANGED <<free_lines, event_lines, status, func_id, ret_code, cword, cline, runs, wpc,
                  wword, wbits, wline, type, crashed>>
  BY Zenon DEF Poll, taskVars, workerVars, crashVars
<1>2. /\ tries[c] \in Nat /\ tries[c] > 0 /\ tries[c] <= MaxTries /\ MaxTries \in Nat
      /\ tries \in [Callers -> 0..MaxTries] /\ outcome[c] = "none" /\ TaskIsSomewhere(c)
      /\ func_id[l] = c /\ cpc \in [Callers -> {"out", "alloc", "submit", "trigger", "poll",
                                    "revoke", "wait", "collect", "clear", "free"}]
  BY <1>0, CallsAssumption DEF CallsInv, CallsTypeOK, CallerAt
<1>3. l \in event_lines => status[l] = "SUBMITTED"
  BY Zenon DEF CallsInv, SignalAt
<1>4. CASE status[l] # "SUBMITTED"
  <2>1. /\ cpc' = [cpc EXCEPT ![c] = "wait"] /\ tries' = [tries EXCEPT ![c] = 0]
        /\ UNCHANGED outcome
    BY <1>4, Zenon DEF Poll, Goto
  <2>2. CallsTypeOK'
    BY <1>1, <1>2, <2>1 DEF CallsInv, CallsTypeOK
  <2>3. cpc'[c] = "wait" /\ \A d \in Callers \ {c} : tries'[d] = tries[d]
    BY <1>2, <2>1, Zenon
  <2>4. TaskIsSomewhere(c)'
    BY <1>1, <1>2, <1>4, <2>3, Zenon DEF TaskIsSomewhere, Answered
  <2>5. CallerAt(c)'
    BY <1>1, <1>2, <2>1, <2>3, <2>4, Zenon DEF CallerAt
  <2> QED
    BY <1>0, <1>1, <1>3, <1>4, <2>1, <2>2, <2>3, <2>5, WatcherMoves, Zenon
<1>5. CASE status[l] = "SUBMITTED" /\ tries[c] = 1
  <2>1. /\ cpc' = [cpc EXCEPT ![c] = "revoke"] /\ tries' = [tries EXCEPT ![c] = 0]
        /\ UNCHANGED outcome
    BY <1>2, <1>5 DEF Poll, Goto
  <2>2. CallsTypeOK'
    BY <1>1, <1>2, <2>1 DEF CallsInv, CallsTypeOK
  <2>3. cpc'[c] = "revoke" /\ \A d \in Callers \ {c} : tries'[d] = tries[d]
    BY <1>2, <2>1, Zenon
  <2>4. TaskIsSomewhere(c)'
    BY <1>0, <1>1, <1>2, <2>3, Zenon DEF TaskIsSomewhere, Answered, Taken, WorkerSeesCrash
  <2>5. CallerAt(c)'
    BY <1>1, <1>2, <2>1, <2>3, <2>4, Zenon DEF CallerAt
  <2> QED
    BY <1>0, <1>1, <2>1, <2>2, <2>3, <2>5, WatcherMoves, Zenon
<1>6. CASE status[l] = "SUBMITTED" /\ tries[c] # 1 /\ SeesCrash
  <2>1. /\ cpc' = [cpc EXCEPT ![c] = "out"] /\ tries' = [tries EXCEPT ![c] = @ - 1]
        /\ outcome' = [outcome EXCEPT ![c] = "crashed"]
    BY <1>6, Zenon DEF Poll, Goto, Return
  <2>2. CallsTypeOK'
    BY <1>1, <1>2, <2>1 DEF CallsInv, CallsTypeOK
  <2>3. /\ cpc'[c] = "out" /\ outcome'[c] = "crashed"
        /\ \A d \in Callers \ {c} : tries'[d] = tries[d] /\ outcome'[d] = outcome[d]
    BY <1>2, <2>1, Zenon DEF CallsInv, CallsTypeOK
  <2>4. CallerAt(c)'
    BY <1>1, <1>6, <2>3, Zenon DEF CallerAt, SeesCrash
  <2> QED
    BY <1>0, <1>1, <2>1, <2>2, <2>3, <2>4, WatcherMoves, Zenon
<1>7. CASE status[l] = "SUBMITTED" /\ tries[c] # 1 /\ ~ SeesCrash
  <2>1. tries' = [tries EXCEPT ![c] = @ - 1] /\ UNCHANGED <<cpc, outcome>>
    BY <1>7, Zenon DEF Poll
  <2>2. CallsTypeOK'
    BY <1>1, <1>2, <2>1 DEF CallsInv, CallsTypeOK
  <2>3. cpc' = [cpc EXCEPT ![c] = "poll"] /\ \A d \in Callers \ {c} : tries'[d] = tries[d]
    BY <1>0, <1>2, <2>1, Zenon
  <2>4. tries'[c] > 0
    BY <1>2, <1>7, <2>1
  <2>5. TaskIsSomewhere(c)'
    BY <1>0, <1>1, <1>2, <2>1, Zenon DEF TaskIsSomewhere, Answered, Taken, WorkerSeesCrash
  <2>6. CallerAt(c)'
    BY <1>0, <1>1, <1>2, <2>1, <2>4, <2>5, Zenon DEF CallerAt
  <2> QED
    BY <1>0, <1>1, <2>1, <2>2, <2>3, <2>6, WatcherMoves, Zenon
<1> QED
  BY <1>4, <1>5, <1>6, <1>7, Zenon

LEMMA RevokeOK ==
    ASSUME CallsInv, NEW c \in Callers, Revoke(c)
    PROVE  CallsInv'
<1>0. CallerAt(c) /\ cpc[c] = "revoke"
  BY Zenon DEF CallsInv, Revoke
<1> PICK l \in Lines : cline[c] = l
  BY <1>0, Zenon DEF CallerAt
<1>1. UNCHANGED <<free_lines, status, func_id, ret_code, cword, cline, tries, runs, wpc, wword,
                  wbits, wline, type, crashed>>
  BY Zenon DEF Revoke, taskVars, workerVars, crashVars
<1>2. func_id[l] = c /\ outcome[c] = "none" /\ TaskIsSomewhere(c)
  BY <1>0, Zenon DEF CallerAt
<1>3. CASE l \in event_lines
  <2>1. /\ cpc' = [cpc EXCEPT ![c] = "clear"] /\ event_lines' = event_lines \ {l}
        /\ outcome' = [outcome EXCEPT ![c] = "again"]
    BY <1>3, Zenon DEF Revoke, Goto
  <2>2. CallsTypeOK'
    BY <1>1, <2>1, Zenon DEF CallsInv, CallsTypeOK
  <2>3. Frame(c, l) /\ LineStep(c, l)
    BY <1>1, <2>1, Zenon DEF Frame, LineStep, CallsInv, CallsTypeOK
  <2>4. runs[c] = 0 /\ cpc'[c] = "clear" /\ outcome'[c] = "again"
    BY <1>2, <1>3, <2>1 DEF CallsInv, CallsTypeOK, SignalAt
  <2>5. CallerAt(c)'
    BY <1>1, <2>4, Zenon DEF CallerAt, Ended
  <2>6. SignalAt(l)' /\ \A w \in Workers : wline[w] # l
    BY <1>3, <2>1, CallsAssumption, Zenon DEF SignalAt, CallsInv, WorkerAt
  <2> QED
    BY <2>2, <2>3, <2>5, <2>6, CallerMoves, Zenon
<1>4. CASE l \notin event_lines
  <2>1. cpc' = [cpc EXCEPT ![c] = "wait"] /\ UNCHANGED <<event_lines, outcome>>
    BY <1>4, Zenon DEF Revoke, Goto
  <2>2. CallsTypeOK'
    BY <1>1, <2>1, Zenon DEF CallsInv, CallsTypeOK
  <2>3. cpc'[c] = "wait"
    BY <2>1, Zenon DEF CallsInv, CallsTypeOK
  <2>4. TaskIsSomewhere(c)'
    BY <1>1, <1>2, <1>4, <2>1, <2>3, Zenon DEF TaskIsSomewhere, Answered, Taken, WorkerSeesCrash
  <2>5. CallerAt(c)'
    BY <1>1, <1>2, <2>1, <2>3, <2>4, Zenon DEF CallerAt
  <2> QED
    BY <1>0, <1>1, <1>4, <2>1, <2>2, <2>5, WatcherMoves, Zenon
<1> QED
  BY <1>3, <1>4, Zenon

LEMMA WaitDoneOK ==
    ASSUME CallsInv, NEW c \in Callers, WaitDone(c)
    PROVE  CallsInv'
<1>0. CallerAt(c) /\ cpc[c] = "wait"
  BY Zenon DEF CallsInv, WaitDone
<1> PICK l \in Lines : cline[c] = l
  BY <1>0, Zenon DEF CallerAt
<1>1. UNCHANGED <<free_lines, event_lines, status, func_id, ret_code, cword, cline, tries, runs,
                  wpc, wword, wbits, wline, type, crashed>>
  BY Zenon DEF WaitDone, taskVars, workerVars, crashVars
<1>2. func_id[l] = c /\ outcome[c] = "none" /\ TaskIsSomewhere(c)
  BY <1>0, Zenon DEF CallerAt
<1>3. CASE status[l] = "DONE" /\ Goto(c, "collect") /\ UNCHANGED outcome
  <2>1. CallsTypeOK'
    BY <1>1, <1>3, Zenon DEF CallsInv, CallsTypeOK, Goto
  <2>2. cpc'[c] = "collect"
    BY <1>3, Zenon DEF CallsInv, CallsTypeOK, Goto
  <2>3. CallerAt(c)'
    BY <1>1, <1>2, <1>3, <2>2, Zenon DEF CallerAt, TaskIsSomewhere, Answered
  <2> QED
    BY <1>0, <1>1, <1>3, <2>1, <2>3, WatcherMoves, Zenon DEF Goto
<1>4. CASE SeesCrash /\ Return(c, "crashed")
  <2>1. cpc' = [cpc EXCEPT ![c] = "out"] /\ outcome' = [outcome EXCEPT ![c] = "crashed"]
    BY <1>4, Zenon DEF Return, Goto
  <2>2. CallsTypeOK'
    BY <1>1, <2>1, Zenon DEF CallsInv, CallsTypeOK
  <2>3. /\ cpc'[c] = "out" /\ outcome'[c] = "crashed"
        /\ \A d \in Callers \ {c} : outcome'[d] = outcome[d]
    BY <2>1, Zenon DEF CallsInv, CallsTypeOK
  <2>4. CallerAt(c)'
    BY <1>1, <1>4, <2>3, Zenon DEF CallerAt, SeesCrash
  <2> QED
    BY <1>0, <1>1, <2>1, <2>2, <2>3, <2>4, WatcherMoves, Zenon
<1> QED
  BY <1>3, <1>4, Zenon DEF WaitDone

LEMMA CollectOK ==
    ASSUME CallsInv, NEW c \in Callers, Collect(c)
    PROVE  CallsInv'
<1>0. CallerAt(c) /\ cpc[c] = "collect"
  BY Zenon DEF CallsInv, Collect
<1> PICK l \in Lines : cline[c] = l
  BY <1>0, Zenon DEF CallerAt
<1>1. /\ cpc' = [cpc EXCEPT ![c] = "clear"] /\ outcome' = [outcome EXCEPT ![c] = ret_code[l]]
      /\ UNCHANGED <<free_lines, event_lines, status, func_id, ret_code, cword, cline, tries,
                     runs, wpc, wword, wbits, wline, type, crashed>>
  BY Zenon DEF Collect, Goto, taskVars, workerVars, crashVars
<1>2. l \notin event_lines /\ \A w \in Workers : wline[w] # l
  BY <1>0, OwnLine, Zenon
<1>3. CallsTypeOK'
  BY <1>1, Zenon DEF CallsInv, CallsTypeOK
<1>4. Frame(c, l) /\ LineStep(c, l)
  BY <1>1, Zenon DEF Frame, LineStep, CallsInv, CallsTypeOK
<1>5. cpc'[c] = "clear" /\ outcome'[c] = ResultOf(c) /\ runs[c] = Expected(c)
  BY <1>0, <1>1 DEF CallsInv, CallsTypeOK, CallerAt, Answered
<1>6. CallerAt(c)'
  BY <1>1, <1>5, Zenon DEF CallerAt, Ended
<1>7. SignalAt(l)'
  BY <1>1, <1>2, Zenon DEF SignalAt
<1> QED
  BY <1>2, <1>3, <1>4, <1>6, <1>7, CallerMoves, Zenon

LEMMA ClearTaskOK ==
    ASSUME CallsInv, NEW c \in Callers, ClearTask(c)
    PROVE  CallsInv'
<1>0. CallerAt(c) /\ cpc[c] = "clear"
  BY Zenon DEF CallsInv, ClearTask
<1> PICK l \in Lines : cline[c] = l
  BY <1>0, Zenon DEF CallerAt
<1>1. /\ cpc' = [cpc EXCEPT ![c] = "free"] /\ func_id' = [func_id EXCEPT ![l] = None]
      /\ UNCHANGED <<free_lines, event_lines, status, ret_code, cword, cline, tries, outcome,
                     runs, wpc, wword, wbits, wline, type, crashed>>
  BY Zenon DEF ClearTask, Goto, workerVars, crashVars
<1>2. l \notin event_lines /\ \A w \in Workers : wline[w] # l
  BY <1>0, OwnLine, Zenon
<1>3. CallsTypeOK'
  BY <1>1, Zenon DEF CallsInv, CallsTypeOK
<1>4. Frame(c, l) /\ LineStep(c, l)
  BY <1>1, Zenon DEF Frame, LineStep, CallsInv, CallsTypeOK
<1>5. cpc'[c] = "free" /\ Ended(c)
  BY <1>0, <1>1 DEF CallsInv, CallsTypeOK, CallerAt
<1>6. CallerAt(c)'
  BY <1>1, <1>5, Zenon DEF CallerAt, Ended
<1>7. SignalAt(l)'
  BY <1>1, <1>2, Zenon DEF SignalAt
<1> QED
  BY <1>2, <1>3, <1>4, <1>6, <1>7, CallerMoves, Zenon

LEMMA FreeLineOK ==
    ASSUME CallsInv, NEW c \in Callers, FreeLine(c)
    PROVE  CallsInv'
<1>0. CallerAt(c) /\ cpc[c] = "free"
  BY Zenon DEF CallsInv, FreeLine
<1> PICK l \in Lines : cline[c] = l
  BY <1>0, Zenon DEF CallerAt
<1>1. /\ cpc' = [cpc EXCEPT ![c] = "out"] /\ cline' = [cline EXCEPT ![c] = None]
      /\ free_lines' = free_lines \cup {l}
      /\ UNCHANGED <<event_lines, status, func_id, ret_code, cword, tries, outcome, runs, wpc,
                     wword, wbits, wline, type, crashed>>
  BY Zenon DEF FreeLine, Goto, taskVars, workerVars, crashVars
<1>2. l \notin event_lines /\ \A w \in Workers : wline[w] # l
  BY <1>0, OwnLine, Zenon
<1>3. CallsTypeOK'
  BY <1>1, Zenon DEF CallsInv, CallsTypeOK
<1>4. Frame(c, l) /\ LineStep(c, l)
  BY <1>1, CallsAssumption, Zenon DEF Frame, LineStep, CallsInv, CallsTypeOK
<1>5. cpc'[c] = "out" /\ cline'[c] = None /\ Ended(c)
  BY <1>0, <1>1 DEF CallsInv, CallsTypeOK, CallerAt
<1>6. CallerAt(c)'
  BY <1>1, <1>5, Zenon DEF CallerAt, Ended
<1>7. SignalAt(l)'
  BY <1>1, <1>2, Zenon DEF SignalAt
<1> QED
  BY <1>2, <1>3, <1>4, <1>6, <1>7, CallerMoves, Zenon

-----------------------------------------------------------------------------
(* The worker's steps.                                                     *)

\* All that a step of worker w, which takes, has or gives up the line l, leaves alone.
WorkerFrame(w, l) ==
    /\ \A v \in Workers \ {w} : wpc'[v] = wpc[v] /\ wline'[v] = wline[v]
    /\ \A k \in Lines \ {l} :
          /\ status'[k] = status[k] /\ func_id'[k] = func_id[k] /\ ret_code'[k] = ret_code[k]
          /\ k \in event_lines' <=> k \in event_lines
    /\ \A d \in Callers : cline[d] = None \/ cline[d] # l => runs'[d] = runs[d]
    /\ UNCHANGED <<free_lines, cpc, cline, tries, outcome, type>>
    /\ crashed => crashed'

LEMMA WorkerMoves ==
    ASSUME CallsInv, CallsTypeOK', NEW w \in Workers, NEW l \in Lines \cup {None},
           WorkerFrame(w, l), wline[w] \in {l, None}, wline'[w] \in {l, None}, WorkerAt(w)',
           l # None =>
               /\ \A v \in Workers \ {w} : wline[v] # l
               /\ SignalAt(l)' /\ \A d \in Callers : cline[d] = l => CallerAt(d)'
    PROVE  CallsInv'
<1>1. ASSUME NEW d \in Callers, cline[d] = None \/ cline[d] # l PROVE CallerAt(d)'
  <2>1. /\ CallerAt(d) /\ runs'[d] = runs[d] /\ UNCHANGED <<cpc, cline, tries, outcome, type>>
        /\ crashed => crashed'
    BY <1>1, Zenon DEF CallsInv, WorkerFrame
  <2>2. CASE cline[d] = None
    BY <2>1, <2>2, CallsAssumption, Zenon DEF CallerAt, Ended
  <2>3. CASE cline[d] # None
    <3>1. cline[d] \in Lines \ {l}
      BY <1>1, <2>3, Zenon DEF CallsInv, CallsTypeOK
    <3>2. /\ status'[cline[d]] = status[cline[d]] /\ func_id'[cline[d]] = func_id[cline[d]]
          /\ ret_code'[cline[d]] = ret_code[cline[d]]
          /\ cline[d] \in event_lines' <=> cline[d] \in event_lines
      BY <3>1, Zenon DEF WorkerFrame
    <3>3. Taken(cline[d]) => Taken(cline[d])'
      <4>1. ASSUME NEW v \in Workers, wline[v] = cline[d] PROVE wline'[v] = cline[d]
        BY <2>3, <3>1, <4>1, Zenon DEF WorkerFrame
      <4> QED
        BY <2>1, <4>1, Zenon DEF Taken
    <3> QED
      BY <2>1, <3>1, <3>2, <3>3 DEF CallerAt, TaskIsSomewhere, Answered, Ended, SeesCrash,
                                    WorkerSeesCrash
  <2> QED
    BY <2>2, <2>3, Zenon
<1>2. ASSUME NEW k \in Lines, k # l PROVE SignalAt(k)'
  <2>1. /\ SignalAt(k) /\ status'[k] = status[k] /\ func_id'[k] = func_id[k]
        /\ k \in event_lines' <=> k \in event_lines
        /\ UNCHANGED <<cpc, cline>>
    BY <1>2, Zenon DEF CallsInv, WorkerFrame
  <2>2. k \in event_lines => runs'[func_id[k]] = runs[func_id[k]]
    BY <1>2, <2>1, Zenon DEF SignalAt, Owned, WorkerFrame
  <2> QED
    BY <2>1, <2>2, Zenon DEF SignalAt, Owned
<1>3. ASSUME NEW v \in Workers, v # w PROVE WorkerAt(v)'
  <2>1. WorkerAt(v) /\ wpc'[v] = wpc[v] /\ wline'[v] = wline[v] /\ UNCHANGED <<cpc, cline>>
    BY <1>3, Zenon DEF CallsInv, WorkerFrame
  <2>2. CASE wline[v] = None
    BY <2>1, <2>2, Zenon DEF WorkerAt
  <2>3. CASE wline[v] # None
    <3>1. wline[v] \in Lines \ {l}
      BY <1>3, <2>3, Zenon DEF CallsInv, CallsTypeOK
    <3>2. runs'[func_id[wline[v]]] = runs[func_id[wline[v]]]
      BY <2>1, <2>3, <3>1, Zenon DEF WorkerAt, Owned, WorkerFrame
    <3> QED
      BY <2>1, <2>3, <3>1, <3>2 DEF WorkerAt, Owned, Answered, WorkerFrame
  <2> QED
    BY <2>2, <2>3, Zenon
<1>4. Alone'
  <2>1. /\ \A v \in Workers \ {w} : wline'[v] = wline[v] /\ (wline[v] = None \/ wline[v] # l)
        /\ UNCHANGED <<cline, free_lines>>
    BY Zenon DEF WorkerFrame
  <2>2. \A u, v \in Workers : wline'[u] # None /\ wline'[u] = wline'[v] => u = v
    BY <2>1, Zenon DEF CallsInv, Alone
  <2> QED
    BY <2>1, <2>2, Zenon DEF CallsInv, Alone
<1>5. \A k \in Lines : SignalAt(k)'
  BY <1>2, CallsAssumption, Zenon
<1>6. \A v \in Workers : WorkerAt(v)'
  BY <1>3, Zenon
<1>7. \A d \in Callers : CallerAt(d)'
  BY <1>1, Zenon
<1> QED
  BY <1>4, <1>5, <1>6, <1>7, Zenon DEF CallsInv

LEMMA NextBitOK ==
    ASSUME CallsTypeOK, NEW w \in Workers, NEW rest, NextBit(w, rest) \/ NextWord(w)
    PROVE  /\ wword' \in [Workers -> Words]
           /\ \E p \in {"idle", "scan", "bits"} : wpc' = [wpc EXCEPT ![w] = p]
<1>1. 1 \in Words /\ (wword[w] < NWords => wword[w] + 1 \in Words)
      /\ wword \in [Workers -> Words]
  BY CallsAssumption DEF Words, CallsTypeOK
<1>2. CASE NextWord(w)
  BY <1>1, <1>2, Zenon DEF NextWord, WGoto
<1>3. CASE rest # {} /\ NextBit(w, rest)
  BY <1>1, <1>3, Zenon DEF NextBit, WGoto
<1> QED
  BY <1>2, <1>3, Zenon DEF NextBit

\* A worker that has no line looks for one.
LEMMA SearchOK ==
    ASSUME CallsInv, NEW w \in Workers, wline[w] = None, wword' \in [Workers -> Words],
           wbits' \in [Workers -> SUBSET Bits],
           \E p \in {"idle", "scan", "bits"} : wpc' = [wpc EXCEPT ![w] = p],
           UNCHANGED <<free_lines, event_lines, status, func_id, ret_code, cpc, cword, cline,
                       tries, outcome, runs, wline, type, crashed>>
    PROVE  CallsInv'
<1>1. CallsTypeOK'
  BY DEF CallsInv, CallsTypeOK
<1>2. WorkerFrame(w, None) /\ WorkerAt(w)'
  BY DEF WorkerFrame, WorkerAt, CallsInv, CallsTypeOK
<1> QED
  BY <1>1, <1>2, WorkerMoves, Zenon

LEMMA ScanOK ==
    ASSUME CallsInv, NEW w \in Workers, BeginScan(w) \/ ScanWord(w)
    PROVE  CallsInv'
<1>1. wpc[w] \in {"idle", "scan"}
  BY Zenon DEF BeginScan, ScanWord
<1>2. wline[w] = None /\ CallsTypeOK
  BY <1>1, Zenon DEF CallsInv, WorkerAt
<1>3. UNCHANGED <<free_lines, event_lines, status, func_id, ret_code, cpc, cword, cline, tries,
                  outcome, runs, wline, type, crashed>>
  BY Zenon DEF BeginScan, ScanWord, taskVars, callerVars, crashVars
<1>4. CASE BeginScan(w)
  <2>1. UNCHANGED <<wword, wbits>> /\ wpc' = [wpc EXCEPT ![w] = "scan"]
    BY <1>4, Zenon DEF BeginScan, WGoto
  <2>2. wword' \in [Workers -> Words] /\ wbits' \in [Workers -> SUBSET Bits]
    BY <1>2, <2>1, Zenon DEF CallsTypeOK
  <2> QED
    BY <1>2, <1>3, <2>1, <2>2, SearchOK, Zenon
<1>5. CASE ScanWord(w)
  <2>1. PICK S \in SUBSET Bits : wbits' = [wbits EXCEPT ![w] = S]
    BY <1>5, Zenon DEF ScanWord
  <2>2. wbits' \in [Workers -> SUBSET Bits]
    BY <1>2, <2>1, Zenon DEF CallsTypeOK
  <2>3. NextWord(w) \/ (WGoto(w, "bits") /\ UNCHANGED wword)
    BY <1>5, Zenon DEF ScanWord
  <2>4. /\ wword' \in [Workers -> Words]
        /\ \E p \in {"idle", "scan", "bits"} : wpc' = [wpc EXCEPT ![w] = p]
    <3>1. CASE NextWord(w)
      BY <1>2, <3>1, NextBitOK, Zenon
    <3>2. CASE WGoto(w, "bits") /\ UNCHANGED wword
      BY <1>2, <3>2, Zenon DEF WGoto, CallsTypeOK
    <3> QED
      BY <2>3, <3>1, <3>2, Zenon
  <2> QED
    BY <1>2, <1>3, <2>2, <2>4, SearchOK, Zenon
<1> QED
  BY <1>4, <1>5, Zenon

LEMMA TestBitOK ==
    ASSUME CallsInv, NEW w \in Workers, TestBit(w)
    PROVE  CallsInv'
<1> PICK k : k = <<wword[w], Least(wbits[w])>>
  BY Zenon
<1> PICK rest : rest = wbits[w] \ {Least(wbits[w])}
  BY Zenon
<1>1. /\ wpc[w] = "bits" /\ wbits' = [wbits EXCEPT ![w] = rest]
      /\ UNCHANGED <<free_lines, status, func_id, ret_code, cpc, cword, cline, tries, outcome,
                     runs, type, crashed>>
  BY Zenon DEF TestBit, taskVars, callerVars, crashVars
<1>2. wline[w] = None /\ CallsTypeOK /\ WorkerAt(w)
  BY <1>1, Zenon DEF CallsInv, WorkerAt
<1>3. wbits' \in [Workers -> SUBSET Bits]
  BY <1>1, <1>2, Zenon DEF CallsTypeOK
<1>4. CASE k \notin event_lines
  <2>1. NextBit(w, rest) /\ UNCHANGED <<event_lines, wline>>
    BY <1>4, Zenon DEF TestBit
  <2>2. /\ wword' \in [Workers -> Words]
        /\ \E p \in {"idle", "scan", "bits"} : wpc' = [wpc EXCEPT ![w] = p]
    BY <1>2, <2>1, NextBitOK, Zenon
  <2> QED
    BY <1>1, <1>2, <1>3, <2>1, <2>2, SearchOK, Zenon
<1>5. CASE k \in event_lines
  <2>1. /\ event_lines' = event_lines \ {k} /\ wline' = [wline EXCEPT ![w] = k]
        /\ wpc' = [wpc EXCEPT ![w] = "accept"] /\ UNCHANGED wword
    BY <1>5, Zenon DEF TestBit, WGoto
  <2>2. k \in Lines /\ k # None
    BY <1>2, <1>5, CallsAssumption, Zenon DEF CallsTypeOK
  <2>3. CallsTypeOK'
    BY <1>1, <1>2, <1>3, <2>1, <2>2, Zenon DEF CallsTypeOK
  <2>4. /\ wline'[w] = k /\ wpc'[w] = "accept"
        /\ \A v \in Workers \ {w} : wline'[v] = wline[v] /\ wpc'[v] = wpc[v]
    BY <1>2, <2>1, Zenon DEF CallsTypeOK
  <2>5. /\ Owned(k) /\ cpc[func_id[k]] \in {"poll", "revoke", "out"}
        /\ status[k] = "SUBMITTED" /\ runs[func_id[k]] = 0
    BY <1>5, <2>2, Zenon DEF CallsInv, SignalAt
  <2>6. WorkerFrame(w, k)
    BY <1>1, <2>1, <2>4, Zenon DEF WorkerFrame
  <2>7. WorkerAt(w)'
    BY <1>1, <2>1, <2>2, <2>4, <2>5 DEF WorkerAt, Owned
  <2>8. SignalAt(k)' /\ \A v \in Workers \ {w} : wline[v] # k
    BY <1>5, <2>1, <2>2 DEF SignalAt, CallsInv, WorkerAt
  <2>9. ASSUME NEW d \in Callers, cline[d] = k PROVE CallerAt(d)'
    <3>1. CallerAt(d) /\ Taken(k)'
      BY <2>4, Zenon DEF CallsInv, Taken
    <3> QED
      BY <1>1, <2>5, <2>9, <3>1, Zenon DEF CallerAt, TaskIsSomewhere, Answered, Ended, SeesCrash
  <2> QED
    BY <1>2, <2>2, <2>3, <2>4, <2>6, <2>7, <2>8, <2>9, WorkerMoves, Zenon
<1> QED
  BY <1>4, <1>5, Zenon

\* Worker w has the task of caller c on line l, alone; the caller watches the task
\* or has returned because of the crash.
HasTask(w, l, c) ==
    /\ wline[w] = l /\ l # None /\ l \notin event_lines
    /\ func_id[l] = c /\ cline[c] = l /\ cpc[c] \in {"poll", "revoke", "wait", "out"}
    /\ \A v \in Workers \ {w} : wline[v] # l
    /\ \A d \in Callers : cline[d] = l => d = c
    /\ CallerAt(c) /\ WorkerAt(w)

LEMMA Working ==
    ASSUME CallsInv, NEW w \in Workers, wpc[w] \in {"accept", "run", "done"}
    PROVE  \E l \in Lines, c \in Callers : HasTask(w, l, c)
<1>1. WorkerAt(w) /\ wline[w] # None
  BY Zenon DEF CallsInv, WorkerAt
<1>2. wline[w] \in Lines
  BY <1>1, Zenon DEF CallsInv, CallsTypeOK
<1>3. /\ wline[w] \notin event_lines /\ Owned(wline[w])
      /\ cpc[func_id[wline[w]]] \in {"poll", "revoke", "wait", "out"}
  BY <1>1, Zenon DEF WorkerAt
<1>4. /\ \A v \in Workers \ {w} : wline[v] # wline[w]
      /\ \A d \in Callers : cline[d] = wline[w] => d = func_id[wline[w]]
      /\ CallerAt(func_id[wline[w]])
  BY <1>1, <1>3, Zenon DEF CallsInv, Alone, Owned
<1> QED
  BY <1>1, <1>2, <1>3, <1>4, Zenon DEF Owned, HasTask

LEMMA AcceptOK ==
    ASSUME CallsInv, NEW w \in Workers, Accept(w)
    PROVE  CallsInv'
<1> USE DEF HasTask
<1>0. wpc[w] = "accept"
  BY Zenon DEF Accept
<1>1. PICK l \in Lines, c \in Callers : HasTask(w, l, c)
  BY <1>0, Working, Zenon
<1>2. /\ status' = [status EXCEPT ![l] = "ACCEPTED"] /\ wpc' = [wpc EXCEPT ![w] = "run"]
      /\ UNCHANGED <<free_lines, event_lines, func_id, ret_code, cpc, cword, cline, tries,
                     outcome, runs, wword, wbits, wline, type, crashed>>
  BY <1>1, Zenon DEF Accept, WGoto, callerVars, crashVars
<1>3. CallsTypeOK'
  BY <1>2, Zenon DEF CallsInv, CallsTypeOK, Statuses
<1>4. /\ wpc'[w] = "run" /\ status'[l] = "ACCEPTED" /\ runs[c] = 0
      /\ \A v \in Workers \ {w} : wpc'[v] = wpc[v]
      /\ \A k \in Lines \ {l} : status'[k] = status[k]
  BY <1>0, <1>1, <1>2 DEF CallsInv, CallsTypeOK, WorkerAt
<1>5. WorkerFrame(w, l)
  BY <1>2, <1>4, Zenon DEF WorkerFrame
<1>6. WorkerAt(w)'
  BY <1>1, <1>2, <1>4, Zenon DEF WorkerAt, Owned
<1>7. SignalAt(l)'
  BY <1>1, <1>2, Zenon DEF SignalAt
<1>8. CallerAt(c)'
  BY <1>1, <1>2, <1>4, Zenon DEF CallerAt, TaskIsSomewhere, Ended, SeesCrash
<1> QED
  BY <1>1, <1>2, <1>3, <1>5, <1>6, <1>7, <1>8, WorkerMoves, Zenon

LEMMA SkipOK ==
    ASSUME CallsInv, NEW w \in Workers, Skip(w)
    PROVE  CallsInv'
<1> USE DEF HasTask
<1>0. wpc[w] = "accept" /\ CallsTypeOK
  BY Zenon DEF Skip, CallsInv
<1>1. PICK l \in Lines, c \in Callers : HasTask(w, l, c)
  BY <1>0, Working, Zenon
<1>2. /\ WorkerSeesCrash /\ wline' = [wline EXCEPT ![w] = None] /\ NextBit(w, wbits[w])
      /\ UNCHANGED <<free_lines, event_lines, status, func_id, ret_code, cpc, cword, cline,
                     tries, outcome, runs, wbits, type, crashed>>
  BY Zenon DEF Skip, taskVars, callerVars, crashVars
<1>3. PICK p \in {"idle", "scan", "bits"} : wpc' = [wpc EXCEPT ![w] = p]
  BY <1>0, <1>2, NextBitOK, Zenon
<1>4. wword' \in [Workers -> Words]
  BY <1>0, <1>2, NextBitOK, Zenon
<1>5. CallsTypeOK'
  BY <1>0, <1>2, <1>3, <1>4, Zenon DEF CallsTypeOK
<1>6. /\ wpc'[w] = p /\ wline'[w] = None
      /\ \A v \in Workers \ {w} : wpc'[v] = wpc[v] /\ wline'[v] = wline[v]
      /\ status[l] = "SUBMITTED"
  BY <1>0, <1>1, <1>2, <1>3, Zenon DEF CallsTypeOK, WorkerAt
<1>7. WorkerFrame(w, l) /\ WorkerAt(w)' /\ SignalAt(l)'
  BY <1>1, <1>2, <1>6, Zenon DEF WorkerFrame, WorkerAt, SignalAt
<1>8. CallerAt(c)'
  BY <1>1, <1>2, <1>6, Zenon DEF CallerAt, TaskIsSomewhere, Ended, SeesCrash, WorkerSeesCrash
<1> QED
  BY <1>1, <1>2, <1>5, <1>6, <1>7, <1>8, WorkerMoves, Zenon

LEMMA RunTaskOK ==
    ASSUME CallsInv, NEW w \in Workers, RunTask(w)
    PROVE  CallsInv'
<1> USE DEF HasTask
<1>0. wpc[w] = "run" /\ CallsTypeOK
  BY Zenon DEF RunTask, CallsInv
<1>1. PICK l \in Lines, c \in Callers : HasTask(w, l, c)
  BY <1>0, Working, Zenon
<1>2. /\ wpc' = [wpc EXCEPT ![w] = "done"]
      /\ UNCHANGED <<free_lines, event_lines, status, func_id, cpc, cword, cline, tries, outcome,
                     wword, wbits, wline, type, crashed>>
  BY Zenon DEF RunTask, WGoto, callerVars, crashVars
<1>3. status[l] = "ACCEPTED" /\ runs[c] = 0
  BY <1>0, <1>1, Zenon DEF WorkerAt
<1>4. /\ ret_code' = [ret_code EXCEPT ![l] = ResultOf(c)]
      /\ runs' = [runs EXCEPT ![c] = Expected(c)]
  <2>1. CASE c \in Unlisted
    BY <1>0, <1>1, <1>3, <2>1, Zenon DEF RunTask, ResultOf, Expected, CallsTypeOK
  <2>2. CASE c \notin Unlisted
    BY <1>0, <1>1, <1>3, <2>2 DEF RunTask, ResultOf, Expected, CallsTypeOK
  <2> QED
    BY <2>1, <2>2, Zenon
<1>5. CallsTypeOK'
  <2>1. ResultOf(c) \in Results /\ Expected(c) \in Nat
    BY Zenon DEF ResultOf, Results, Expected
  <2> QED
    BY <1>0, <1>2, <1>4, <2>1, Zenon DEF CallsTypeOK
<1>6. /\ wpc'[w] = "done" /\ \A v \in Workers \ {w} : wpc'[v] = wpc[v]
      /\ ret_code'[l] = ResultOf(c) /\ \A k \in Lines \ {l} : ret_code'[k] = ret_code[k]
      /\ runs'[c] = Expected(c) /\ \A d \in Callers \ {c} : runs'[d] = runs[d]
  BY <1>0, <1>2, <1>4, Zenon DEF CallsTypeOK
<1>7. WorkerFrame(w, l)
  BY <1>1, <1>2, <1>6, Zenon DEF WorkerFrame
<1>8. WorkerAt(w)' /\ SignalAt(l)'
  BY <1>1, <1>2, <1>3, <1>6, Zenon DEF WorkerAt, Owned, Answered, SignalAt, ResultOf, Expected
<1>9. CallerAt(c)'
  BY <1>1, <1>2, <1>3, Zenon DEF CallerAt, TaskIsSomewhere, SeesCrash
<1> QED
  BY <1>1, <1>2, <1>5, <1>7, <1>8, <1>9, WorkerMoves, Zenon

LEMMA DoneOK ==
    ASSUME CallsInv, NEW w \in Workers, Done(w)
    PROVE  CallsInv'
<1> USE DEF HasTask
<1>0. wpc[w] = "done" /\ CallsTypeOK
  BY Zenon DEF Done, CallsInv
<1>1. PICK l \in Lines, c \in Callers : HasTask(w, l, c)
  BY <1>0, Working, Zenon
<1>2. /\ status' = [status EXCEPT ![l] = "DONE"] /\ wline' = [wline EXCEPT ![w] = None]
      /\ NextBit(w, wbits[w])
      /\ UNCHANGED <<free_lines, event_lines, func_id, ret_code, cpc, cword, cline, tries,
                     outcome, runs, wbits, type, crashed>>
  BY <1>1, Zenon DEF Done, callerVars, crashVars
<1>3. PICK p \in {"idle", "scan", "bits"} : wpc' = [wpc EXCEPT ![w] = p]
  BY <1>0, <1>2, NextBitOK, Zenon
<1>4. wword' \in [Workers -> Words]
  BY <1>0, <1>2, NextBitOK, Zenon
<1>5. CallsTypeOK'
  BY <1>0, <1>2, <1>3, <1>4, Zenon DEF CallsTypeOK, Statuses
<1>6. /\ wpc'[w] = p /\ wline'[w] = None
      /\ \A v \in Workers \ {w} : wpc'[v] = wpc[v] /\ wline'[v] = wline[v]
      /\ status'[l] = "DONE" /\ \A k \in Lines \ {l} : status'[k] = status[k]
      /\ Answered(c)
  BY <1>0, <1>1, <1>2, <1>3, Zenon DEF CallsTypeOK, WorkerAt
<1>7. WorkerFrame(w, l) /\ WorkerAt(w)' /\ SignalAt(l)'
  BY <1>1, <1>2, <1>6, Zenon DEF WorkerFrame, WorkerAt, SignalAt
<1>8. CallerAt(c)'
  BY <1>1, <1>2, <1>6, Zenon DEF CallerAt, TaskIsSomewhere, Answered, Ended, SeesCrash
<1> QED
  BY <1>1, <1>5, <1>6, <1>7, <1>8, WorkerMoves, Zenon

LEMMA AbortOK ==
    ASSUME CallsInv, NEW w \in Workers, Abort(w)
    PROVE  CallsInv'
<1> USE DEF HasTask
<1>0. wpc[w] = "run" /\ CallsTypeOK
  BY Zenon DEF Abort, CallsInv
<1>1. PICK l \in Lines, c \in Callers : HasTask(w, l, c)
  BY <1>0, Working, Zenon
<1>2. /\ wpc' = [wpc EXCEPT ![w] = "idle"] /\ wline' = [wline EXCEPT ![w] = None]
      /\ wword' = [wword EXCEPT ![w] = 1] /\ wbits' = [wbits EXCEPT ![w] = {}]
      /\ UNCHANGED <<type, free_lines, event_lines, status, func_id, ret_code, cpc, cword, cline,
                     tries, outcome, runs>>
  BY Zenon DEF Abort, WGoto, taskVars, callerVars
<1>3. crashed'
  BY Zenon DEF Abort
<1>4. CallsTypeOK'
  <2>1. 1 \in Words
    BY CallsAssumption DEF Words
  <2>2. crashed' \in BOOLEAN
    BY Zenon DEF Abort
  <2> QED
    BY <1>0, <1>2, <2>1, <2>2, Zenon DEF CallsTypeOK
<1>5. /\ wpc'[w] = "idle" /\ wline'[w] = None /\ status[l] = "ACCEPTED"
      /\ \A v \in Workers \ {w} : wpc'[v] = wpc[v] /\ wline'[v] = wline[v]
  BY <1>0, <1>1, <1>2, Zenon DEF CallsTypeOK, WorkerAt
<1>6. WorkerFrame(w, l) /\ WorkerAt(w)' /\ SignalAt(l)'
  BY <1>1, <1>2, <1>3, <1>5, Zenon DEF WorkerFrame, WorkerAt, SignalAt
<1>7. CallerAt(c)'
  BY <1>1, <1>2, <1>3, <1>5, Zenon DEF CallerAt, TaskIsSomewhere, Ended, SeesCrash
<1> QED
  BY <1>1, <1>4, <1>5, <1>6, <1>7, WorkerMoves, Zenon

LEMMA CrashOK ==
    ASSUME CallsInv, Crash
    PROVE  CallsInv'
<1>1. UNCHANGED <<type, free_lines, event_lines, status, func_id, ret_code, cpc, cword, cline,
                  tries, outcome, runs, wpc, wword, wbits, wline>>
  BY Zenon DEF Crash, taskVars, callerVars, workerVars
<1>2. crashed'
  BY Zenon DEF Crash
<1>3. CallsTypeOK'
  <2>1. crashed' \in BOOLEAN
    BY Zenon DEF Crash
  <2> QED
    BY <1>1, <2>1, Zenon DEF CallsInv, CallsTypeOK
<1>4. ASSUME NEW c \in Callers PROVE CallerAt(c)'
  <2>1. CallerAt(c)
    BY Zenon DEF CallsInv
  <2> QED
    BY <1>1, <1>2, <2>1, Zenon DEF CallerAt, TaskIsSomewhere, Answered, Ended, Taken, SeesCrash,
                            WorkerSeesCrash
<1>5. ASSUME NEW l \in Lines PROVE SignalAt(l)'
  BY <1>1, Zenon DEF CallsInv, SignalAt, Owned
<1>6. ASSUME NEW w \in Workers PROVE WorkerAt(w)'
  BY <1>1, Zenon DEF CallsInv, WorkerAt, Owned, Answered
<1>7. Alone'
  BY <1>1, Zenon DEF CallsInv, Alone
<1> QED
  BY <1>3, <1>4, <1>5, <1>6, <1>7, Zenon DEF CallsInv

LEMMA CallsStutter == CallsInv /\ UNCHANGED callVars => CallsInv'
<1> SUFFICES ASSUME CallsInv, UNCHANGED callVars PROVE CallsInv'
  BY Zenon
<1>1. UNCHANGED <<type, free_lines, event_lines, status, func_id, ret_code, cpc, cword, cline,
                  tries, outcome, runs, wpc, wword, wbits, wline, crashed>>
  BY Zenon DEF callVars, taskVars, callerVars, workerVars, crashVars
<1>2. CallsTypeOK' /\ Alone'
  BY <1>1, Zenon DEF CallsInv, CallsTypeOK, Alone
<1>3. ASSUME NEW c \in Callers PROVE CallerAt(c)'
  <2>1. CallerAt(c)
    BY Zenon DEF CallsInv
  <2> QED
    BY <1>1, <2>1, Zenon DEF CallerAt, TaskIsSomewhere, Answered, Ended, Taken, SeesCrash,
                      WorkerSeesCrash
<1>4. \A l \in Lines : SignalAt(l)'
  BY <1>1, Zenon DEF CallsInv, SignalAt, Owned
<1>5. \A w \in Workers : WorkerAt(w)'
  BY <1>1 DEF CallsInv, WorkerAt, Owned, Answered
<1> QED
  BY <1>2, <1>3, <1>4, <1>5, Zenon DEF CallsInv

LEMMA CallsStep == CallsInv /\ [CallsNext]_callVars => CallsInv'
<1> SUFFICES ASSUME CallsInv, [CallsNext]_callVars PROVE CallsInv'
  BY Zenon
<1>1. ASSUME NEW c \in Callers, BeginCall(c) \/ CallerStep(c) PROVE CallsInv'
  BY <1>1, BeginCallOK, AllocLineOK, AllocNextOK, SubmitOK, TriggerOK, PollOK, RevokeOK,
     WaitDoneOK, CollectOK, ClearTaskOK, FreeLineOK, Zenon DEF CallerStep
<1>2. ASSUME NEW w \in Workers, WorkerStep(w) \/ Abort(w) PROVE CallsInv'
  BY <1>2, ScanOK, TestBitOK, AcceptOK, SkipOK, RunTaskOK, DoneOK, AbortOK, Zenon
     DEF WorkerStep, TaskStep
<1> QED
  BY <1>1, <1>2, CrashOK, CallsStutter, Zenon DEF CallsNext

LEMMA CallsAlways == CallsSpec => []CallsInv
BY CallsInitOK, CallsStep, PTL DEF CallsSpec

\* A signal line has at most one caller and one worker at a time, and no line is
\* reused while either still has it: for any bitmaps, callers and workers.
THEOREM LinesNeverShared == CallsSpec => []LinesExclusive
BY CallsAlways, InvExclusive, PTL

\* Whoever clears a bit finds a submitted task (the BUG_ON of process_switchless_call
\* never fires), and a caller that waits for DONE has its task with a worker, unless
\* the enclave that the workers run in has crashed.
THEOREM TasksNeverLost == CallsSpec => []TasksAccounted
BY CallsAlways, InvAccounted, PTL

\* A call that falls back was and will be run by no worker; one that returns a
\* worker's result was run exactly once and returns its own result.
THEOREM CallsRunOnce == CallsSpec => []ExactlyOnce
BY CallsAlways, InvOnce, PTL
=============================================================================
