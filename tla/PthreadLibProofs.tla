-------------------------- MODULE PthreadLibProofs --------------------------
(***************************************************************************)
(* Proofs about PthreadLib, for any finite number of creators, native      *)
(* threads and descriptors, and any behaviour of the events: a wake-up may *)
(* come early, late or never.                                              *)
(***************************************************************************)
EXTENDS PthreadLib, FiniteSetTheorems, TLAPS

\* Inside pthread_create, and inside the run of a created thread.
CreateSteps == {"ocall", "pop", "mark", "notify", "suspend", "poll"}
RunSteps == {"begin", "wake", "routine", "run"}

Steps == {"idle", "join", "free", "start", "leave"} \cup CreateSteps \cup RunSteps

PthreadTypeOK ==
    /\ g_work_queue \in Seq(Descriptors)
    /\ state \in [Descriptors -> {"NONE", "PREPARING", "EXECUTION", "WAKEDUP"} \cup Errors]
    /\ life \in [Descriptors -> {"unused", "live", "freed"}]
    /\ pc \in [Threads -> Steps]
    /\ at \in [Threads -> Descriptors \cup {None}]
    /\ other \in [Threads -> Descriptors \cup {None}]
    /\ error \in [Threads -> Errors \cup {None}]
    /\ starts \in [Descriptors -> {0, 1}]
    /\ result \in [Descriptors -> {"none", "ok", "error", "unknown"}]

-----------------------------------------------------------------------------
(* The queue.                                                              *)

Queued(d) == \E i \in 1..Len(g_work_queue) : g_work_queue[i] = d

Once == \A i, j \in 1..Len(g_work_queue) : g_work_queue[i] = g_work_queue[j] => i = j

\* What taking the first descriptor does.
LEMMA FirstTaken ==
    ASSUME g_work_queue \in Seq(Descriptors), g_work_queue # <<>>, Once,
           g_work_queue' = TakeFirst
    PROVE  /\ g_work_queue' \in Seq(Descriptors)
           /\ Len(g_work_queue') = Len(g_work_queue) - 1
           /\ Head(g_work_queue) \in Descriptors
           /\ Queued(Head(g_work_queue))
           /\ \A d : Queued(d)' <=> Queued(d) /\ d # Head(g_work_queue)
           /\ Once'
<1> DEFINE s == g_work_queue
<1>1. g_work_queue' = Tail(s)
  BY Zenon DEF TakeFirst
<1>2. Len(s) \in Nat \ {0} /\ s[1] = Head(s) /\ s[1] \in Descriptors
  OBVIOUS
<1>3. Tail(s) \in Seq(Descriptors) /\ Len(Tail(s)) = Len(s) - 1
  OBVIOUS
<1>4. \A i \in 1..Len(s) - 1 : Tail(s)[i] = s[i + 1]
  OBVIOUS
<1>5. ASSUME NEW d PROVE Queued(d)' <=> Queued(d) /\ d # Head(s)
  <2>1. ASSUME Queued(d)' PROVE Queued(d) /\ d # Head(s)
    <3>1. PICK i \in 1..Len(s) - 1 : Tail(s)[i] = d
      BY <1>1, <1>3, <2>1, Zenon DEF Queued
    <3>2. i + 1 \in 1..Len(s) /\ s[i + 1] = d /\ i + 1 # 1 /\ 1 \in 1..Len(s)
      BY <1>2, <1>4, <3>1
    <3> QED
      BY <1>2, <3>2, Zenon DEF Queued, Once
  <2>2. ASSUME Queued(d), d # Head(s) PROVE Queued(d)'
    <3>1. PICK i \in 1..Len(s) : s[i] = d
      BY <2>2, Zenon DEF Queued
    <3>2. i - 1 \in 1..Len(s) - 1 /\ Tail(s)[i - 1] = d
      BY <1>2, <1>4, <2>2, <3>1
    <3> QED
      BY <1>1, <1>3, <3>2, Zenon DEF Queued
  <2> QED
    BY <2>1, <2>2, Zenon
<1>6. Once'
  <2> SUFFICES ASSUME NEW i \in 1..Len(s) - 1, NEW j \in 1..Len(s) - 1,
                      Tail(s)[i] = Tail(s)[j]
               PROVE  i = j
    BY <1>1, <1>3, Zenon DEF Once
  <2>1. s[i + 1] = s[j + 1] /\ i + 1 \in 1..Len(s) /\ j + 1 \in 1..Len(s)
    BY <1>2, <1>4
  <2>2. i + 1 = j + 1
    BY <2>1, Zenon DEF Once
  <2> QED
    BY <2>2
<1> QED
  BY <1>1, <1>2, <1>3, <1>5, <1>6 DEF Queued

\* What queueing a descriptor that is not there does.
LEMMA LastQueued ==
    ASSUME g_work_queue \in Seq(Descriptors), NEW d \in Descriptors, ~ Queued(d), Once,
           g_work_queue' = Append(g_work_queue, d)
    PROVE  /\ g_work_queue' \in Seq(Descriptors)
           /\ Len(g_work_queue') = Len(g_work_queue) + 1
           /\ \A e : Queued(e)' <=> Queued(e) \/ e = d
           /\ Once'
<1> DEFINE s == g_work_queue
<1>1. /\ Append(s, d) \in Seq(Descriptors) /\ Len(Append(s, d)) = Len(s) + 1
      /\ Append(s, d)[Len(s) + 1] = d
      /\ \A i \in 1..Len(s) : Append(s, d)[i] = s[i]
      /\ Len(s) \in Nat
  OBVIOUS
<1>2. ASSUME NEW e PROVE Queued(e)' <=> Queued(e) \/ e = d
  <2>1. ASSUME Queued(e)' PROVE Queued(e) \/ e = d
    <3>1. PICK i \in 1..Len(s) + 1 : Append(s, d)[i] = e
      BY <1>1, <2>1, Zenon DEF Queued
    <3>2. i = Len(s) + 1 \/ i \in 1..Len(s)
      BY <1>1
    <3> QED
      BY <1>1, <3>1, <3>2, Zenon DEF Queued
  <2>2. ASSUME Queued(e) PROVE Queued(e)'
    <3>1. PICK i \in 1..Len(s) : s[i] = e
      BY <2>2, Zenon DEF Queued
    <3>2. i \in 1..Len(s) + 1 /\ Append(s, d)[i] = e
      BY <1>1, <3>1
    <3> QED
      BY <1>1, <3>2, Zenon DEF Queued
  <2>3. Queued(d)'
    <3>1. Len(s) + 1 \in 1..Len(s) + 1
      BY <1>1
    <3> QED
      BY <1>1, <3>1, Zenon DEF Queued
  <2> QED
    BY <2>1, <2>2, <2>3, Zenon
<1>3. Once'
  <2> SUFFICES ASSUME NEW i \in 1..Len(s) + 1, NEW j \in 1..Len(s) + 1,
                      Append(s, d)[i] = Append(s, d)[j]
               PROVE  i = j
    BY <1>1, Zenon DEF Once
  <2>1. CASE i \in 1..Len(s) /\ j \in 1..Len(s)
    BY <1>1, <2>1, Zenon DEF Once
  <2>2. CASE i = Len(s) + 1 /\ j \in 1..Len(s)
    BY <1>1, <2>2, Zenon DEF Queued
  <2>3. CASE j = Len(s) + 1 /\ i \in 1..Len(s)
    BY <1>1, <2>3, Zenon DEF Queued
  <2> QED
    BY <1>1, <2>1, <2>2, <2>3
<1> QED
  BY <1>1, <1>2, <1>3, Zenon

-----------------------------------------------------------------------------
(* Who is busy with which descriptor.                                      *)

Held(d) == \E r \in Runners : at[r] = d

Marked(d) == \E c \in Creators : pc[c] = "mark" /\ other[c] = d

\* A creator is busy with one descriptor, whose pthread_create has not returned,
\* and no other creator is creating it.
CreatorsBusy ==
    /\ \A c \in Creators :
          /\ pc[c] \in {"idle", "join"} \cup CreateSteps
          /\ pc[c] # "idle" => at[c] \in Descriptors /\ life[at[c]] # "unused"
          /\ pc[c] \in CreateSteps => result[at[c]] = "none"
          /\ pc[c] \in {"pop", "mark"} => error[c] \in Errors
          /\ pc[c] \in {"mark", "notify"} => other[c] \in Descriptors
    /\ \A c, e \in Creators :
          /\ pc[c] \in CreateSteps /\ pc[e] \in CreateSteps /\ at[c] = at[e] => c = e
          /\ pc[c] = "mark" /\ pc[e] = "mark" /\ other[c] = other[e] => c = e

\* A native thread that has taken a descriptor has it alone.
RunnersBusy ==
    /\ \A r \in Runners :
          /\ pc[r] \in {"free", "start", "leave"} \cup RunSteps
          /\ pc[r] \in RunSteps <=> at[r] # None
          /\ pc[r] \in RunSteps => at[r] \in Descriptors /\ life[at[r]] # "unused"
          /\ pc[r] = "begin" => state[at[r]] = "PREPARING" /\ result[at[r]] = "none"
          /\ pc[r] \in {"wake", "routine", "run"} => state[at[r]] = "EXECUTION"
          /\ pc[r] \in RunSteps => starts[at[r]] = IF pc[r] = "run" THEN 1 ELSE 0
    /\ \A q, r \in Runners : at[q] = at[r] /\ at[q] # None => q = r

\* The state of a descriptor says where it is.
PlaceOf(d) ==
    /\ Queued(d) \/ Marked(d) =>
          /\ life[d] # "unused" /\ state[d] = "PREPARING" /\ ~ Held(d)
          /\ starts[d] = 0 /\ result[d] = "none"
    /\ ~ (Queued(d) /\ Marked(d))
    /\ state[d] = "EXECUTION" => Held(d)
    /\ state[d] = "WAKEDUP" => starts[d] = 1 /\ ~ Held(d)
    /\ state[d] \in Errors => starts[d] = 0 /\ ~ Held(d)
    /\ result[d] = "ok" => state[d] \in {"EXECUTION", "WAKEDUP"}
    /\ result[d] = "error" => starts[d] = 0 /\ ~ Held(d)
    /\ life[d] = "unused" =>
          state[d] = "NONE" /\ starts[d] = 0 /\ result[d] = "none" /\ ~ Held(d)

Places == Once /\ \A d \in Descriptors : PlaceOf(d)

\* The inductive invariant behind CreateTellsTruth.
TruthInv == PthreadTypeOK /\ CreatorsBusy /\ RunnersBusy /\ Places

\* A thread that has started is running or has ended; a descriptor that was freed is
\* that of a thread that has ended or of a pthread_create that has failed.
EndInv ==
    \A d \in Descriptors :
        /\ starts[d] = 1 => state[d] \in {"EXECUTION", "WAKEDUP"}
        /\ life[d] = "freed" => state[d] = "WAKEDUP" \/ result[d] = "error"

LEMMA TruthInit == PthreadInit => TruthInv
<1> SUFFICES ASSUME PthreadInit PROVE TruthInv
  BY Zenon
<1>1. Creators \subseteq Threads /\ Runners \subseteq Threads /\ None \notin Descriptors
      /\ Creators \cap Runners = {}
  BY PthreadAssumption, Zenon
<1>2. PthreadTypeOK
  <2>1. g_work_queue \in Seq(Descriptors)
    BY DEF PthreadInit
  <2>2. pc \in [Threads -> Steps]
    BY Zenon DEF PthreadInit, Steps
  <2> QED
    BY <2>1, <2>2, Zenon DEF PthreadInit, PthreadTypeOK
<1>3. CreatorsBusy
  BY <1>1, Zenon DEF PthreadInit, CreatorsBusy, CreateSteps
<1>4. RunnersBusy
  BY <1>1, Zenon DEF PthreadInit, RunnersBusy, RunSteps
<1>5. Places
  <2>1. Once /\ \A d \in Descriptors : ~ Queued(d)
    BY DEF PthreadInit, Once, Queued
  <2>2. \A d \in Descriptors : ~ Held(d) /\ ~ Marked(d)
    BY <1>1, Zenon DEF PthreadInit, Held, Marked
  <2> QED
    BY <2>1, <2>2, Zenon DEF PthreadInit, Places, PlaceOf, Errors
<1> QED
  BY <1>2, <1>3, <1>4, <1>5, Zenon DEF TruthInv

LEMMA TruthTells == TruthInv => CreateTellsTruth
<1> SUFFICES ASSUME TruthInv, NEW d \in Descriptors
             PROVE  LET held == \E r \in Runners : at[r] = d
                        queued == \E i \in DOMAIN g_work_queue : g_work_queue[i] = d
                    IN /\ starts[d] <= 1
                       /\ result[d] = "ok" => starts[d] = 1 \/ held
                       /\ result[d] = "error" => starts[d] = 0 /\ ~held /\ ~queued
  BY Zenon DEF CreateTellsTruth
<1>1. DOMAIN g_work_queue = 1..Len(g_work_queue)
  BY DEF TruthInv, PthreadTypeOK
<1>2. state[d] \in {"NONE", "PREPARING", "EXECUTION", "WAKEDUP"} \cup Errors
      /\ starts[d] \in {0, 1}
  BY Zenon DEF TruthInv, PthreadTypeOK
<1> QED
  BY <1>1, <1>2 DEF TruthInv, Places, PlaceOf, RunnersBusy, Queued, Held

-----------------------------------------------------------------------------
(* The steps of a creator.                                                 *)

\* Facts on the constants that every step uses.
LEMMA Sets == /\ Creators \subseteq Threads /\ Runners \subseteq Threads
              /\ Creators \cap Runners = {}
              /\ None \notin Descriptors
              /\ CreateFails \subseteq Errors /\ None \notin Threads
BY PthreadAssumption, Zenon DEF Errors

LEMMA CreateTruth ==
    ASSUME TruthInv, NEW c \in Creators, Create(c)
    PROVE  TruthInv'
<1> USE DEF TruthInv
<1>1. PICK d \in Descriptors :
        /\ life[d] = "unused"
        /\ life' = [life EXCEPT ![d] = "live"]
        /\ state' = [state EXCEPT ![d] = "PREPARING"]
        /\ g_work_queue' = Append(g_work_queue, d)
        /\ at' = [at EXCEPT ![c] = d]
  BY Zenon DEF Create
<1>2. /\ pc[c] = "idle" /\ pc' = [pc EXCEPT ![c] = "ocall"]
      /\ UNCHANGED <<other, error, starts, result>>
  BY Zenon DEF Create, Goto, history
<1>3. ~ Queued(d) /\ ~ Marked(d) /\ ~ Held(d) /\ starts[d] = 0 /\ result[d] = "none"
  BY <1>1, Zenon DEF Places, PlaceOf
<1>4. /\ g_work_queue' \in Seq(Descriptors) /\ Once'
      /\ \A e : Queued(e)' <=> Queued(e) \/ e = d
  BY <1>1, <1>3, LastQueued, Zenon DEF PthreadTypeOK, Places, PlaceOf
<1>5. PthreadTypeOK'
  BY <1>1, <1>2, <1>4, Sets, Zenon DEF PthreadTypeOK, Steps, CreateSteps
<1>6. CreatorsBusy'
  <2>1. \A e \in Creators \ {c} :
           pc'[e] = pc[e] /\ at'[e] = at[e] /\ (pc[e] # "idle" => at[e] # d)
    BY <1>1, <1>2, Sets, Zenon DEF PthreadTypeOK, CreatorsBusy
  <2>2. pc'[c] = "ocall" /\ at'[c] = d /\ life'[d] = "live" /\ result'[d] = "none"
    BY <1>1, <1>2, <1>3, Sets, Zenon DEF PthreadTypeOK
  <2>3. \A e \in Creators \ {c} : pc[e] # "idle" => life'[at[e]] = life[at[e]]
    BY <1>1, <2>1, Zenon DEF PthreadTypeOK, CreatorsBusy
  <2> QED
    BY <1>2, <2>1, <2>2, <2>3 DEF CreatorsBusy, CreateSteps
<1>7. RunnersBusy'
  <2>1. \A r \in Runners : pc'[r] = pc[r] /\ at'[r] = at[r] /\ at[r] # d
    BY <1>1, <1>2, <1>3, Sets, Zenon DEF PthreadTypeOK, Held
  <2> QED
    BY <1>1, <1>2, <2>1 DEF PthreadTypeOK, RunnersBusy
<1>8. \A e \in Descriptors : (Held(e)' <=> Held(e)) /\ (Marked(e)' <=> Marked(e))
  BY <1>1, <1>2, Sets, Zenon DEF PthreadTypeOK, Held, Marked
<1>9. Places'
  <2>1. Once'
    BY <1>1, <1>2, <1>3, <1>4, <1>8, Zenon DEF Places, Once
  <2>2. ASSUME NEW x \in Descriptors PROVE PlaceOf(x)'
    <3>1. PlaceOf(x)
      BY Zenon DEF Places
    <3> QED
      BY <1>1, <1>2, <1>3, <1>4, <1>8, <3>1, Zenon DEF PlaceOf, PthreadTypeOK, Errors
  <2> QED
    BY <2>1, <2>2, Zenon DEF Places
<1> QED
  BY <1>5, <1>6, <1>7, <1>9, Zenon

\* A creator goes on to another step of pthread_create and touches no descriptor.
LEMMA CreatorMoves ==
    ASSUME TruthInv, NEW c \in Creators, NEW step \in CreateSteps \ {"mark", "notify"},
           pc[c] \in CreateSteps \ {"mark"}, Goto(c, step),
           UNCHANGED <<g_work_queue, state, life, at, starts, result>>,
           other' \in [Threads -> Descriptors \cup {None}],
           \A e \in Creators \ {c} : other'[e] = other[e],
           error' \in [Threads -> Errors \cup {None}],
           \A e \in Creators \ {c} : error'[e] = error[e],
           step = "pop" => error'[c] \in Errors
    PROVE  TruthInv'
<1> USE DEF TruthInv
<1>1. pc' = [pc EXCEPT ![c] = step] /\ pc[c] # "mark" /\ c \in Threads
  BY Sets, Zenon DEF Goto
<1>2. /\ pc'[c] = step /\ \A t \in Threads \ {c} : pc'[t] = pc[t]
      /\ \A r \in Runners : pc'[r] = pc[r]
  BY <1>1, Sets, Zenon DEF PthreadTypeOK
<1>3. PthreadTypeOK'
  BY <1>1, Zenon DEF PthreadTypeOK, Steps
<1>4. CreatorsBusy'
  BY <1>2, Sets DEF CreatorsBusy, CreateSteps
<1>5. RunnersBusy'
  BY <1>2 DEF RunnersBusy
<1>6. \A e \in Descriptors : /\ Held(e)' <=> Held(e)
                             /\ Marked(e)' <=> Marked(e)
                             /\ Queued(e)' <=> Queued(e)
  BY <1>1, <1>2, Sets, Zenon DEF Held, Marked, Queued
<1>7. Places'
  <2>1. Once'
    BY <1>6, Zenon DEF Places, Once
  <2>2. ASSUME NEW x \in Descriptors PROVE PlaceOf(x)'
    <3>1. PlaceOf(x)
      BY Zenon DEF Places
    <3> QED
      BY <1>6, <3>1, Zenon DEF PlaceOf
  <2> QED
    BY <2>1, <2>2, Zenon DEF Places
<1> QED
  BY <1>3, <1>4, <1>5, <1>7, Zenon

LEMMA CreateOcallTruth ==
    ASSUME TruthInv, NEW c \in Creators, CreateOcall(c)
    PROVE  TruthInv'
<1> USE DEF TruthInv
<1>1. PICK r \in Runners : pc[r] = "free" /\ pc' = [pc EXCEPT ![c] = "suspend", ![r] = "start"]
  BY Zenon DEF CreateOcall
<1>2. /\ pc[c] = "ocall"
      /\ UNCHANGED <<g_work_queue, state, life, at, other, error, starts, result>>
  BY Zenon DEF CreateOcall, descVars, history
<1>3. /\ pc'[c] = "suspend" /\ pc'[r] = "start" /\ c # r
      /\ \A t \in Threads \ {c, r} : pc'[t] = pc[t]
  BY <1>1, Sets, Zenon DEF PthreadTypeOK
<1>4. PthreadTypeOK'
  BY <1>1, <1>2, Zenon DEF PthreadTypeOK, Steps, CreateSteps
<1>5. CreatorsBusy'
  BY <1>2, <1>3, Sets DEF CreatorsBusy, CreateSteps
<1>6. RunnersBusy'
  <2>1. \A q \in Runners \ {r} : pc'[q] = pc[q]
    BY <1>3, Sets, Zenon
  <2>2. /\ pc[r] \notin RunSteps /\ at[r] = None
        /\ pc'[r] \notin RunSteps /\ pc'[r] \notin {"begin", "wake", "routine", "run"}
    BY <1>1, <1>3 DEF RunSteps, RunnersBusy
  <2> QED
    BY <1>2, <1>3, <2>1, <2>2 DEF RunnersBusy
<1>7. \A e \in Descriptors : /\ Held(e)' <=> Held(e)
                             /\ Marked(e)' <=> Marked(e)
                             /\ Queued(e)' <=> Queued(e)
  BY <1>2, <1>3, Sets, Zenon DEF Held, Marked, Queued
<1>8. Places'
  <2>1. Once'
    BY <1>2, <1>7, Zenon DEF Places, Once
  <2>2. ASSUME NEW x \in Descriptors PROVE PlaceOf(x)'
    <3>1. PlaceOf(x)
      BY Zenon DEF Places
    <3> QED
      BY <1>2, <1>7, <3>1, Zenon DEF PlaceOf
  <2> QED
    BY <2>1, <2>2, Zenon DEF Places
<1> QED
  BY <1>4, <1>5, <1>6, <1>8, Zenon

\* pthread_create or pthread_join returns: the creator is idle, and its descriptor
\* has a result r and a life l that fit its place.
LEMMA CreatorReturns ==
    ASSUME TruthInv, NEW c \in Creators, NEW d \in Descriptors,
           pc[c] \in (CreateSteps \ {"mark"}) \cup {"join"}, d = at[c],
           Goto(c, "idle"), at' = [at EXCEPT ![c] = None],
           NEW l \in {"live", "freed"}, life' = [life EXCEPT ![d] = l],
           NEW r \in {"none", "ok", "error", "unknown"}, result' = [result EXCEPT ![d] = r],
           pc[c] = "join" => r = result[d],
           g_work_queue' \in Seq(Descriptors), Once',
           \A e \in Descriptors : Queued(e)' => Queued(e) /\ (pc[c] # "join" => e # d),
           ~ Marked(d),
           pc[c] # "join" =>
              \/ r \in {"ok", "unknown"} /\ state[d] \in {"EXECUTION", "WAKEDUP"}
              \/ r = "error" /\ starts[d] = 0 /\ ~ Held(d),
           UNCHANGED <<state, other, starts>>,
           error' \in [Threads -> Errors \cup {None}],
           \A e \in Creators \ {c} : error'[e] = error[e]
    PROVE  TruthInv'
<1> USE DEF TruthInv
<1>1. /\ pc'[c] = "idle" /\ \A t \in Threads \ {c} : pc'[t] = pc[t] /\ at'[t] = at[t]
      /\ c \in Threads /\ life'[d] = l /\ result'[d] = r
      /\ \A e \in Descriptors \ {d} : life'[e] = life[e] /\ result'[e] = result[e]
  BY Sets, Zenon DEF PthreadTypeOK, Goto
<1>2. PthreadTypeOK'
  BY Sets, Zenon DEF PthreadTypeOK, Steps, Goto
<1>3. \A e \in Creators \ {c} : pc[e] \in CreateSteps =>
          IF at[e] = d THEN result'[d] = "none" ELSE result'[at[e]] = result[at[e]]
  BY <1>1 DEF CreatorsBusy, CreateSteps
<1>4. CreatorsBusy'
  BY <1>1, <1>3, Sets DEF CreatorsBusy, CreateSteps
<1>5. \A t \in Runners : pc'[t] = pc[t] /\ at'[t] = at[t]
  BY <1>1, Sets, Zenon
<1>6. \A e \in Descriptors : /\ Held(e)' <=> Held(e)
                             /\ Marked(e)' <=> Marked(e)
  BY <1>1, <1>5, Sets, Zenon DEF Held, Marked
<1>7. RunnersBusy'
  <2>1. ASSUME NEW t \in Runners, pc[t] = "begin" PROVE result'[at[t]] = "none"
    <3>1. CASE at[t] = d /\ pc[c] # "join"
      BY <2>1, <3>1, Zenon DEF RunnersBusy, Held
    <3>2. CASE at[t] = d /\ pc[c] = "join"
      BY <1>1, <2>1, <3>2, Zenon DEF RunnersBusy
    <3>3. CASE at[t] # d
      BY <1>1, <2>1, <3>3 DEF RunnersBusy, RunSteps
    <3> QED
      BY <3>1, <3>2, <3>3, Zenon
  <2>2. \A t \in Runners : pc[t] \in RunSteps => life'[at[t]] # "unused"
    BY <1>1, Zenon DEF RunnersBusy
  <2> QED
    BY <1>5, <2>1, <2>2 DEF RunnersBusy
<1>8. Places'
  <2> SUFFICES ASSUME NEW e \in Descriptors
               PROVE  /\ Queued(e)' \/ Marked(e)' =>
                            /\ life'[e] # "unused" /\ state[e] = "PREPARING" /\ ~ Held(e)
                            /\ starts[e] = 0 /\ result'[e] = "none"
                      /\ ~ (Queued(e)' /\ Marked(e)')
                      /\ state[e] = "EXECUTION" => Held(e)
                      /\ state[e] = "WAKEDUP" => starts[e] = 1 /\ ~ Held(e)
                      /\ state[e] \in Errors => starts[e] = 0 /\ ~ Held(e)
                      /\ result'[e] = "ok" => state[e] \in {"EXECUTION", "WAKEDUP"}
                      /\ result'[e] = "error" => starts[e] = 0 /\ ~ Held(e)
                      /\ life'[e] = "unused" =>
                            /\ state[e] = "NONE" /\ starts[e] = 0
                            /\ result'[e] = "none" /\ ~ Held(e)
    BY <1>6, Zenon DEF Places, PlaceOf
  <2>1. CASE e # d
    BY <1>1, <1>6, <2>1 DEF Places, PlaceOf
  <2>2. CASE e = d
    BY <1>1, <1>6, <2>2 DEF Places, PlaceOf
  <2> QED
    BY <2>1, <2>2, Zenon
<1> QED
  BY <1>2, <1>4, <1>7, <1>8, Zenon

LEMMA CreateOcallFailsTruth ==
    ASSUME TruthInv, NEW c \in Creators, CreateOcallFails(c)
    PROVE  TruthInv'
<1>1. PICK e \in CreateFails : error' = [error EXCEPT ![c] = e]
  BY Zenon DEF CreateOcallFails
<1>2. /\ pc[c] = "ocall" /\ Goto(c, "pop") /\ other' = other
      /\ UNCHANGED <<g_work_queue, state, life, at, starts, result>>
  BY Zenon DEF CreateOcallFails, descVars, history
<1>3. /\ error' \in [Threads -> Errors \cup {None}] /\ error'[c] \in Errors
      /\ \A x \in Creators \ {c} : error'[x] = error[x]
  BY <1>1, Sets, Zenon DEF TruthInv, PthreadTypeOK
<1>4. other' \in [Threads -> Descriptors \cup {None}]
  BY <1>2, Zenon DEF TruthInv, PthreadTypeOK
<1> QED
  BY <1>2, <1>3, <1>4, CreatorMoves, Zenon DEF CreateSteps

LEMMA SuspendTruth ==
    ASSUME TruthInv, NEW c \in Creators, Suspend(c) \/ PollPreparing(c)
    PROVE  TruthInv'
<1>1. PICK step \in {"poll", "suspend"} : Goto(c, step) /\ pc[c] \in {"poll", "suspend"}
  BY Zenon DEF Suspend, PollPreparing
<1>2. UNCHANGED <<g_work_queue, state, life, at, other, error, starts, result>>
  BY Zenon DEF Suspend, PollPreparing, descVars, history
<1>3. /\ error' \in [Threads -> Errors \cup {None}]
      /\ other' \in [Threads -> Descriptors \cup {None}]
  BY <1>2, Zenon DEF TruthInv, PthreadTypeOK
<1> QED
  BY <1>1, <1>2, <1>3, CreatorMoves, Zenon DEF CreateSteps

LEMMA NotifyTruth ==
    ASSUME TruthInv, NEW c \in Creators, NotifyOther(c)
    PROVE  TruthInv'
<1>1. /\ pc[c] = "notify" /\ Goto(c, "suspend") /\ other' = [other EXCEPT ![c] = None]
      /\ UNCHANGED <<g_work_queue, state, life, at, error, starts, result>>
  BY Zenon DEF NotifyOther, descVars
<1>2. /\ error' \in [Threads -> Errors \cup {None}]
      /\ other' \in [Threads -> Descriptors \cup {None}]
      /\ \A e \in Creators \ {c} : other'[e] = other[e]
  BY <1>1, Sets, Zenon DEF TruthInv, PthreadTypeOK
<1> QED
  BY <1>1, <1>2, CreatorMoves, Zenon DEF CreateSteps

LEMMA PopOwnTruth ==
    ASSUME TruthInv, NEW c \in Creators, PopOwn(c)
    PROVE  TruthInv'
<1> DEFINE d == at[c]
<1>1. /\ pc[c] = "pop" /\ g_work_queue # <<>> /\ Head(g_work_queue) = d
      /\ g_work_queue' = TakeFirst
      /\ life' = [life EXCEPT ![d] = "freed"] /\ result' = [result EXCEPT ![d] = "error"]
      /\ at' = [at EXCEPT ![c] = None] /\ error' = [error EXCEPT ![c] = None]
      /\ Goto(c, "idle") /\ UNCHANGED <<state, other, starts>>
  BY Zenon DEF PopOwn, CreateError, CreateReturns, Free
<1>2. /\ g_work_queue' \in Seq(Descriptors) /\ Once' /\ d \in Descriptors /\ Queued(d)
      /\ \A e : Queued(e)' <=> Queued(e) /\ e # d
  BY <1>1, FirstTaken, Zenon DEF TruthInv, PthreadTypeOK, Places, PlaceOf
<1>3. ~ Marked(d) /\ ~ Held(d) /\ starts[d] = 0
  BY <1>2, Zenon DEF TruthInv, Places, PlaceOf
<1>4. /\ error' \in [Threads -> Errors \cup {None}]
      /\ \A e \in Creators \ {c} : error'[e] = error[e]
  BY <1>1, Sets, Zenon DEF TruthInv, PthreadTypeOK
<1> HIDE DEF d
<1> QED
  BY <1>1, <1>2, <1>3, <1>4, CreatorReturns, Zenon DEF CreateSteps, d

LEMMA PollStartedTruth ==
    ASSUME TruthInv, NEW c \in Creators, PollStarted(c)
    PROVE  TruthInv'
<1> DEFINE d == at[c]
<1>1. /\ pc[c] = "poll" /\ state[d] \in {"EXECUTION", "WAKEDUP"}
      /\ result' = [result EXCEPT ![d] = "ok"]
      /\ at' = [at EXCEPT ![c] = None] /\ error' = [error EXCEPT ![c] = None]
      /\ Goto(c, "idle") /\ UNCHANGED <<g_work_queue, life, state, other, starts>>
  BY Zenon DEF PollStarted, CreateReturns, descVars
<1>2. d \in Descriptors /\ life[d] # "unused"
  BY <1>1, Zenon DEF TruthInv, CreatorsBusy
<1>3. life[d] \in {"live", "freed"} /\ life' = [life EXCEPT ![d] = life[d]]
  BY <1>1, <1>2, Zenon DEF TruthInv, PthreadTypeOK
<1>4. ~ Queued(d) /\ ~ Marked(d)
  BY <1>1, <1>2, Zenon DEF TruthInv, Places, PlaceOf
<1>5. g_work_queue' \in Seq(Descriptors) /\ Once' /\ \A e : Queued(e)' <=> Queued(e)
  BY <1>1 DEF TruthInv, PthreadTypeOK, Places, PlaceOf, Once, Queued
<1>6. /\ error' \in [Threads -> Errors \cup {None}]
      /\ \A e \in Creators \ {c} : error'[e] = error[e]
  BY <1>1, Sets, Zenon DEF TruthInv, PthreadTypeOK
<1> QED
  BY <1>1, <1>2, <1>3, <1>4, <1>5, <1>6, CreatorReturns, Zenon DEF CreateSteps

LEMMA PollErrorTruth ==
    ASSUME TruthInv, NEW c \in Creators, PollError(c)
    PROVE  TruthInv'
<1> DEFINE d == at[c]
<1>1. /\ pc[c] = "poll" /\ state[d] \in Errors
      /\ life' = [life EXCEPT ![d] = "freed"] /\ result' = [result EXCEPT ![d] = "error"]
      /\ at' = [at EXCEPT ![c] = None] /\ error' = [error EXCEPT ![c] = None]
      /\ Goto(c, "idle") /\ UNCHANGED <<g_work_queue, state, other, starts>>
  BY Zenon DEF PollError, CreateError, CreateReturns, Free
<1>2. d \in Descriptors
  BY <1>1, Zenon DEF TruthInv, CreatorsBusy
<1>3. ~ Queued(d) /\ ~ Marked(d) /\ starts[d] = 0 /\ ~ Held(d)
  BY <1>1, <1>2, Zenon DEF TruthInv, Places, PlaceOf, Errors
<1>4. g_work_queue' \in Seq(Descriptors) /\ Once' /\ \A e : Queued(e)' <=> Queued(e)
  BY <1>1 DEF TruthInv, PthreadTypeOK, Places, PlaceOf, Once, Queued
<1>5. /\ error' \in [Threads -> Errors \cup {None}]
      /\ \A e \in Creators \ {c} : error'[e] = error[e]
  BY <1>1, Sets, Zenon DEF TruthInv, PthreadTypeOK
<1> QED
  BY <1>1, <1>2, <1>3, <1>4, <1>5, CreatorReturns, Zenon DEF CreateSteps

\* Steps that change none of this: a joiner waits, and the events.
LEMMA SameTruth ==
    ASSUME TruthInv,
           UNCHANGED <<g_work_queue, state, life, pc, at, other, error, starts, result>>
    PROVE  TruthInv'
BY DEF TruthInv, PthreadTypeOK, CreatorsBusy, RunnersBusy, Places, PlaceOf, Once, Queued,
       Held, Marked

LEMMA PollFreedTruth ==
    ASSUME TruthInv, EndInv, NEW c \in Creators, PollFreed(c)
    PROVE  TruthInv'
<1> DEFINE d == at[c]
<1>1. /\ pc[c] \in {"suspend", "poll"} /\ life[d] = "freed"
      /\ UNCHANGED <<g_work_queue, life, state, other, starts>>
  BY Zenon DEF PollFreed, descVars
<1>2. CASE UNCHANGED <<result, at, error, pc>>
  BY <1>1, <1>2, SameTruth, Zenon
<1>3. CASE CreateReturns(c, "unknown")
  <2>1. /\ result' = [result EXCEPT ![d] = "unknown"]
        /\ at' = [at EXCEPT ![c] = None] /\ error' = [error EXCEPT ![c] = None]
        /\ Goto(c, "idle")
    BY <1>3, Zenon DEF CreateReturns
  <2>2. d \in Descriptors /\ result[d] = "none"
    BY <1>1, Zenon DEF TruthInv, CreatorsBusy, CreateSteps
  <2>3. state[d] = "WAKEDUP" /\ life' = [life EXCEPT ![d] = "freed"]
    BY <1>1, <2>2, Zenon DEF EndInv, TruthInv, PthreadTypeOK
  <2>4. ~ Queued(d) /\ ~ Marked(d)
    BY <2>2, <2>3, Zenon DEF TruthInv, Places, PlaceOf
  <2>5. g_work_queue' \in Seq(Descriptors) /\ Once' /\ \A e : Queued(e)' <=> Queued(e)
    BY <1>1 DEF TruthInv, PthreadTypeOK, Places, PlaceOf, Once, Queued
  <2>6. /\ error' \in [Threads -> Errors \cup {None}]
        /\ \A e \in Creators \ {c} : error'[e] = error[e]
    BY <2>1, Sets, Zenon DEF TruthInv, PthreadTypeOK
  <2> QED
    BY <1>1, <2>1, <2>2, <2>3, <2>4, <2>5, <2>6, CreatorReturns, Zenon DEF CreateSteps
<1> QED
  BY <1>2, <1>3, Zenon DEF PollFreed

LEMMA JoinDoneTruth ==
    ASSUME TruthInv, NEW c \in Creators, JoinDone(c)
    PROVE  TruthInv'
<1> DEFINE d == at[c]
<1>1. /\ pc[c] = "join" /\ state[d] = "WAKEDUP"
      /\ life' = [life EXCEPT ![d] = "freed"]
      /\ at' = [at EXCEPT ![c] = None]
      /\ Goto(c, "idle") /\ UNCHANGED <<g_work_queue, state, other, starts, error, result>>
  BY Zenon DEF JoinDone, Free
<1>2. d \in Descriptors
  BY <1>1, Zenon DEF TruthInv, CreatorsBusy
<1>3. /\ result[d] \in {"none", "ok", "error", "unknown"}
      /\ result' = [result EXCEPT ![d] = result[d]]
  BY <1>1, <1>2, Zenon DEF TruthInv, PthreadTypeOK
<1>4. ~ Queued(d) /\ ~ Marked(d)
  BY <1>1, <1>2, Zenon DEF TruthInv, Places, PlaceOf
<1>5. g_work_queue' \in Seq(Descriptors) /\ Once' /\ \A e : Queued(e)' <=> Queued(e)
  BY <1>1 DEF TruthInv, PthreadTypeOK, Places, PlaceOf, Once, Queued
<1>6. error' \in [Threads -> Errors \cup {None}]
  BY <1>1, Zenon DEF TruthInv, PthreadTypeOK
<1> QED
  BY <1>1, <1>2, <1>3, <1>4, <1>5, <1>6, CreatorReturns, Zenon

LEMMA PopOtherTruth ==
    ASSUME TruthInv, NEW c \in Creators, PopOther(c)
    PROVE  TruthInv'
<1>1. /\ pc[c] = "pop" /\ g_work_queue' = TakeFirst
      /\ UNCHANGED <<state, life, at, error, starts, result>>
  BY Zenon DEF PopOther, history
<1>2. CASE g_work_queue = <<>>
  <2>1. Goto(c, "suspend") /\ UNCHANGED <<other, g_work_queue>>
    BY <1>1, <1>2, Zenon DEF PopOther, TakeFirst
  <2>2. /\ error' \in [Threads -> Errors \cup {None}]
        /\ other' \in [Threads -> Descriptors \cup {None}]
    BY <1>1, <2>1, Zenon DEF TruthInv, PthreadTypeOK
  <2> QED
    BY <1>1, <2>1, <2>2, CreatorMoves, Zenon DEF CreateSteps
<1>3. CASE g_work_queue # <<>>
  <2> USE DEF TruthInv
  <2> DEFINE d == Head(g_work_queue)
  <2>1. pc' = [pc EXCEPT ![c] = "mark"] /\ other' = [other EXCEPT ![c] = d]
    BY <1>3, Zenon DEF PopOther, Goto
  <2>2. /\ g_work_queue' \in Seq(Descriptors) /\ Once' /\ d \in Descriptors /\ Queued(d)
        /\ \A e : Queued(e)' <=> Queued(e) /\ e # d
    BY <1>1, <1>3, FirstTaken, Zenon DEF PthreadTypeOK, Places, PlaceOf
  <2> HIDE DEF d
  <2>3. /\ pc'[c] = "mark" /\ other'[c] = d /\ c \in Threads
        /\ \A t \in Threads \ {c} : pc'[t] = pc[t] /\ other'[t] = other[t]
        /\ \A r \in Runners : pc'[r] = pc[r]
    BY <2>1, Sets, Zenon DEF PthreadTypeOK
  <2>4. \A e \in Descriptors : /\ Held(e)' <=> Held(e)
                               /\ Marked(e)' <=> Marked(e) \/ e = d
    BY <1>1, <2>3, Sets, Zenon DEF Held, Marked
  <2>5. PthreadTypeOK'
    BY <1>1, <2>1, <2>2, Zenon DEF PthreadTypeOK, Steps, CreateSteps
  <2>6. CreatorsBusy'
    <3>1. \A e \in Creators \ {c} : pc[e] = "mark" => other[e] # d
      BY <2>2, Zenon DEF Places, PlaceOf, Marked
    <3> QED
      BY <1>1, <2>2, <2>3, <3>1, Sets DEF CreatorsBusy, CreateSteps
  <2>7. RunnersBusy'
    BY <1>1, <2>3 DEF RunnersBusy
  <2>8. Places'
    <3>1. Once'
      BY <1>1, <2>2, <2>4, Zenon DEF Places, Once
    <3>2. ASSUME NEW x \in Descriptors PROVE PlaceOf(x)'
      <4>1. PlaceOf(x)
        BY Zenon DEF Places
      <4> QED
        BY <1>1, <2>2, <2>4, <4>1, Zenon DEF PlaceOf
    <3> QED
      BY <3>1, <3>2, Zenon DEF Places
  <2> QED
    BY <2>5, <2>6, <2>7, <2>8, Zenon
<1> QED
  BY <1>2, <1>3, Zenon

LEMMA MarkOtherTruth ==
    ASSUME TruthInv, NEW c \in Creators, MarkOther(c)
    PROVE  TruthInv'
<1> USE DEF TruthInv
<1> DEFINE d == other[c]
<1>1. /\ pc[c] = "mark" /\ state' = [state EXCEPT ![d] = error[c]]
      /\ pc' = [pc EXCEPT ![c] = "notify"]
      /\ UNCHANGED <<g_work_queue, life, at, other, error, starts, result>>
  BY Zenon DEF MarkOther, Goto
<1>2. d \in Descriptors /\ error[c] \in Errors /\ c \in Threads /\ Marked(d)
  BY <1>1, Sets, Zenon DEF CreatorsBusy, Marked
<1>3. ~ Queued(d) /\ ~ Held(d) /\ starts[d] = 0 /\ result[d] = "none"
      /\ life[d] # "unused"
  BY <1>2, Zenon DEF Places, PlaceOf
<1>4. /\ pc'[c] = "notify" /\ \A t \in Threads \ {c} : pc'[t] = pc[t]
      /\ \A r \in Runners : pc'[r] = pc[r] /\ at[r] # d
      /\ state'[d] \in Errors /\ \A e \in Descriptors \ {d} : state'[e] = state[e]
  BY <1>1, <1>2, <1>3, Sets, Zenon DEF PthreadTypeOK, Held
<1>5. \A e \in Descriptors : /\ Held(e)' <=> Held(e)
                             /\ Queued(e)' <=> Queued(e)
                             /\ Marked(e)' => Marked(e) /\ e # d
  BY <1>1, <1>2, <1>4, Sets DEF Held, Queued, Marked, CreatorsBusy
<1> HIDE DEF d
<1>6. PthreadTypeOK'
  BY <1>1, <1>2, Sets, Zenon DEF PthreadTypeOK, Steps, CreateSteps
<1>7. CreatorsBusy'
  BY <1>1, <1>2, <1>4, Sets DEF CreatorsBusy, CreateSteps, d
<1>8. RunnersBusy'
  BY <1>1, <1>4 DEF RunnersBusy
<1>9. Places'
  <2>1. Once'
    BY <1>1, <1>2, <1>3, <1>4, <1>5 DEF Places, Once
  <2>2. ASSUME NEW x \in Descriptors PROVE PlaceOf(x)'
    <3>1. PlaceOf(x)
      BY Zenon DEF Places
    <3> QED
      BY <1>1, <1>2, <1>3, <1>4, <1>5, <3>1, Zenon DEF PlaceOf, Errors
  <2> QED
    BY <2>1, <2>2, Zenon DEF Places
<1> QED
  BY <1>6, <1>7, <1>8, <1>9, Zenon

LEMMA JoinTruth ==
    ASSUME TruthInv, NEW c \in Creators, Join(c)
    PROVE  TruthInv'
<1> USE DEF TruthInv
<1>1. PICK d \in Descriptors : Joinable(d) /\ at' = [at EXCEPT ![c] = d]
  BY Zenon DEF Join
<1>2. /\ pc[c] = "idle" /\ pc' = [pc EXCEPT ![c] = "join"] /\ life[d] = "live"
      /\ UNCHANGED <<g_work_queue, state, life, other, error, starts, result>>
  BY <1>1, Zenon DEF Join, Goto, descVars, history, Joinable
<1>3. /\ pc'[c] = "join" /\ at'[c] = d /\ c \in Threads
      /\ \A t \in Threads \ {c} : pc'[t] = pc[t] /\ at'[t] = at[t]
      /\ \A r \in Runners : pc'[r] = pc[r] /\ at'[r] = at[r]
  BY <1>1, <1>2, Sets, Zenon DEF PthreadTypeOK
<1>4. \A e \in Descriptors : /\ Held(e)' <=> Held(e)
                             /\ Queued(e)' <=> Queued(e)
                             /\ Marked(e)' <=> Marked(e)
  BY <1>2, <1>3, Sets, Zenon DEF Held, Queued, Marked
<1>5. PthreadTypeOK'
  BY <1>1, <1>2, Zenon DEF PthreadTypeOK, Steps
<1>6. CreatorsBusy'
  BY <1>2, <1>3, Sets DEF CreatorsBusy, CreateSteps
<1>7. RunnersBusy'
  BY <1>2, <1>3 DEF RunnersBusy
<1>8. Places'
  <2>1. Once'
    BY <1>2, <1>4, Zenon DEF Places, Once
  <2>2. ASSUME NEW x \in Descriptors PROVE PlaceOf(x)'
    <3>1. PlaceOf(x)
      BY Zenon DEF Places
    <3> QED
      BY <1>2, <1>4, <3>1, Zenon DEF PlaceOf
  <2> QED
    BY <2>1, <2>2, Zenon DEF Places
<1> QED
  BY <1>5, <1>6, <1>7, <1>8, Zenon

-----------------------------------------------------------------------------
(* The steps of a native thread.                                           *)

LEMMA TakeTaskTruth ==
    ASSUME TruthInv, NEW r \in Runners, TakeTask(r)
    PROVE  TruthInv'
<1> USE DEF TruthInv
<1>1. /\ pc[r] = "start" /\ g_work_queue' = TakeFirst
      /\ UNCHANGED <<state, life, other, error, starts, result>>
  BY Zenon DEF TakeTask, history
<1>2. r \in Threads /\ r \notin Creators /\ at[r] = None
  BY <1>1, Sets, Zenon DEF RunnersBusy, RunSteps
<1>3. CASE g_work_queue = <<>>
  <2>1. pc' = [pc EXCEPT ![r] = "leave"] /\ UNCHANGED <<at, g_work_queue>>
    BY <1>1, <1>3, Zenon DEF TakeTask, TakeFirst, Goto
  <2>2. /\ pc'[r] = "leave" /\ \A t \in Threads \ {r} : pc'[t] = pc[t]
        /\ \A c \in Creators : pc'[c] = pc[c]
    BY <1>2, <2>1, Sets, Zenon DEF PthreadTypeOK
  <2>3. \A e \in Descriptors : /\ Held(e)' <=> Held(e)
                               /\ Queued(e)' <=> Queued(e)
                               /\ Marked(e)' <=> Marked(e)
    BY <1>1, <2>1, <2>2, Zenon DEF Held, Queued, Marked
  <2>4. PthreadTypeOK'
    BY <1>1, <2>1, Zenon DEF PthreadTypeOK, Steps
  <2>5. CreatorsBusy' /\ RunnersBusy'
    BY <1>1, <1>2, <2>1, <2>2, Sets DEF CreatorsBusy, RunnersBusy, RunSteps
  <2>6. Places'
    <3>1. Once'
      BY <1>1, <2>1, <2>3, Zenon DEF Places, Once
    <3>2. ASSUME NEW x \in Descriptors PROVE PlaceOf(x)'
      <4>1. PlaceOf(x)
        BY Zenon DEF Places
      <4> QED
        BY <1>1, <2>1, <2>3, <4>1, Zenon DEF PlaceOf
    <3> QED
      BY <3>1, <3>2, Zenon DEF Places
  <2> QED
    BY <2>4, <2>5, <2>6, Zenon
<1>4. CASE g_work_queue # <<>>
  <2> DEFINE d == Head(g_work_queue)
  <2>1. pc' = [pc EXCEPT ![r] = "begin"] /\ at' = [at EXCEPT ![r] = d]
    BY <1>4, Zenon DEF TakeTask, Goto
  <2>2. /\ g_work_queue' \in Seq(Descriptors) /\ Once' /\ d \in Descriptors /\ Queued(d)
        /\ \A e : Queued(e)' <=> Queued(e) /\ e # d
    BY <1>1, <1>4, FirstTaken, Zenon DEF PthreadTypeOK, Places, PlaceOf
  <2> HIDE DEF d
  <2>3. /\ pc'[r] = "begin" /\ at'[r] = d
        /\ \A t \in Threads \ {r} : pc'[t] = pc[t] /\ at'[t] = at[t]
        /\ \A c \in Creators : pc'[c] = pc[c] /\ at'[c] = at[c]
    BY <1>2, <2>1, Sets, Zenon DEF PthreadTypeOK
  <2>4. /\ life[d] # "unused" /\ state[d] = "PREPARING" /\ starts[d] = 0
        /\ result[d] = "none" /\ ~ Held(d) /\ ~ Marked(d) /\ d # None
    BY <2>2, Sets, Zenon DEF Places, PlaceOf
  <2>5. \A e \in Descriptors : /\ Held(e)' <=> Held(e) \/ e = d
                               /\ Marked(e)' <=> Marked(e)
    BY <1>1, <1>2, <2>3, Sets, Zenon DEF Held, Marked
  <2>6. PthreadTypeOK'
    BY <1>1, <2>1, <2>2, Zenon DEF PthreadTypeOK, Steps, RunSteps
  <2>7. CreatorsBusy'
    BY <1>1, <2>3 DEF CreatorsBusy
  <2>8. RunnersBusy'
    <3>1. \A q \in Runners \ {r} : pc'[q] = pc[q] /\ at'[q] = at[q] /\ at[q] # d
      BY <2>3, <2>4, Sets, Zenon DEF Held
    <3> QED
      BY <1>1, <2>2, <2>3, <2>4, <3>1 DEF RunnersBusy, RunSteps
  <2>9. Places'
    <3>1. Once'
      BY <1>1, <2>2, <2>4, <2>5, Zenon DEF Places, Once
    <3>2. ASSUME NEW x \in Descriptors PROVE PlaceOf(x)'
      <4>1. PlaceOf(x)
        BY Zenon DEF Places
      <4> QED
        BY <1>1, <2>2, <2>4, <2>5, <4>1, Zenon DEF PlaceOf, Errors
    <3> QED
      BY <3>1, <3>2, Zenon DEF Places
  <2> QED
    BY <2>6, <2>7, <2>8, <2>9, Zenon
<1> QED
  BY <1>3, <1>4, Zenon

\* A native thread goes on with its descriptor d, which is now being executed
\* and has been started once it is in the routine.
LEMMA RunnerMoves ==
    ASSUME TruthInv, NEW r \in Runners, NEW d \in Descriptors, at[r] = d,
           NEW step \in RunSteps \ {"begin"}, Goto(r, step),
           state' = [state EXCEPT ![d] = "EXECUTION"],
           starts' = [starts EXCEPT ![d] = IF step = "run" THEN 1 ELSE 0],
           UNCHANGED <<g_work_queue, life, at, other, error, result>>
    PROVE  TruthInv'
<1> USE DEF TruthInv
<1>1. /\ r \in Threads /\ r \notin Creators /\ pc[r] \in RunSteps /\ Held(d)
      /\ life[d] # "unused" /\ result[d] # "error"
      /\ state[d] \in {"PREPARING", "EXECUTION"}
  BY Sets, Zenon DEF RunnersBusy, Held, Places, PlaceOf, RunSteps
<1>2. /\ pc'[r] = step /\ \A t \in Threads \ {r} : pc'[t] = pc[t]
      /\ \A c \in Creators : pc'[c] = pc[c]
      /\ \A q \in Runners \ {r} : pc'[q] = pc[q] /\ at[q] # d
      /\ state'[d] = "EXECUTION" /\ starts'[d] = IF step = "run" THEN 1 ELSE 0
      /\ \A e \in Descriptors \ {d} : state'[e] = state[e] /\ starts'[e] = starts[e]
  BY <1>1, Sets DEF PthreadTypeOK, Goto, RunnersBusy
<1>3. \A e \in Descriptors : /\ Held(e)' <=> Held(e)
                             /\ Queued(e)' <=> Queued(e)
                             /\ Marked(e)' <=> Marked(e)
  BY <1>2, Zenon DEF Held, Queued, Marked
<1>4. PthreadTypeOK'
  BY Zenon DEF PthreadTypeOK, Goto, Steps
<1>5. CreatorsBusy'
  BY <1>2 DEF CreatorsBusy
<1>6. RunnersBusy'
  BY <1>1, <1>2 DEF RunnersBusy, RunSteps
<1>7. Places'
  <2>1. Once'
    BY <1>1, <1>2, <1>3 DEF Places, Once
  <2>2. ASSUME NEW x \in Descriptors PROVE PlaceOf(x)'
    <3>1. PlaceOf(x)
      BY Zenon DEF Places
    <3> QED
      BY <1>1, <1>2, <1>3, <3>1, Zenon DEF PlaceOf, Errors
  <2> QED
    BY <2>1, <2>2, Zenon DEF Places
<1> QED
  BY <1>4, <1>5, <1>6, <1>7, Zenon

LEMMA BeginTruth ==
    ASSUME TruthInv, NEW r \in Runners, BeginTask(r) \/ WakeCreator(r) \/ StartRoutine(r)
    PROVE  TruthInv'
<1>1. CASE BeginTask(r)
  <2>1. /\ pc[r] = "begin" /\ Goto(r, "wake") /\ state' = [state EXCEPT ![at[r]] = "EXECUTION"]
        /\ UNCHANGED <<g_work_queue, life, at, other, error, starts, result>>
    BY <1>1, Zenon DEF BeginTask
  <2>2. at[r] \in Descriptors /\ starts' = [starts EXCEPT ![at[r]] = 0]
    BY <2>1 DEF TruthInv, PthreadTypeOK, RunnersBusy, RunSteps
  <2> QED
    BY <2>1, <2>2, RunnerMoves, Zenon DEF RunSteps
<1>2. CASE WakeCreator(r)
  <2>1. /\ pc[r] = "wake" /\ Goto(r, "routine")
        /\ UNCHANGED <<g_work_queue, state, life, at, other, error, starts, result>>
    BY <1>2, Zenon DEF WakeCreator, descVars
  <2>2. /\ at[r] \in Descriptors /\ starts' = [starts EXCEPT ![at[r]] = 0]
        /\ state' = [state EXCEPT ![at[r]] = "EXECUTION"]
    BY <2>1 DEF TruthInv, PthreadTypeOK, RunnersBusy, RunSteps
  <2> QED
    BY <2>1, <2>2, RunnerMoves, Zenon DEF RunSteps
<1>3. CASE StartRoutine(r)
  <2>1. /\ pc[r] = "routine" /\ Goto(r, "run") /\ starts' = [starts EXCEPT ![at[r]] = @ + 1]
        /\ UNCHANGED <<g_work_queue, state, life, at, other, error, result>>
    BY <1>3, Zenon DEF StartRoutine, descVars
  <2>2. at[r] \in Descriptors /\ starts[at[r]] + 1 = 1 /\ state[at[r]] = "EXECUTION"
    BY <2>1 DEF TruthInv, PthreadTypeOK, RunnersBusy, RunSteps
  <2>3. /\ starts' = [starts EXCEPT ![at[r]] = 1]
        /\ state' = [state EXCEPT ![at[r]] = "EXECUTION"]
    BY <2>1, <2>2, Zenon DEF TruthInv, PthreadTypeOK
  <2> QED
    BY <2>1, <2>2, <2>3, RunnerMoves, Zenon DEF RunSteps
<1> QED
  BY <1>1, <1>2, <1>3, Zenon

LEMMA WakeupJoinTruth ==
    ASSUME TruthInv, NEW r \in Runners, WakeupJoin(r)
    PROVE  TruthInv'
<1> USE DEF TruthInv
<1> DEFINE d == at[r]
<1>1. /\ pc[r] = "run" /\ state' = [state EXCEPT ![d] = "WAKEDUP"]
      /\ at' = [at EXCEPT ![r] = None] /\ pc' = [pc EXCEPT ![r] = "leave"]
      /\ UNCHANGED <<g_work_queue, life, other, error, starts, result>>
  BY Zenon DEF WakeupJoin, Goto
<1>2. /\ d \in Descriptors /\ life[d] # "unused" /\ state[d] = "EXECUTION" /\ starts[d] = 1
      /\ r \in Threads /\ r \notin Creators /\ Held(d) /\ result[d] # "error"
  BY <1>1, Sets, Zenon DEF RunnersBusy, RunSteps, Held, Places, PlaceOf
<1>3. /\ pc'[r] = "leave" /\ at'[r] = None
      /\ \A t \in Threads \ {r} : pc'[t] = pc[t] /\ at'[t] = at[t]
      /\ \A c \in Creators : pc'[c] = pc[c] /\ at'[c] = at[c]
      /\ \A q \in Runners \ {r} : pc'[q] = pc[q] /\ at'[q] = at[q] /\ at[q] # d
      /\ state'[d] = "WAKEDUP" /\ \A e \in Descriptors \ {d} : state'[e] = state[e]
  BY <1>1, <1>2, Sets DEF PthreadTypeOK, RunnersBusy
<1> HIDE DEF d
<1>4. \A e \in Descriptors : /\ Held(e)' <=> Held(e) /\ e # d
                             /\ Queued(e)' <=> Queued(e)
                             /\ Marked(e)' <=> Marked(e)
  BY <1>1, <1>3, Sets DEF Held, Queued, Marked, d
<1>5. PthreadTypeOK'
  BY <1>1, <1>2, Zenon DEF PthreadTypeOK, Steps
<1>6. CreatorsBusy'
  BY <1>1, <1>3 DEF CreatorsBusy
<1>7. RunnersBusy'
  BY <1>1, <1>3 DEF RunnersBusy, RunSteps
<1>8. Places'
  <2>1. Once'
    BY <1>1, <1>2, <1>3, <1>4, Zenon DEF Places, Once
  <2>2. ASSUME NEW x \in Descriptors PROVE PlaceOf(x)'
    <3>1. PlaceOf(x)
      BY Zenon DEF Places
    <3> QED
      BY <1>1, <1>2, <1>3, <1>4, <3>1, Zenon DEF PlaceOf, Errors
  <2> QED
    BY <2>1, <2>2, Zenon DEF Places
<1> QED
  BY <1>5, <1>6, <1>7, <1>8, Zenon

LEMMA LeaveTruth ==
    ASSUME TruthInv, NEW r \in Runners, Leave(r)
    PROVE  TruthInv'
<1> USE DEF TruthInv
<1>1. /\ pc[r] = "leave" /\ pc' = [pc EXCEPT ![r] = "free"]
      /\ UNCHANGED <<g_work_queue, state, life, at, other, error, starts, result>>
  BY Zenon DEF Leave, Goto, descVars, history
<1>2. /\ pc'[r] = "free" /\ \A t \in Threads \ {r} : pc'[t] = pc[t]
      /\ \A c \in Creators : pc'[c] = pc[c] /\ r \in Threads
  BY <1>1, Sets, Zenon DEF PthreadTypeOK
<1>3. PthreadTypeOK'
  BY <1>1, Zenon DEF PthreadTypeOK, Steps
<1>4. CreatorsBusy' /\ RunnersBusy'
  BY <1>1, <1>2, Sets DEF CreatorsBusy, RunnersBusy, RunSteps
<1>5. \A e \in Descriptors : /\ Held(e)' <=> Held(e)
                             /\ Queued(e)' <=> Queued(e)
                             /\ Marked(e)' <=> Marked(e)
  BY <1>1, <1>2, Zenon DEF Held, Queued, Marked
<1>6. Places'
  <2>1. Once'
    BY <1>1, <1>5, Zenon DEF Places, Once
  <2>2. ASSUME NEW x \in Descriptors PROVE PlaceOf(x)'
    <3>1. PlaceOf(x)
      BY Zenon DEF Places
    <3> QED
      BY <1>1, <1>5, <3>1, Zenon DEF PlaceOf
  <2> QED
    BY <2>1, <2>2, Zenon DEF Places
<1> QED
  BY <1>3, <1>4, <1>6, Zenon

-----------------------------------------------------------------------------
(* All steps together.                                                     *)

\* The events, and a joiner that goes to wait, change no descriptor's place.
LEMMA QuietSteps ==
    ASSUME (\E t \in Threads : WaitStep(t)) \/ (\E c \in Creators : JoinWait(c))
           \/ UNCHANGED vars
    PROVE  UNCHANGED <<g_work_queue, state, life, pc, at, other, error, starts, result>>
BY Zenon DEF WaitStep, TimedDec, TimedOut, ResetEvent, OtherEventStep, JoinWait, vars, descVars,
       threadVars, history

LEMMA TruthStep == TruthInv /\ EndInv /\ [PthreadNext]_vars => TruthInv'
<1> SUFFICES ASSUME TruthInv, EndInv, [PthreadNext]_vars PROVE TruthInv'
  BY Zenon
<1>1. ASSUME NEW c \in Creators, Create(c) \/ Join(c) \/ JoinDone(c)
      PROVE  TruthInv'
  BY <1>1, CreateTruth, JoinTruth, JoinDoneTruth, Zenon
<1>2. ASSUME NEW c \in Creators, CreateOcall(c) \/ CreateOcallFails(c) \/ PopOwn(c)
                                 \/ PopOther(c) \/ MarkOther(c) \/ NotifyOther(c)
      PROVE  TruthInv'
  BY <1>2, CreateOcallTruth, CreateOcallFailsTruth, PopOwnTruth, PopOtherTruth,
     MarkOtherTruth, NotifyTruth, Zenon
<1>3. ASSUME NEW c \in Creators, Suspend(c) \/ PollPreparing(c) \/ PollStarted(c)
                                 \/ PollError(c) \/ PollFreed(c)
      PROVE  TruthInv'
  BY <1>3, SuspendTruth, PollStartedTruth, PollErrorTruth, PollFreedTruth, Zenon
<1>4. ASSUME NEW r \in Runners, RunnerStep(r)
      PROVE  TruthInv'
  BY <1>4, TakeTaskTruth, BeginTruth, WakeupJoinTruth, LeaveTruth, Zenon DEF RunnerStep
<1>5. ASSUME (\E t \in Threads : WaitStep(t)) \/ (\E c \in Creators : JoinWait(c))
             \/ UNCHANGED vars
      PROVE  TruthInv'
  BY <1>5, QuietSteps, SameTruth, Zenon
<1>6. ASSUME NEW c \in Creators, CreatorStep(c) PROVE TruthInv'
  BY <1>1, <1>2, <1>3, <1>5, <1>6, Zenon DEF CreatorStep
<1> QED
  BY <1>1, <1>3, <1>4, <1>5, <1>6, Zenon DEF PthreadNext

\* What a step changes of one descriptor at most.
EndStays(d) ==
    /\ \A e \in Descriptors \ {d} :
          starts'[e] = starts[e] /\ state'[e] = state[e] /\ life'[e] = life[e]
          /\ result'[e] = result[e]
    /\ starts'[d] = 1 => state'[d] \in {"EXECUTION", "WAKEDUP"}
    /\ life'[d] = "freed" => state'[d] = "WAKEDUP" \/ result'[d] = "error"

LEMMA EndCreator ==
    ASSUME TruthInv, EndInv, NEW c \in Creators,
           Create(c) \/ PopOwn(c) \/ MarkOther(c) \/ PollStarted(c) \/ PollError(c)
           \/ (PollFreed(c) /\ CreateReturns(c, "unknown")) \/ JoinDone(c)
    PROVE  \E d \in Descriptors : EndStays(d)
<1>1. /\ state \in [Descriptors -> {"NONE", "PREPARING", "EXECUTION", "WAKEDUP"} \cup Errors]
      /\ life \in [Descriptors -> {"unused", "live", "freed"}]
      /\ starts \in [Descriptors -> {0, 1}]
      /\ result \in [Descriptors -> {"none", "ok", "error", "unknown"}]
  BY Zenon DEF TruthInv, PthreadTypeOK
<1>2. CASE Create(c)
  <2>1. PICK d \in Descriptors :
            /\ life[d] = "unused" /\ life' = [life EXCEPT ![d] = "live"]
            /\ state' = [state EXCEPT ![d] = "PREPARING"] /\ UNCHANGED <<starts, result>>
    BY <1>2, Zenon DEF Create, history
  <2>2. starts[d] = 0
    BY <2>1, Zenon DEF TruthInv, Places, PlaceOf
  <2>3. EndStays(d)
    BY <1>1, <2>1, <2>2 DEF EndStays
  <2> QED
    BY <2>3, Zenon
<1>3. CASE PopOwn(c) \/ PollError(c)
  <2>1. /\ pc[c] \in {"pop", "poll"} /\ life' = [life EXCEPT ![at[c]] = "freed"]
        /\ result' = [result EXCEPT ![at[c]] = "error"] /\ UNCHANGED <<state, starts>>
    BY <1>3, Zenon DEF PopOwn, PollError, CreateError, CreateReturns, Free
  <2>2. at[c] \in Descriptors
    BY <2>1, Zenon DEF TruthInv, CreatorsBusy
  <2>3. EndStays(at[c])
    BY <1>1, <2>1, <2>2 DEF EndStays, EndInv
  <2> QED
    BY <2>2, <2>3, Zenon
<1>4. CASE MarkOther(c)
  <2>1. /\ pc[c] = "mark" /\ state' = [state EXCEPT ![other[c]] = error[c]]
        /\ UNCHANGED <<life, starts, result>>
    BY <1>4, Zenon DEF MarkOther
  <2>2. other[c] \in Descriptors /\ Marked(other[c])
    BY <2>1, Zenon DEF TruthInv, CreatorsBusy, Marked
  <2>3. /\ state[other[c]] = "PREPARING" /\ starts[other[c]] = 0
        /\ result[other[c]] = "none"
    BY <2>2, Zenon DEF TruthInv, Places, PlaceOf
  <2>4. life[other[c]] # "freed"
    BY <2>2, <2>3, Zenon DEF EndInv
  <2>5. EndStays(other[c])
    BY <1>1, <2>1, <2>2, <2>3, <2>4 DEF EndStays
  <2> QED
    BY <2>2, <2>5, Zenon
<1>5. CASE PollStarted(c) \/ (PollFreed(c) /\ CreateReturns(c, "unknown"))
  <2>1. /\ pc[c] \in {"suspend", "poll"} /\ UNCHANGED <<state, life, starts>>
        /\ \E a \in {"ok", "unknown"} : result' = [result EXCEPT ![at[c]] = a]
    BY <1>5, Zenon DEF PollStarted, PollFreed, CreateReturns, descVars
  <2>2. at[c] \in Descriptors /\ result[at[c]] = "none"
    BY <2>1, Zenon DEF TruthInv, CreatorsBusy, CreateSteps
  <2>3. EndStays(at[c])
    BY <1>1, <2>1, <2>2 DEF EndStays, EndInv
  <2> QED
    BY <2>2, <2>3, Zenon
<1>6. CASE JoinDone(c)
  <2>1. /\ pc[c] = "join" /\ state[at[c]] = "WAKEDUP"
        /\ life' = [life EXCEPT ![at[c]] = "freed"] /\ UNCHANGED <<state, starts, result>>
    BY <1>6, Zenon DEF JoinDone, Free
  <2>2. at[c] \in Descriptors
    BY <2>1, Zenon DEF TruthInv, CreatorsBusy
  <2>3. EndStays(at[c])
    BY <1>1, <2>1, <2>2 DEF EndStays
  <2> QED
    BY <2>2, <2>3, Zenon
<1> QED
  BY <1>2, <1>3, <1>4, <1>5, <1>6, Zenon

LEMMA EndRunner ==
    ASSUME TruthInv, EndInv, NEW r \in Runners,
           BeginTask(r) \/ StartRoutine(r) \/ WakeupJoin(r)
    PROVE  \E d \in Descriptors : EndStays(d)
<1>1. /\ state \in [Descriptors -> {"NONE", "PREPARING", "EXECUTION", "WAKEDUP"} \cup Errors]
      /\ starts \in [Descriptors -> {0, 1}]
  BY Zenon DEF TruthInv, PthreadTypeOK
<1>2. /\ pc[r] \in {"begin", "routine", "run"} /\ UNCHANGED <<life, result>>
      /\ \/ pc[r] = "begin" /\ state' = [state EXCEPT ![at[r]] = "EXECUTION"]
            /\ UNCHANGED starts
         \/ pc[r] = "routine" /\ UNCHANGED state /\ starts' = [starts EXCEPT ![at[r]] = @ + 1]
         \/ pc[r] = "run" /\ state' = [state EXCEPT ![at[r]] = "WAKEDUP"] /\ UNCHANGED starts
  BY Zenon DEF BeginTask, StartRoutine, WakeupJoin, descVars
<1>3. /\ at[r] \in Descriptors
      /\ pc[r] = "begin" => state[at[r]] = "PREPARING" /\ result[at[r]] = "none"
      /\ pc[r] = "routine" => state[at[r]] = "EXECUTION"
  BY <1>2, Zenon DEF TruthInv, RunnersBusy, RunSteps
<1>4. pc[r] = "begin" => life[at[r]] # "freed"
  BY <1>3, Zenon DEF EndInv
<1>5. EndStays(at[r])
  BY <1>1, <1>2, <1>3, <1>4 DEF EndStays, EndInv
<1> QED
  BY <1>3, <1>5, Zenon

LEMMA EndStep == TruthInv /\ EndInv /\ [PthreadNext]_vars => EndInv'
<1> SUFFICES ASSUME TruthInv, EndInv, [PthreadNext]_vars PROVE EndInv'
  BY Zenon
<1>1. ASSUME NEW d \in Descriptors, EndStays(d) PROVE EndInv'
  BY <1>1, Zenon DEF EndStays, EndInv
<1>2. ASSUME UNCHANGED <<state, life, starts, result>> PROVE EndInv'
  BY <1>2, Zenon DEF EndInv
<1>3. ASSUME NEW c \in Creators,
             Join(c) \/ CreateOcall(c) \/ CreateOcallFails(c) \/ PopOther(c) \/ NotifyOther(c)
             \/ Suspend(c) \/ PollPreparing(c)
      PROVE  UNCHANGED <<state, life, starts, result>>
  BY <1>3, Zenon DEF Join, CreateOcall, CreateOcallFails, PopOther, NotifyOther, Suspend,
                PollPreparing, descVars, history
<1>4. ASSUME NEW c \in Creators, PollFreed(c) PROVE EndInv'
  <2>1. UNCHANGED <<state, life, starts>>
    BY <1>4, Zenon DEF PollFreed, descVars
  <2> QED
    BY <1>1, <1>2, <1>4, <2>1, EndCreator, Zenon DEF PollFreed
<1>5. ASSUME NEW r \in Runners, TakeTask(r) \/ WakeCreator(r) \/ Leave(r)
      PROVE  UNCHANGED <<state, life, starts, result>>
  BY <1>5, Zenon DEF TakeTask, WakeCreator, Leave, descVars, history
<1>6. ASSUME NEW r \in Runners, RunnerStep(r) PROVE EndInv'
  BY <1>1, <1>2, <1>5, <1>6, EndRunner, Zenon DEF RunnerStep
<1>7. ASSUME NEW c \in Creators, Create(c) \/ Join(c) \/ CreatorStep(c) PROVE EndInv'
  BY <1>1, <1>2, <1>3, <1>7, EndCreator, QuietSteps, Zenon DEF CreatorStep
<1> QED
  BY <1>2, <1>4, <1>6, <1>7, QuietSteps, Zenon DEF PthreadNext


LEMMA TruthAlways == PthreadSpec => [](TruthInv /\ EndInv)
<1>1. PthreadInit => EndInv
  BY DEF PthreadInit, EndInv
<1> QED
  BY <1>1, TruthInit, TruthStep, EndStep, PTL DEF PthreadSpec

\* What pthread_create returns is true of its descriptor, for any number of
\* threads and whatever errors meet whichever creators.
THEOREM CreateIsTrue == PthreadSpec => []CreateTellsTruth
BY TruthAlways, TruthTells, PTL

-----------------------------------------------------------------------------
(* As many tasks as native threads that will ask for one.                  *)

\* One thread more, and one less.
LEMMA OneMore ==
    ASSUME NEW W \in SUBSET Threads, NEW t \in Threads
    PROVE  /\ Cardinality(W) \in Nat
           /\ t \notin W => Cardinality(W \cup {t}) = Cardinality(W) + 1
           /\ t \in W => Cardinality(W \ {t}) = Cardinality(W) - 1 /\ Cardinality(W) # 0
<1>1. IsFiniteSet(W)
  BY PthreadAssumption, FS_Subset, Zenon
<1>2. Cardinality(W) \in Nat /\ (t \in W => Cardinality(W) # 0)
  BY <1>1, FS_CardinalityType, FS_EmptySet, Zenon
<1>3. t \notin W => Cardinality(W \cup {t}) = Cardinality(W) + 1
  BY <1>1, FS_AddElement, Zenon
<1>4. t \in W => Cardinality(W \ {t}) = Cardinality(W) - 1
  BY <1>1, FS_RemoveElement, Zenon
<1> QED
  BY <1>2, <1>3, <1>4, Zenon

LEMMA Numbers ==
    /\ Cardinality(Waiting("start")) \in Nat
    /\ Cardinality(Waiting("ocall")) \in Nat
    /\ Cardinality(Waiting("pop")) \in Nat
<1>1. IsFiniteSet(Waiting("start")) /\ IsFiniteSet(Waiting("ocall")) /\ IsFiniteSet(Waiting("pop"))
  BY PthreadAssumption, FS_Subset, Zenon DEF Waiting
<1> QED
  BY <1>1, FS_CardinalityType, Zenon

\* A step by which no thread comes to ask, or no longer asks.
LEMMA NobodyAsks ==
    ASSUME TruthInv, TaskForEveryRunner, NEW t \in Threads, NEW y, Goto(t, y),
           pc[t] \notin {"start", "ocall", "pop"}, y \notin {"start", "ocall", "pop"},
           UNCHANGED g_work_queue
    PROVE  TaskForEveryRunner'
<1>1. /\ Waiting("start")' = Waiting("start") /\ Waiting("ocall")' = Waiting("ocall")
      /\ Waiting("pop")' = Waiting("pop")
  BY Zenon DEF Waiting, Goto, TruthInv, PthreadTypeOK
<1> QED
  BY <1>1, Zenon DEF TaskForEveryRunner

LEMMA CreateAsks ==
    ASSUME TruthInv, TaskForEveryRunner, NEW c \in Creators, Create(c)
    PROVE  TaskForEveryRunner'
<1>1. c \in Threads /\ pc \in [Threads -> Steps] /\ g_work_queue \in Seq(Descriptors)
  BY Sets, Zenon DEF TruthInv, PthreadTypeOK
<1>2. /\ pc[c] = "idle" /\ pc' = [pc EXCEPT ![c] = "ocall"]
      /\ \E d \in Descriptors : g_work_queue' = Append(g_work_queue, d)
  BY Zenon DEF Create, Goto
<1>3. Len(g_work_queue') = Len(g_work_queue) + 1 /\ Len(g_work_queue) \in Nat
  BY <1>1, <1>2
<1>4. /\ Waiting("start")' = Waiting("start") /\ Waiting("pop")' = Waiting("pop")
      /\ Waiting("ocall")' = Waiting("ocall") \cup {c} /\ c \notin Waiting("ocall")
      /\ Waiting("ocall") \in SUBSET Threads
  BY <1>1, <1>2, Zenon DEF Waiting
<1>5. Cardinality(Waiting("ocall")') = Cardinality(Waiting("ocall")) + 1
  BY <1>1, <1>4, OneMore, Zenon
<1> QED
  BY <1>3, <1>4, <1>5, Numbers DEF TaskForEveryRunner

LEMMA CreateOcallAsks ==
    ASSUME TruthInv, TaskForEveryRunner, NEW c \in Creators,
           CreateOcall(c) \/ CreateOcallFails(c)
    PROVE  TaskForEveryRunner'
<1>1. c \in Threads /\ pc \in [Threads -> Steps] /\ UNCHANGED g_work_queue /\ pc[c] = "ocall"
  BY Sets, Zenon DEF TruthInv, PthreadTypeOK, CreateOcall, CreateOcallFails, descVars
<1>2. CASE CreateOcall(c)
  <2>1. PICK r \in Runners : pc[r] = "free" /\ pc' = [pc EXCEPT ![c] = "suspend", ![r] = "start"]
    BY <1>2, Zenon DEF CreateOcall
  <2>2. r \in Threads /\ r # c
    BY <1>1, <2>1, Sets, Zenon
  <2>3. /\ Waiting("start")' = Waiting("start") \cup {r} /\ r \notin Waiting("start")
        /\ Waiting("ocall")' = Waiting("ocall") \ {c} /\ c \in Waiting("ocall")
        /\ Waiting("pop")' = Waiting("pop")
        /\ Waiting("start") \in SUBSET Threads /\ Waiting("ocall") \in SUBSET Threads
    BY <1>1, <2>1, <2>2, Zenon DEF Waiting
  <2>4. /\ Cardinality(Waiting("start")') = Cardinality(Waiting("start")) + 1
        /\ Cardinality(Waiting("ocall")') = Cardinality(Waiting("ocall")) - 1
    BY <1>1, <2>2, <2>3, OneMore, Zenon
  <2> QED
    BY <1>1, <2>3, <2>4, Numbers DEF TaskForEveryRunner
<1>3. CASE CreateOcallFails(c)
  <2>1. pc' = [pc EXCEPT ![c] = "pop"]
    BY <1>3, Zenon DEF CreateOcallFails, Goto
  <2>2. /\ Waiting("pop")' = Waiting("pop") \cup {c} /\ c \notin Waiting("pop")
        /\ Waiting("ocall")' = Waiting("ocall") \ {c} /\ c \in Waiting("ocall")
        /\ Waiting("start")' = Waiting("start")
        /\ Waiting("pop") \in SUBSET Threads /\ Waiting("ocall") \in SUBSET Threads
    BY <1>1, <2>1, Zenon DEF Waiting
  <2>3. /\ Cardinality(Waiting("pop")') = Cardinality(Waiting("pop")) + 1
        /\ Cardinality(Waiting("ocall")') = Cardinality(Waiting("ocall")) - 1
    BY <1>1, <2>2, OneMore, Zenon
  <2> QED
    BY <1>1, <2>2, <2>3, Numbers DEF TaskForEveryRunner
<1> QED
  BY <1>2, <1>3, Zenon

\* Whoever asks finds a task and takes one.
LEMMA AskerTakes ==
    ASSUME TruthInv, TaskForEveryRunner, NEW t \in Threads, NEW y, Goto(t, y),
           NEW x \in {"start", "pop"}, pc[t] = x, y \notin {"start", "ocall", "pop"},
           g_work_queue' = TakeFirst
    PROVE  TaskForEveryRunner'
<1>1. /\ pc \in [Threads -> Steps] /\ g_work_queue \in Seq(Descriptors)
      /\ pc' = [pc EXCEPT ![t] = y] /\ Once
  BY Zenon DEF TruthInv, PthreadTypeOK, Goto, Places, PlaceOf
<1>2. ASSUME Len(g_work_queue) # 0
      PROVE  Len(g_work_queue') = Len(g_work_queue) - 1 /\ Len(g_work_queue) \in Nat
  BY <1>1, <1>2, FirstTaken
<1>3. CASE x = "start"
  <2>1. /\ Waiting("start")' = Waiting("start") \ {t} /\ t \in Waiting("start")
        /\ Waiting("ocall")' = Waiting("ocall") /\ Waiting("pop")' = Waiting("pop")
        /\ Waiting("start") \in SUBSET Threads
    BY <1>1, <1>3, Zenon DEF Waiting
  <2>2. /\ Cardinality(Waiting("start")') = Cardinality(Waiting("start")) - 1
        /\ Cardinality(Waiting("start")) # 0
    BY <2>1, OneMore, Zenon
  <2> QED
    BY <1>2, <2>1, <2>2, Numbers DEF TaskForEveryRunner
<1>4. CASE x = "pop"
  <2>1. /\ Waiting("pop")' = Waiting("pop") \ {t} /\ t \in Waiting("pop")
        /\ Waiting("ocall")' = Waiting("ocall") /\ Waiting("start")' = Waiting("start")
        /\ Waiting("pop") \in SUBSET Threads
    BY <1>1, <1>4, Zenon DEF Waiting
  <2>2. /\ Cardinality(Waiting("pop")') = Cardinality(Waiting("pop")) - 1
        /\ Cardinality(Waiting("pop")) # 0
    BY <2>1, OneMore, Zenon
  <2> QED
    BY <1>2, <2>1, <2>2, Numbers DEF TaskForEveryRunner
<1> QED
  BY <1>3, <1>4, Zenon

LEMMA TaskInit == PthreadInit => TaskForEveryRunner
<1> SUFFICES ASSUME PthreadInit PROVE TaskForEveryRunner
  BY Zenon
<1>1. Waiting("start") = {} /\ Waiting("ocall") = {} /\ Waiting("pop") = {}
  BY Zenon DEF PthreadInit, Waiting
<1>2. Len(g_work_queue) = 0
  BY Zenon DEF PthreadInit
<1>3. Cardinality({}) = 0
  BY FS_EmptySet, Zenon
<1> QED
  BY <1>1, <1>2, <1>3 DEF TaskForEveryRunner

LEMMA TaskStep == TruthInv /\ TaskForEveryRunner /\ [PthreadNext]_vars => TaskForEveryRunner'
<1> SUFFICES ASSUME TruthInv, TaskForEveryRunner, [PthreadNext]_vars PROVE TaskForEveryRunner'
  BY Zenon
<1>1. ASSUME NEW c \in Creators, Create(c) \/ Join(c)
      PROVE  TaskForEveryRunner'
  <2>1. CASE Create(c)
    BY <2>1, CreateAsks, Zenon
  <2>2. CASE Join(c)
    <3>1. pc[c] = "idle" /\ Goto(c, "join") /\ UNCHANGED g_work_queue
      BY <2>2, Zenon DEF Join, descVars
    <3> QED
      BY <3>1, Sets, NobodyAsks, Zenon
  <2> QED
    BY <1>1, <2>1, <2>2, Zenon
<1>2. ASSUME NEW c \in Creators, PopOwn(c) \/ PopOther(c)
      PROVE  TaskForEveryRunner'
  <2>1. /\ pc[c] = "pop" /\ g_work_queue' = TakeFirst
        /\ \E y \in {"idle", "suspend", "mark"} : Goto(c, y)
    BY <1>2, Zenon DEF PopOwn, PopOther, CreateError, CreateReturns
  <2> QED
    BY <2>1, Sets, AskerTakes, Zenon
<1>3. ASSUME NEW c \in Creators,
             MarkOther(c) \/ NotifyOther(c) \/ Suspend(c) \/ PollPreparing(c)
             \/ PollStarted(c) \/ PollError(c) \/ JoinDone(c)
      PROVE  TaskForEveryRunner'
  <2>1. /\ pc[c] \in {"mark", "notify", "suspend", "poll", "join"} /\ UNCHANGED g_work_queue
        /\ \E y \in {"notify", "suspend", "poll", "idle"} : Goto(c, y)
    BY <1>3, Zenon DEF MarkOther, NotifyOther, Suspend, PollPreparing, PollStarted, PollError,
                JoinDone, CreateError, CreateReturns, descVars
  <2> QED
    BY <2>1, Sets, NobodyAsks, Zenon
<1>4. ASSUME NEW r \in Runners, RunnerStep(r)
      PROVE  TaskForEveryRunner'
  <2>1. CASE TakeTask(r)
    <3>1. /\ pc[r] = "start" /\ g_work_queue' = TakeFirst
          /\ \E y \in {"leave", "begin"} : Goto(r, y)
      BY <2>1, Zenon DEF TakeTask
    <3> QED
      BY <3>1, Sets, AskerTakes, Zenon
  <2>2. CASE BeginTask(r) \/ WakeCreator(r) \/ StartRoutine(r) \/ WakeupJoin(r) \/ Leave(r)
    <3>1. /\ pc[r] \in {"begin", "wake", "routine", "run", "leave"} /\ UNCHANGED g_work_queue
          /\ \E y \in {"wake", "routine", "run", "leave", "free"} : Goto(r, y)
      BY <2>2, Zenon DEF BeginTask, WakeCreator, StartRoutine, WakeupJoin, Leave, descVars
    <3> QED
      BY <3>1, Sets, NobodyAsks, Zenon
  <2> QED
    BY <1>4, <2>1, <2>2, Zenon DEF RunnerStep
<1>5. ASSUME (\E t \in Threads : WaitStep(t)) \/ (\E c \in Creators : JoinWait(c))
             \/ UNCHANGED vars
      PROVE  TaskForEveryRunner'
  <2>1. UNCHANGED <<g_work_queue, pc>>
    BY <1>5, QuietSteps, Zenon
  <2> QED
    BY <2>1, Zenon DEF TaskForEveryRunner, Waiting
<1>6. ASSUME NEW c \in Creators, CreatorStep(c) PROVE TaskForEveryRunner'
  BY <1>2, <1>3, <1>5, <1>6, CreateOcallAsks, Zenon DEF CreatorStep
<1>7. ASSUME NEW c \in Creators, PollFreed(c) PROVE TaskForEveryRunner'
  <2>1. UNCHANGED <<g_work_queue, pc>> \/ (Goto(c, "idle") /\ UNCHANGED g_work_queue)
    BY <1>7, Zenon DEF PollFreed, CreateReturns, descVars
  <2>2. pc[c] \in {"suspend", "poll"}
    BY <1>7, Zenon DEF PollFreed
  <2>3. CASE UNCHANGED <<g_work_queue, pc>>
    BY <2>3, Zenon DEF TaskForEveryRunner, Waiting
  <2> QED
    BY <2>1, <2>2, <2>3, Sets, NobodyAsks, Zenon
<1> QED
  BY <1>1, <1>4, <1>5, <1>6, <1>7, Zenon DEF PthreadNext

\* Every native thread that enters the enclave finds a task in g_work_queue,
\* however many creators fail and whichever descriptors they take out.
THEOREM EveryRunnerHasATask == PthreadSpec => []TaskForEveryRunner
BY TruthAlways, TaskInit, TaskStep, PTL DEF PthreadSpec

-----------------------------------------------------------------------------
(* Freed descriptors, on top of TruthInv.                                  *)

\* A descriptor that is queued, run, about to be given an error or being joined has
\* not been freed.  One that is being created has not, unless its thread was joined.
UsedIsLive == \A d \in Descriptors : Queued(d) \/ Held(d) => life[d] = "live"

CreatorLive(c) ==
    /\ pc[c] \in CreateSteps => life[at[c]] = "live" \/ at[c] \in early
    /\ pc[c] = "mark" => life[other[c]] = "live"
    /\ pc[c] = "notify" => state[other[c]] \in Errors
    /\ pc[c] = "join" => life[at[c]] = "live" /\ state[at[c]] \in {"EXECUTION", "WAKEDUP"}

OneJoiner ==
    \A c, e \in Creators : pc[c] = "join" /\ pc[e] = "join" /\ at[c] = at[e] => c = e

Excused == NoUseAfterFree /\ \A m \in misused : m[2] \in Descriptors

LiveInv ==
    /\ Excused
    /\ UsedIsLive
    /\ \A c \in Creators : CreatorLive(c)
    /\ OneJoiner

LEMMA LiveInit == PthreadInit => LiveInv
<1> SUFFICES ASSUME PthreadInit PROVE LiveInv
  BY Zenon
<1>1. \A d \in Descriptors : ~ Queued(d)
  BY DEF PthreadInit, Queued
<1>2. \A d \in Descriptors : ~ Held(d)
  BY Sets, Zenon DEF PthreadInit, Held
<1>3. \A c \in Creators : pc[c] = "idle"
  BY Sets, Zenon DEF PthreadInit
<1>4. Excused
  BY Zenon DEF PthreadInit, Excused, NoUseAfterFree
<1> QED
  BY <1>1, <1>2, <1>3, <1>4, Zenon DEF LiveInv, UsedIsLive, CreatorLive, OneJoiner, CreateSteps

\* A step that touches no freed descriptor.
LEMMA StillExcused ==
    ASSUME LiveInv, UNCHANGED misused, early \subseteq early',
           \A d \in Descriptors : state[d] \in Errors => state'[d] \in Errors
    PROVE  Excused'
BY Zenon DEF LiveInv, Excused, NoUseAfterFree

LEMMA TouchLive ==
    ASSUME NEW t, NEW d, Touch(t, d), life[d] = "live"
    PROVE  UNCHANGED misused
<1>1. life[d] # "freed"
  BY Zenon
<1> QED
  BY <1>1, Zenon DEF Touch

\* A step that touches one that is: a failed creator's, or one of a pthread_create.
LEMMA TouchExcused ==
    ASSUME LiveInv, NEW t, NEW d \in Descriptors, Touch(t, d), UNCHANGED <<state, early>>,
           \/ pc[t] = "notify" /\ state[d] \in Errors
           \/ pc[t] \in {"suspend", "poll"} /\ d \in early
    PROVE  Excused'
<1>1. CASE UNCHANGED misused
  BY <1>1, StillExcused, Zenon
<1>2. CASE misused' = misused \cup {<<pc[t], d>>}
  <2>1. Excused
    BY Zenon DEF LiveInv
  <2>2. \A m \in misused' : m \in misused \/ (m[1] = pc[t] /\ m[2] = d)
    BY <1>2
  <2> QED
    BY <2>1, <2>2, Zenon DEF Excused, NoUseAfterFree
<1> QED
  BY <1>1, <1>2, Zenon DEF Touch

\* A creator frees the descriptor that it is busy with, and returns; another creator
\* is busy with it only when it is creating the thread that this one has joined.
LEMMA FreeLive ==
    ASSUME TruthInv, LiveInv, NEW c \in Creators, NEW d \in Descriptors,
           pc[c] # "idle", at[c] = d, Goto(c, "idle"), at' = [at EXCEPT ![c] = None],
           Free(d), UNCHANGED <<state, other, misused>>, early \subseteq early',
           \A e \in Descriptors : Queued(e)' => Queued(e) /\ e # d,
           ~ Held(d),
           \A e \in Creators \ {c} : pc[e] \in CreateSteps /\ at[e] = d => d \in early',
           \A e \in Creators \ {c} : pc[e] = "join" => at[e] # d,
           \A e \in Creators : pc[e] = "mark" => other[e] # d
    PROVE  LiveInv'
<1>1. /\ c \in Threads /\ pc'[c] = "idle"
      /\ \A t \in Threads \ {c} : pc'[t] = pc[t] /\ at'[t] = at[t]
      /\ \A e \in Descriptors \ {d} : life'[e] = life[e]
  BY Sets, Zenon DEF TruthInv, PthreadTypeOK, Goto, Free
<1>2. \A e \in Creators \ {c} :
          /\ pc'[e] = pc[e] /\ at'[e] = at[e]
          /\ pc[e] # "idle" => at[e] \in Descriptors
          /\ pc[e] = "mark" => other[e] \in Descriptors \ {d}
  BY <1>1, Sets, Zenon DEF TruthInv, CreatorsBusy
<1>3. \A e \in Descriptors : Held(e)' <=> Held(e)
  BY <1>1, Sets, Zenon DEF Held
<1>4. UsedIsLive'
  BY <1>1, <1>3, Zenon DEF LiveInv, UsedIsLive
<1>5. ASSUME NEW e \in Creators \ {c} PROVE CreatorLive(e)'
  <2>1. CreatorLive(e)
    BY Zenon DEF LiveInv
  <2>2. pc[e] \in CreateSteps => life'[at[e]] = "live" \/ at[e] \in early'
    <3>1. CASE at[e] = d
      BY <3>1, Zenon
    <3>2. CASE at[e] # d
      BY <1>1, <1>2, <2>1, <3>2, Zenon DEF CreatorLive, CreateSteps
    <3> QED
      BY <3>1, <3>2, Zenon
  <2>3. pc[e] = "mark" => life'[other[e]] = "live"
    BY <1>1, <1>2, <2>1, Zenon DEF CreatorLive
  <2>4. pc[e] = "join" => life'[at[e]] = "live"
    BY <1>1, <1>2, <2>1, Zenon DEF CreatorLive
  <2> QED
    BY <1>2, <2>1, <2>2, <2>3, <2>4, Zenon DEF CreatorLive
<1>6. CreatorLive(c)'
  BY <1>1, Zenon DEF CreatorLive, CreateSteps
<1>7. OneJoiner'
  BY <1>1, <1>2 DEF LiveInv, OneJoiner
<1>8. Excused'
  BY StillExcused, Zenon
<1> QED
  BY <1>4, <1>5, <1>6, <1>7, <1>8, Zenon DEF LiveInv

LEMMA PopOwnLive ==
    ASSUME TruthInv, LiveInv, NEW c \in Creators, PopOwn(c)
    PROVE  LiveInv'
<1> DEFINE d == at[c]
<1>1. /\ pc[c] = "pop" /\ g_work_queue # <<>> /\ Head(g_work_queue) = d
      /\ g_work_queue' = TakeFirst /\ Goto(c, "idle") /\ at' = [at EXCEPT ![c] = None]
      /\ Free(d) /\ UNCHANGED <<state, other, early, misused>>
  BY Zenon DEF PopOwn, CreateError, CreateReturns
<1>2. /\ d = at[c] /\ d \in Descriptors /\ Queued(d)
      /\ \A e : Queued(e)' <=> Queued(e) /\ e # d
  BY <1>1, FirstTaken, Zenon DEF TruthInv, PthreadTypeOK, Places, PlaceOf
<1>3. state[d] = "PREPARING" /\ ~ Held(d) /\ ~ Marked(d)
  BY <1>2, Zenon DEF TruthInv, Places, PlaceOf
<1>4. \A e \in Creators \ {c} : pc[e] \in CreateSteps => at[e] # d
  BY <1>1, Zenon DEF TruthInv, CreatorsBusy, CreateSteps
<1>5. \A e \in Creators : pc[e] = "join" => at[e] # d
  BY <1>3, Zenon DEF LiveInv, CreatorLive
<1>6. \A e \in Creators : pc[e] = "mark" => other[e] # d
  BY <1>3, Zenon DEF Marked
<1> HIDE DEF d
<1> QED
  BY <1>1, <1>2, <1>3, <1>4, <1>5, <1>6, FreeLive, Zenon

LEMMA PollErrorLive ==
    ASSUME TruthInv, LiveInv, NEW c \in Creators, PollError(c)
    PROVE  LiveInv'
<1> DEFINE d == at[c]
<1>1. /\ pc[c] = "poll" /\ state[d] \in Errors
      /\ Goto(c, "idle") /\ at' = [at EXCEPT ![c] = None]
      /\ Free(d) /\ UNCHANGED <<g_work_queue, state, other, early, misused>>
  BY Zenon DEF PollError, CreateError, CreateReturns
<1>2. d = at[c] /\ d \in Descriptors
  BY <1>1, Zenon DEF TruthInv, CreatorsBusy
<1>3. ~ Held(d) /\ ~ Queued(d) /\ ~ Marked(d)
  BY <1>1, <1>2, Zenon DEF TruthInv, Places, PlaceOf, Errors
<1>4. \A e \in Creators \ {c} : pc[e] \in CreateSteps => at[e] # d
  BY <1>1, Zenon DEF TruthInv, CreatorsBusy, CreateSteps
<1>5. \A e \in Creators : pc[e] = "join" => at[e] # d
  BY <1>1, Zenon DEF LiveInv, CreatorLive, Errors
<1>6. \A e \in Creators : pc[e] = "mark" => other[e] # d
  BY <1>3, Zenon DEF Marked
<1>7. \A e \in Descriptors : Queued(e)' => Queued(e) /\ e # d
  BY <1>1, <1>3, Zenon DEF Queued
<1> HIDE DEF d
<1> QED
  BY <1>1, <1>2, <1>3, <1>4, <1>5, <1>6, <1>7, FreeLive, Zenon

LEMMA JoinDoneLive ==
    ASSUME TruthInv, LiveInv, NEW c \in Creators, JoinDone(c)
    PROVE  LiveInv'
<1> DEFINE d == at[c]
<1>1. /\ pc[c] = "join" /\ state[d] = "WAKEDUP" /\ Touch(c, d)
      /\ Goto(c, "idle") /\ at' = [at EXCEPT ![c] = None]
      /\ Free(d) /\ UNCHANGED <<g_work_queue, state, other>>
      /\ early' = IF result[d] = "none" THEN early \cup {d} ELSE early
  BY Zenon DEF JoinDone
<1>2. /\ d = at[c] /\ d \in Descriptors /\ life[d] = "live" /\ early \subseteq early'
  BY <1>1, Zenon DEF TruthInv, CreatorsBusy, LiveInv, CreatorLive
<1>a. UNCHANGED misused
  BY <1>1, <1>2, TouchLive, Zenon
<1>3. ~ Held(d) /\ ~ Queued(d) /\ ~ Marked(d)
  BY <1>1, <1>2, Zenon DEF TruthInv, Places, PlaceOf
<1>4. \A e \in Creators \ {c} : pc[e] \in CreateSteps /\ at[e] = d => d \in early'
  <2>1. result[d] = "none" => d \in early'
    BY <1>1, Zenon
  <2> QED
    BY <2>1, Zenon DEF TruthInv, CreatorsBusy
<1>5. \A e \in Creators \ {c} : pc[e] = "join" => at[e] # d
  BY <1>1, Zenon DEF LiveInv, OneJoiner
<1>6. \A e \in Creators : pc[e] = "mark" => other[e] # d
  BY <1>3, Zenon DEF Marked
<1>7. \A e \in Descriptors : Queued(e)' => Queued(e) /\ e # d
  BY <1>1, <1>3, Zenon DEF Queued
<1> HIDE DEF d
<1> QED
  BY <1>1, <1>2, <1>a, <1>3, <1>4, <1>5, <1>6, <1>7, FreeLive, Zenon

LEMMA CreateLive ==
    ASSUME TruthInv, LiveInv, NEW c \in Creators, Create(c)
    PROVE  LiveInv'
<1>1. PICK d \in Descriptors :
          /\ life[d] = "unused" /\ life' = [life EXCEPT ![d] = "live"]
          /\ state' = [state EXCEPT ![d] = "PREPARING"]
          /\ g_work_queue' = Append(g_work_queue, d) /\ at' = [at EXCEPT ![c] = d]
  BY Zenon DEF Create
<1>2. /\ pc[c] = "idle" /\ pc' = [pc EXCEPT ![c] = "ocall"]
      /\ UNCHANGED <<other, early, misused>>
  BY Zenon DEF Create, Goto, history
<1>3. ~ Queued(d) /\ ~ Held(d)
  BY <1>1, Zenon DEF LiveInv, UsedIsLive
<1>4. \A e : Queued(e)' <=> Queued(e) \/ e = d
  BY <1>1, <1>3, LastQueued, Zenon DEF TruthInv, PthreadTypeOK, Places, PlaceOf
<1>5. /\ c \in Threads /\ pc'[c] = "ocall" /\ at'[c] = d /\ life'[d] = "live"
      /\ \A t \in Threads \ {c} : pc'[t] = pc[t] /\ at'[t] = at[t]
      /\ \A e \in Descriptors \ {d} : life'[e] = life[e] /\ state'[e] = state[e]
  BY <1>1, <1>2, Sets, Zenon DEF TruthInv, PthreadTypeOK
<1>6. \A e \in Creators \ {c} :
          /\ pc'[e] = pc[e] /\ at'[e] = at[e]
          /\ pc[e] # "idle" => at[e] \in Descriptors \ {d}
          /\ pc[e] \in {"mark", "notify"} => other[e] \in Descriptors \ {d}
  <2>1. state[d] \notin Errors
    BY <1>1, Zenon DEF TruthInv, Places, PlaceOf, Errors
  <2> QED
    BY <1>1, <1>5, <2>1, Sets DEF TruthInv, CreatorsBusy, LiveInv, CreatorLive
<1>7. \A e \in Descriptors : Held(e)' <=> Held(e)
  BY <1>5, Sets, Zenon DEF Held
<1>8. UsedIsLive'
  BY <1>4, <1>5, <1>7, Zenon DEF LiveInv, UsedIsLive
<1>9. ASSUME NEW e \in Creators PROVE CreatorLive(e)'
  <2>1. CreatorLive(e)
    BY Zenon DEF LiveInv
  <2> QED
    BY <1>2, <1>5, <1>6, <2>1 DEF CreatorLive, CreateSteps
<1>10. OneJoiner'
  BY <1>5, <1>6 DEF LiveInv, OneJoiner
<1>11. Excused'
  <2>1. \A e \in Descriptors : state[e] \in Errors => state'[e] \in Errors
    BY <1>1, <1>5, Zenon DEF TruthInv, Places, PlaceOf, Errors
  <2> QED
    BY <1>2, <2>1, StillExcused, Zenon
<1> QED
  BY <1>2, <1>8, <1>9, <1>10, <1>11, Zenon DEF LiveInv

\* A creator goes on inside pthread_create with no other's descriptor in hand.
LEMMA CreatorGoes ==
    ASSUME TruthInv, LiveInv, NEW c \in Creators, pc[c] \in CreateSteps,
           pc'[c] \in {"pop", "suspend", "poll"},
           \A e \in Creators \ {c} : pc'[e] = pc[e] /\ other'[e] = other[e],
           UNCHANGED <<g_work_queue, state, life, at, early>>, Excused'
    PROVE  LiveInv'
<1>1. \A e \in Descriptors : (Held(e)' <=> Held(e)) /\ (Queued(e)' <=> Queued(e))
  BY Zenon DEF Held, Queued
<1>2. UsedIsLive'
  BY <1>1, Zenon DEF LiveInv, UsedIsLive
<1>3. ASSUME NEW e \in Creators PROVE CreatorLive(e)'
  <2>1. CreatorLive(e)
    BY Zenon DEF LiveInv
  <2> QED
    BY <2>1, Zenon DEF CreatorLive, CreateSteps
<1>4. OneJoiner'
  BY Zenon DEF LiveInv, OneJoiner
<1> QED
  BY <1>2, <1>3, <1>4, Zenon DEF LiveInv

LEMMA CreatorGoesLive ==
    ASSUME TruthInv, LiveInv, NEW c \in Creators,
           CreateOcall(c) \/ CreateOcallFails(c) \/ NotifyOther(c) \/ Suspend(c)
           \/ PollPreparing(c) \/ (PopOther(c) /\ g_work_queue = <<>>)
    PROVE  LiveInv'
<1> USE Sets DEF CreateSteps
<1>1. /\ pc \in [Threads -> Steps] /\ other \in [Threads -> Descriptors \cup {None}]
      /\ UNCHANGED <<misused, early, state>> => Excused'
  BY StillExcused, Zenon DEF TruthInv, PthreadTypeOK
<1>2. CASE CreateOcall(c)
  <2>1. PICK r \in Runners : pc' = [pc EXCEPT ![c] = "suspend", ![r] = "start"]
    BY <1>2, Zenon DEF CreateOcall
  <2>2. pc'[c] = "suspend" /\ \A e \in Creators \ {c} : pc'[e] = pc[e]
    BY <1>1, <2>1, Zenon
  <2>3. pc[c] = "ocall" /\ UNCHANGED <<g_work_queue, state, life, at, other, early, misused>>
    BY <1>2, Zenon DEF CreateOcall, descVars, history
  <2> QED
    BY <1>1, <2>2, <2>3, CreatorGoes, Zenon
<1>3. CASE CreateOcallFails(c)
  <2>1. /\ pc[c] = "ocall" /\ pc' = [pc EXCEPT ![c] = "pop"]
        /\ UNCHANGED <<g_work_queue, state, life, at, other, early, misused>>
    BY <1>3, Zenon DEF CreateOcallFails, Goto, descVars, history
  <2> QED
    BY <1>1, <2>1, CreatorGoes, Zenon
<1>4. CASE NotifyOther(c)
  <2>1. /\ pc[c] = "notify" /\ pc' = [pc EXCEPT ![c] = "suspend"] /\ Touch(c, other[c])
        /\ other' = [other EXCEPT ![c] = None]
        /\ UNCHANGED <<g_work_queue, state, life, at, early>>
    BY <1>4, Zenon DEF NotifyOther, Goto, descVars
  <2>2. Excused'
    <3>1. other[c] \in Descriptors /\ state[other[c]] \in Errors
      BY <2>1, Zenon DEF TruthInv, CreatorsBusy, LiveInv, CreatorLive
    <3> QED
      BY <2>1, <3>1, TouchExcused, Zenon
  <2>3. pc'[c] = "suspend" /\ \A e \in Creators \ {c} : pc'[e] = pc[e] /\ other'[e] = other[e]
    BY <1>1, <2>1, Zenon
  <2> QED
    BY <2>1, <2>2, <2>3, CreatorGoes, Zenon
<1>5. CASE Suspend(c)
  <2>1. /\ pc[c] = "suspend" /\ pc' = [pc EXCEPT ![c] = "poll"]
        /\ UNCHANGED <<g_work_queue, state, life, at, other, early, misused>>
    BY <1>5, Zenon DEF Suspend, Goto, descVars, history
  <2> QED
    BY <1>1, <2>1, CreatorGoes, Zenon
<1>6. CASE PollPreparing(c)
  <2>1. /\ pc[c] = "poll" /\ pc' = [pc EXCEPT ![c] = "suspend"]
        /\ UNCHANGED <<g_work_queue, state, life, at, other, early, misused>>
    BY <1>6, Zenon DEF PollPreparing, Goto, descVars, history
  <2> QED
    BY <1>1, <2>1, CreatorGoes, Zenon
<1>7. CASE PopOther(c) /\ g_work_queue = <<>>
  <2>1. /\ pc[c] = "pop" /\ pc' = [pc EXCEPT ![c] = "suspend"]
        /\ UNCHANGED <<g_work_queue, state, life, at, other, early, misused>>
    BY <1>7, Zenon DEF PopOther, TakeFirst, Goto, history
  <2> QED
    BY <1>1, <2>1, CreatorGoes, Zenon
<1> QED
  BY <1>2, <1>3, <1>4, <1>5, <1>6, <1>7, Zenon

LEMMA PopOtherLive ==
    ASSUME TruthInv, LiveInv, NEW c \in Creators, PopOther(c), g_work_queue # <<>>
    PROVE  LiveInv'
<1> DEFINE d == Head(g_work_queue)
<1>1. /\ pc[c] = "pop" /\ pc' = [pc EXCEPT ![c] = "mark"] /\ other' = [other EXCEPT ![c] = d]
      /\ g_work_queue' = TakeFirst /\ UNCHANGED <<state, life, at, early, misused>>
  BY Zenon DEF PopOther, Goto, history
<1>2. d \in Descriptors /\ Queued(d) /\ \A e : Queued(e)' <=> Queued(e) /\ e # d
  BY <1>1, FirstTaken, Zenon DEF TruthInv, PthreadTypeOK, Places, PlaceOf
<1>3. /\ life[d] = "live" /\ Excused'
      /\ pc'[c] = "mark" /\ other'[c] = d
      /\ \A e \in Creators \ {c} : pc'[e] = pc[e] /\ other'[e] = other[e]
  BY <1>1, <1>2, Sets, StillExcused, Zenon DEF LiveInv, UsedIsLive, TruthInv, PthreadTypeOK
<1> HIDE DEF d
<1>4. \A e \in Descriptors : Held(e)' <=> Held(e)
  BY <1>1, Zenon DEF Held
<1>5. UsedIsLive'
  BY <1>1, <1>2, <1>4, Zenon DEF LiveInv, UsedIsLive
<1>6. ASSUME NEW e \in Creators PROVE CreatorLive(e)'
  <2>1. CreatorLive(e)
    BY Zenon DEF LiveInv
  <2> QED
    BY <1>1, <1>3, <2>1, Zenon DEF CreatorLive, CreateSteps
<1>7. OneJoiner'
  BY <1>1, <1>3 DEF LiveInv, OneJoiner
<1> QED
  BY <1>1, <1>3, <1>5, <1>6, <1>7, Zenon DEF LiveInv

LEMMA MarkOtherLive ==
    ASSUME TruthInv, LiveInv, NEW c \in Creators, MarkOther(c)
    PROVE  LiveInv'
<1> DEFINE d == other[c]
<1>1. /\ pc[c] = "mark" /\ pc' = [pc EXCEPT ![c] = "notify"] /\ Touch(c, d)
      /\ state' = [state EXCEPT ![d] = error[c]]
      /\ UNCHANGED <<g_work_queue, life, at, other, early>>
  BY Zenon DEF MarkOther, Goto
<1>2. d \in Descriptors /\ life[d] = "live" /\ error[c] \in Errors /\ state[d] = "PREPARING"
  BY <1>1, Zenon DEF TruthInv, CreatorsBusy, LiveInv, CreatorLive, Places, PlaceOf, Marked
<1>3. UNCHANGED misused
  BY <1>1, <1>2, TouchLive, Zenon
<1>4. /\ pc'[c] = "notify" /\ \A e \in Creators \ {c} : pc'[e] = pc[e]
      /\ state'[d] \in Errors /\ \A e \in Descriptors \ {d} : state'[e] = state[e]
  BY <1>1, <1>2, Sets, Zenon DEF TruthInv, PthreadTypeOK
<1>a. Excused'
  BY <1>1, <1>3, <1>4, StillExcused, Zenon
<1>5. UsedIsLive'
  BY <1>1, Zenon DEF LiveInv, UsedIsLive, Queued, Held
<1>6. ASSUME NEW e \in Creators PROVE CreatorLive(e)'
  <2>1. CreatorLive(e)
    BY Zenon DEF LiveInv
  <2> QED
    BY <1>1, <1>2, <1>4, <2>1 DEF CreatorLive, CreateSteps, TruthInv, CreatorsBusy
<1>7. OneJoiner'
  BY <1>1, <1>4 DEF LiveInv, OneJoiner
<1> QED
  BY <1>a, <1>5, <1>6, <1>7, Zenon DEF LiveInv

\* pthread_create returns and leaves the descriptor.
LEMMA PollReturnsLive ==
    ASSUME TruthInv, LiveInv, NEW c \in Creators,
           PollStarted(c) \/ (PollFreed(c) /\ CreateReturns(c, "unknown"))
    PROVE  LiveInv'
<1>1. /\ pc[c] \in {"suspend", "poll"} /\ pc' = [pc EXCEPT ![c] = "idle"]
      /\ at' = [at EXCEPT ![c] = None]
      /\ UNCHANGED <<g_work_queue, state, life, other, early>>
  BY Zenon DEF PollStarted, PollFreed, CreateReturns, Goto, descVars
<1>2. at[c] \in Descriptors /\ (life[at[c]] = "freed" => at[c] \in early)
  BY <1>1, Zenon DEF TruthInv, CreatorsBusy, LiveInv, CreatorLive, CreateSteps
<1>3. Excused'
  <2>1. CASE PollStarted(c)
    BY <1>1, <2>1, StillExcused, Zenon DEF PollStarted
  <2>2. CASE PollFreed(c)
    BY <1>1, <1>2, <2>2, TouchExcused, Zenon DEF PollFreed
  <2> QED
    BY <2>1, <2>2, Zenon
<1>4. pc'[c] = "idle" /\ \A t \in Threads \ {c} : pc'[t] = pc[t] /\ at'[t] = at[t]
  BY <1>1, Sets, Zenon DEF TruthInv, PthreadTypeOK
<1>5. \A e \in Creators \ {c} : pc'[e] = pc[e] /\ at'[e] = at[e]
  BY <1>4, Sets, Zenon
<1>6. \A e \in Descriptors : (Held(e)' <=> Held(e)) /\ (Queued(e)' <=> Queued(e))
  BY <1>1, <1>4, Sets, Zenon DEF Held, Queued
<1>7. UsedIsLive'
  BY <1>1, <1>6, Zenon DEF LiveInv, UsedIsLive
<1>8. ASSUME NEW e \in Creators PROVE CreatorLive(e)'
  <2>1. CreatorLive(e)
    BY Zenon DEF LiveInv
  <2>2. CASE e = c
    BY <1>4, <2>2 DEF CreatorLive, CreateSteps
  <2>3. CASE e # c
    BY <1>1, <1>5, <2>1, <2>3 DEF CreatorLive
  <2> QED
    BY <2>2, <2>3, Zenon
<1>9. OneJoiner'
  BY <1>4, <1>5, Zenon DEF LiveInv, OneJoiner
<1> QED
  BY <1>3, <1>7, <1>8, <1>9, Zenon DEF LiveInv

LEMMA PollFreedLive ==
    ASSUME TruthInv, LiveInv, NEW c \in Creators, PollFreed(c)
    PROVE  LiveInv'
<1>1. CASE UNCHANGED <<result, at, error, pc>>
  <2>1. /\ pc[c] \in {"suspend", "poll"} /\ life[at[c]] = "freed" /\ Touch(c, at[c])
        /\ UNCHANGED <<g_work_queue, state, life, other, early>>
    BY Zenon DEF PollFreed, descVars
  <2>2. at[c] \in Descriptors /\ at[c] \in early
    BY <2>1, Zenon DEF TruthInv, CreatorsBusy, LiveInv, CreatorLive, CreateSteps
  <2>3. Excused'
    BY <2>1, <2>2, TouchExcused, Zenon
  <2> QED
    BY <1>1, <2>1, <2>3, CreatorGoes, Zenon DEF CreateSteps
<1>2. CASE CreateReturns(c, "unknown")
  BY <1>2, PollReturnsLive, Zenon
<1> QED
  BY <1>1, <1>2, Zenon DEF PollFreed

LEMMA JoinLive ==
    ASSUME TruthInv, EndInv, LiveInv, NEW c \in Creators, Join(c)
    PROVE  LiveInv'
<1>1. PICK d \in Descriptors : Joinable(d) /\ at' = [at EXCEPT ![c] = d]
  BY Zenon DEF Join
<1>2. /\ pc[c] = "idle" /\ pc' = [pc EXCEPT ![c] = "join"]
      /\ UNCHANGED <<g_work_queue, state, life, other, early, misused>>
  BY Zenon DEF Join, Goto, descVars, history
<1>3. /\ life[d] = "live" /\ \A e \in Creators : pc[e] = "join" => at[e] # d
      /\ state[d] \in {"EXECUTION", "WAKEDUP"}
  BY <1>1, Zenon DEF Joinable, EndInv, TruthInv, Places, PlaceOf
<1>4. /\ pc'[c] = "join" /\ at'[c] = d
      /\ \A t \in Threads \ {c} : pc'[t] = pc[t] /\ at'[t] = at[t]
      /\ \A e \in Creators \ {c} : pc'[e] = pc[e] /\ at'[e] = at[e]
      /\ Excused'
  BY <1>1, <1>2, Sets, StillExcused, Zenon DEF TruthInv, PthreadTypeOK
<1>5. \A e \in Descriptors : (Held(e)' <=> Held(e)) /\ (Queued(e)' <=> Queued(e))
  BY <1>2, <1>4, Sets, Zenon DEF Held, Queued
<1>6. UsedIsLive'
  BY <1>2, <1>5, Zenon DEF LiveInv, UsedIsLive
<1>7. ASSUME NEW e \in Creators PROVE CreatorLive(e)'
  <2>1. CreatorLive(e)
    BY Zenon DEF LiveInv
  <2> QED
    BY <1>2, <1>3, <1>4, <2>1, Zenon DEF CreatorLive, CreateSteps
<1>8. OneJoiner'
  BY <1>3, <1>4 DEF LiveInv, OneJoiner
<1> QED
  BY <1>2, <1>4, <1>6, <1>7, <1>8, Zenon DEF LiveInv

\* A step of a native thread: it keeps or drops its descriptor, or takes a queued
\* one, and changes no descriptor that has an error.
LEMMA RunnerGoes ==
    ASSUME TruthInv, LiveInv, UNCHANGED <<life, other, early, misused>>,
           \A c \in Creators : pc'[c] = pc[c] /\ at'[c] = at[c],
           \A d \in Descriptors : state[d] \in Errors => state'[d] \in Errors,
           \A d \in Descriptors : state[d] \in {"EXECUTION", "WAKEDUP"} =>
               state'[d] \in {"EXECUTION", "WAKEDUP"},
           \A d \in Descriptors : Queued(d)' \/ Held(d)' => Queued(d) \/ Held(d)
    PROVE  LiveInv'
<1>1. \A c \in Creators : /\ pc[c] = "notify" => other[c] \in Descriptors
                          /\ pc[c] = "join" => at[c] \in Descriptors
  BY Zenon DEF TruthInv, CreatorsBusy
<1>2. UsedIsLive'
  BY Zenon DEF LiveInv, UsedIsLive
<1>3. ASSUME NEW c \in Creators PROVE CreatorLive(c)'
  <2>1. CreatorLive(c)
    BY Zenon DEF LiveInv
  <2> QED
    BY <1>1, <2>1, Zenon DEF CreatorLive
<1>4. OneJoiner'
  BY Zenon DEF LiveInv, OneJoiner
<1>5. Excused'
  BY StillExcused, Zenon
<1> QED
  BY <1>2, <1>3, <1>4, <1>5, Zenon DEF LiveInv

LEMMA RunnerLive ==
    ASSUME TruthInv, LiveInv, NEW r \in Runners, RunnerStep(r)
    PROVE  LiveInv'
<1>1. /\ r \in Threads /\ \A c \in Creators : c \in Threads /\ c # r
      /\ pc \in [Threads -> Steps] /\ at \in [Threads -> Descriptors \cup {None}]
      /\ state \in [Descriptors -> {"NONE", "PREPARING", "EXECUTION", "WAKEDUP"} \cup Errors]
  BY Sets, Zenon DEF TruthInv, PthreadTypeOK
<1>2. CASE TakeTask(r)
  <2>1. UNCHANGED <<life, other, early, state, misused>> /\ g_work_queue' = TakeFirst
    BY <1>2, Zenon DEF TakeTask, history
  <2>3. CASE g_work_queue = <<>>
    <3>1. UNCHANGED <<g_work_queue, at>> /\ pc' = [pc EXCEPT ![r] = "leave"]
      BY <1>2, <2>3, Zenon DEF TakeTask, TakeFirst, Goto
    <3>2. \A d \in Descriptors : Queued(d)' \/ Held(d)' => Queued(d) \/ Held(d)
      BY <3>1, Zenon DEF Queued, Held
    <3> QED
      BY <1>1, <2>1, <3>1, <3>2, RunnerGoes, Zenon
  <2>4. CASE g_work_queue # <<>>
    <3> DEFINE h == Head(g_work_queue)
    <3>1. at' = [at EXCEPT ![r] = h] /\ pc' = [pc EXCEPT ![r] = "begin"]
      BY <1>2, <2>4, Zenon DEF TakeTask, Goto
    <3>2. Queued(h) /\ \A d : Queued(d)' <=> Queued(d) /\ d # h
      BY <2>1, <2>4, FirstTaken, Zenon DEF TruthInv, PthreadTypeOK, Places, PlaceOf
    <3> HIDE DEF h
    <3>3. \A d \in Descriptors : Held(d)' => Held(d) \/ d = h
      BY <1>1, <3>1, Sets, Zenon DEF Held
    <3>4. \A d \in Descriptors : Queued(d)' \/ Held(d)' => Queued(d) \/ Held(d)
      BY <3>2, <3>3, Zenon
    <3>5. \A c \in Creators : pc'[c] = pc[c] /\ at'[c] = at[c]
      BY <1>1, <3>1, Zenon
    <3> QED
      BY <2>1, <3>4, <3>5, RunnerGoes, Zenon
  <2> QED
    BY <2>3, <2>4, Zenon
<1>3. CASE BeginTask(r) \/ WakeCreator(r) \/ StartRoutine(r)
  <2>1. /\ pc[r] \in {"begin", "wake", "routine"} /\ Touch(r, at[r])
        /\ UNCHANGED <<life, other, early, g_work_queue, at>>
        /\ \E y \in Steps : pc' = [pc EXCEPT ![r] = y]
        /\ UNCHANGED state \/ state' = [state EXCEPT ![at[r]] = "EXECUTION"]
    BY <1>3, Zenon DEF BeginTask, WakeCreator, StartRoutine, Goto, descVars, Steps, CreateSteps,
                        RunSteps
  <2>2. at[r] \in Descriptors /\ Held(at[r])
    BY <2>1, Zenon DEF TruthInv, RunnersBusy, RunSteps, Held
  <2>3. state[at[r]] \notin Errors /\ life[at[r]] = "live"
    BY <2>2, Zenon DEF TruthInv, Places, PlaceOf, LiveInv, UsedIsLive
  <2>4. UNCHANGED misused
    BY <2>1, <2>3, TouchLive, Zenon
  <2>5. /\ \A c \in Creators : pc'[c] = pc[c] /\ at'[c] = at[c]
        /\ \A d \in Descriptors : state[d] \in Errors => state'[d] = state[d]
        /\ \A d \in Descriptors : state[d] \in {"EXECUTION", "WAKEDUP"} =>
               state'[d] \in {"EXECUTION", "WAKEDUP"}
    BY <1>1, <2>1, <2>2, <2>3, Zenon
  <2>6. \A d \in Descriptors : Queued(d)' \/ Held(d)' => Queued(d) \/ Held(d)
    BY <2>1, Zenon DEF Queued, Held
  <2> QED
    BY <2>1, <2>4, <2>5, <2>6, RunnerGoes, Zenon
<1>4. CASE WakeupJoin(r)
  <2>1. /\ pc[r] = "run" /\ Touch(r, at[r]) /\ UNCHANGED <<life, other, early, g_work_queue>>
        /\ pc' = [pc EXCEPT ![r] = "leave"] /\ at' = [at EXCEPT ![r] = None]
        /\ state' = [state EXCEPT ![at[r]] = "WAKEDUP"]
    BY <1>4, Zenon DEF WakeupJoin, Goto
  <2>2. at[r] \in Descriptors /\ Held(at[r])
    BY <2>1, Zenon DEF TruthInv, RunnersBusy, RunSteps, Held
  <2>3. state[at[r]] \notin Errors /\ life[at[r]] = "live"
    BY <2>2, Zenon DEF TruthInv, Places, PlaceOf, LiveInv, UsedIsLive
  <2>4. UNCHANGED misused
    BY <2>1, <2>3, TouchLive, Zenon
  <2>5. /\ \A c \in Creators : pc'[c] = pc[c] /\ at'[c] = at[c]
        /\ \A d \in Descriptors : state[d] \in Errors => state'[d] = state[d]
        /\ \A d \in Descriptors : state[d] \in {"EXECUTION", "WAKEDUP"} =>
               state'[d] \in {"EXECUTION", "WAKEDUP"}
    BY <1>1, <2>1, <2>2, <2>3, Zenon
  <2>6. \A d \in Descriptors : Queued(d)' \/ Held(d)' => Queued(d) \/ Held(d)
    BY <1>1, <2>1, Sets, Zenon DEF Queued, Held
  <2> QED
    BY <2>1, <2>4, <2>5, <2>6, RunnerGoes, Zenon
<1>5. CASE Leave(r)
  <2>1. /\ UNCHANGED <<life, other, early, g_work_queue, at, state, misused>>
        /\ pc' = [pc EXCEPT ![r] = "free"]
    BY <1>5, Zenon DEF Leave, Goto, descVars, history
  <2>3. \A d \in Descriptors : Queued(d)' \/ Held(d)' => Queued(d) \/ Held(d)
    BY <2>1, Zenon DEF Queued, Held
  <2> QED
    BY <1>1, <2>1, <2>3, RunnerGoes, Zenon
<1> QED
  BY <1>2, <1>3, <1>4, <1>5, Zenon DEF RunnerStep

LEMMA QuietLive ==
    ASSUME TruthInv, LiveInv,
           (\E t \in Threads : WaitStep(t)) \/ (\E c \in Creators : JoinWait(c))
           \/ UNCHANGED vars
    PROVE  LiveInv'
<1>1. UNCHANGED <<g_work_queue, state, life, pc, at, other>>
  BY QuietSteps, Zenon
<1>2. UNCHANGED <<early, misused>>
  <2>1. CASE \E c \in Creators : JoinWait(c)
    <3>1. PICK c \in Creators : pc[c] = "join" /\ Touch(c, at[c]) /\ UNCHANGED early
      BY <2>1, Zenon DEF JoinWait
    <3>2. life[at[c]] = "live"
      BY <3>1, Zenon DEF LiveInv, CreatorLive
    <3> QED
      BY <3>1, <3>2, TouchLive, Zenon
  <2>2. CASE (\E t \in Threads : WaitStep(t)) \/ UNCHANGED vars
    BY <2>2, Zenon DEF WaitStep, TimedDec, TimedOut, ResetEvent, OtherEventStep, vars, history
  <2> QED
    BY <2>1, <2>2, Zenon
<1>3. \A d \in Descriptors : Queued(d)' \/ Held(d)' => Queued(d) \/ Held(d)
  BY <1>1, Zenon DEF Queued, Held
<1> QED
  BY <1>1, <1>2, <1>3, RunnerGoes, Zenon

LEMMA LiveStep ==
    ASSUME TruthInv, EndInv, LiveInv, [PthreadNext]_vars
    PROVE  LiveInv'
<1>1. ASSUME NEW c \in Creators, Create(c) \/ Join(c)
      PROVE  LiveInv'
  BY <1>1, CreateLive, JoinLive, Zenon
<1>2. ASSUME NEW c \in Creators, CreateOcall(c) \/ CreateOcallFails(c) \/ PopOwn(c)
                                 \/ PopOther(c) \/ MarkOther(c) \/ NotifyOther(c)
      PROVE  LiveInv'
  BY <1>2, CreatorGoesLive, PopOwnLive, PopOtherLive, MarkOtherLive, Zenon
<1>3. ASSUME NEW c \in Creators, Suspend(c) \/ PollPreparing(c) \/ PollStarted(c)
                                 \/ PollError(c) \/ JoinDone(c) \/ PollFreed(c)
      PROVE  LiveInv'
  BY <1>3, CreatorGoesLive, PollReturnsLive, PollErrorLive, JoinDoneLive, PollFreedLive, Zenon
<1>4. ASSUME NEW c \in Creators, CreatorStep(c) PROVE LiveInv'
  BY <1>2, <1>3, <1>4, QuietLive, Zenon DEF CreatorStep
<1> QED
  BY <1>1, <1>3, <1>4, RunnerLive, QuietLive, Zenon DEF PthreadNext

\* Whatever the schedule, and whoever is joined when: no thread reads or writes a
\* freed descriptor, except a failed creator that reads the creater_td of the
\* descriptor that it gave its error to, and a pthread_create whose thread was joined
\* before it returned.
THEOREM FreedIsUnused == PthreadSpec => []NoUseAfterFree
<1>1. TruthInv /\ EndInv /\ LiveInv /\ [PthreadNext]_vars => LiveInv'
  BY LiveStep, Zenon
<1>2. LiveInv => NoUseAfterFree
  BY Zenon DEF LiveInv, Excused
<1> QED
  BY <1>1, <1>2, TruthAlways, LiveInit, PTL DEF PthreadSpec

-----------------------------------------------------------------------------
(* The events.  A thread does not wait again before the reset of its last  *)
(* timed wait, wherever it is woken from.                                  *)

EventsTyped ==
    /\ se_event \in [Threads -> Int]
    /\ ostep \in [Threads -> OSteps]
    /\ owait \in [Threads -> {FALSE}]
    /\ timed \in [Threads -> BOOLEAN]

WaitsAreReset == \A t \in Threads : ostep[t] = "wait" => timed[t] = FALSE

\* The inductive invariant.
UsableInv == EventsTyped /\ WaitsAreReset /\ EventUsable

LEMMA UsableInit == PthreadInit => UsableInv
<1> SUFFICES ASSUME PthreadInit PROVE UsableInv
  OBVIOUS
<1>1. /\ se_event = [t \in Threads |-> 0] /\ ostep = [t \in Threads |-> "none"]
      /\ owait = [t \in Threads |-> FALSE] /\ timed = [t \in Threads |-> FALSE]
  BY Zenon DEF PthreadInit, EventInit
<1>2. EventsTyped
  BY <1>1 DEF EventsTyped, OSteps
<1>3. WaitsAreReset
  BY <1>1 DEF WaitsAreReset
<1>4. \A t \in Threads : se_event[t] = 0 /\ timed[t] = FALSE
  BY <1>1, Zenon
<1>5. EventUsable
  <2>1. 0 >= 0
    OBVIOUS
  <2> QED
    BY <1>4, <2>1, Zenon DEF EventUsable
<1> QED
  BY <1>2, <1>3, <1>5, Zenon DEF UsableInv

\* A step that changes no event: a thread that starts a wait has reset its last.
LEMMA SameUsable ==
    ASSUME UsableInv, UNCHANGED <<se_event, owait, timed>>,
           ostep' \in [Threads -> OSteps],
           \A t \in Threads : ostep'[t] = "wait" => ostep[t] = "wait" \/ timed[t] = FALSE
    PROVE  UsableInv'
<1>1. EventsTyped' /\ EventUsable'
  BY Zenon DEF UsableInv, EventsTyped, EventUsable
<1>2. WaitsAreReset'
  BY Zenon DEF UsableInv, WaitsAreReset
<1> QED
  BY <1>1, <1>2, Zenon DEF UsableInv

\* The steps of pthread_create, pthread_join and the created threads.
LEMMA CallUsable ==
    ASSUME UsableInv, NEW t \in Threads, timed' = timed,
           \/ UNCHANGED eventVars
           \/ Resumed(t) /\ OcallWait(t)
           \/ \E q : OcallSet(t, q)
    PROVE  UsableInv'
<1>1. ostep \in [Threads -> OSteps] /\ timed \in [Threads -> BOOLEAN]
  BY Zenon DEF UsableInv, EventsTyped
<1>2. CASE UNCHANGED eventVars
  BY <1>1, <1>2, SameUsable, Zenon DEF eventVars
<1>3. CASE Resumed(t) /\ OcallWait(t)
  <2>1. timed[t] = FALSE
    BY <1>1, <1>3, Zenon DEF Resumed
  <2>2. ostep' = [ostep EXCEPT ![t] = "wait"] /\ UNCHANGED <<se_event, owait>>
    BY <1>3, Zenon DEF OcallWait
  <2>3. ostep' \in [Threads -> OSteps]
    BY <1>1, <2>2, Zenon DEF OSteps
  <2>4. \A u \in Threads : ostep'[u] = "wait" => ostep[u] = "wait" \/ timed[u] = FALSE
    BY <1>1, <2>1, <2>2, Zenon
  <2> QED
    BY <2>2, <2>3, <2>4, SameUsable, Zenon
<1>4. CASE \E q : OcallSet(t, q)
  <2>1. ostep' = [ostep EXCEPT ![t] = "wake"] /\ UNCHANGED <<se_event, owait>>
    BY <1>4, Zenon DEF OcallSet
  <2>2. ostep' \in [Threads -> OSteps]
    BY <1>1, <2>1, Zenon DEF OSteps
  <2>3. \A u \in Threads : ostep'[u] = "wait" => ostep[u] = "wait"
    BY <1>1, <2>1
  <2> QED
    BY <2>1, <2>2, <2>3, SameUsable, Zenon
<1> QED
  BY <1>2, <1>3, <1>4, Zenon

\* The decrement: the event of a thread that was reset is not negative.
LEMMA TimedDecUsable ==
    ASSUME UsableInv, NEW t \in Threads, TimedDec(t)
    PROVE  UsableInv'
<1>1. EventsTyped /\ WaitsAreReset /\ EventUsable
  BY Zenon DEF UsableInv
<1>2. /\ ostep[t] = "wait"
      /\ se_event' = [se_event EXCEPT ![t] = @ - 1]
      /\ ostep' = [ostep EXCEPT ![t] = IF se_event[t] = 0 THEN "futexwait" ELSE "none"]
      /\ owait' = [owait EXCEPT ![t] = FALSE]
      /\ timed' = [timed EXCEPT ![t] = (se_event[t] = 0)]
  BY Zenon DEF TimedDec, EventDec
<1>3. se_event' \in [Threads -> Int]
  BY <1>1, <1>2 DEF EventsTyped
<1>4. ostep' \in [Threads -> OSteps] /\ owait' \in [Threads -> {FALSE}]
  BY <1>1, <1>2, Zenon DEF EventsTyped, OSteps
<1>5. timed' \in [Threads -> BOOLEAN]
  BY <1>1, <1>2, Zenon DEF EventsTyped
<1>6. ASSUME NEW u \in Threads
      PROVE  /\ ostep'[u] = "wait" => timed'[u] = FALSE
             /\ se_event'[u] >= IF timed'[u] THEN -1 ELSE 0
  <2>1. CASE u # t
    <3>1. ostep'[u] = ostep[u] /\ se_event'[u] = se_event[u] /\ timed'[u] = timed[u]
      BY <1>1, <1>2, <2>1, Zenon DEF EventsTyped
    <3> QED
      BY <1>1, <3>1, Zenon DEF WaitsAreReset, EventUsable
  <2>2. CASE u = t
    <3>1. timed[t] = FALSE
      BY <1>1, <1>2, Zenon DEF WaitsAreReset
    <3>2. se_event[t] >= 0
      BY <1>1, <3>1, Zenon DEF EventUsable
    <3>3. ostep'[t] = IF se_event[t] = 0 THEN "futexwait" ELSE "none"
      BY <1>1, <1>2, Zenon DEF EventsTyped
    <3>4. se_event[t] \in Int /\ se_event'[t] = se_event[t] - 1
      BY <1>1, <1>2 DEF EventsTyped
    <3>5. timed'[t] = (se_event[t] = 0)
      BY <1>1, <1>2, Zenon DEF EventsTyped
    <3>6. ostep'[t] # "wait"
      BY <3>3
    <3>7. CASE se_event[t] = 0
      <4>1. se_event'[t] >= -1
        BY <3>4, <3>7
      <4> QED
        BY <2>2, <3>5, <3>6, <3>7, <4>1, Zenon
    <3>8. CASE se_event[t] # 0
      <4>1. se_event'[t] >= 0
        BY <3>2, <3>4, <3>8
      <4> QED
        BY <2>2, <3>5, <3>6, <3>8, <4>1, Zenon
    <3> QED
      BY <3>7, <3>8, Zenon
  <2> QED
    BY <2>1, <2>2, Zenon
<1> QED
  BY <1>3, <1>4, <1>5, <1>6, Zenon DEF UsableInv, EventsTyped, WaitsAreReset, EventUsable

\* The compare-and-swap: an event of -1 goes back to 0.
LEMMA ResetUsable ==
    ASSUME UsableInv, NEW t \in Threads, ResetEvent(t)
    PROVE  UsableInv'
<1>1. EventsTyped /\ WaitsAreReset /\ EventUsable
  BY Zenon DEF UsableInv
<1>2. /\ ostep' = ostep /\ owait' = owait
      /\ se_event' = [se_event EXCEPT ![t] = IF @ = -1 THEN 0 ELSE @]
      /\ timed[t] /\ timed' = [timed EXCEPT ![t] = FALSE]
  BY Zenon DEF ResetEvent
<1>3. se_event' \in [Threads -> Int]
  BY <1>1, <1>2 DEF EventsTyped
<1>4. timed' \in [Threads -> BOOLEAN]
  BY <1>1, <1>2, Zenon DEF EventsTyped
<1>5. ASSUME NEW u \in Threads
      PROVE  /\ ostep'[u] = "wait" => timed'[u] = FALSE
             /\ se_event'[u] >= IF timed'[u] THEN -1 ELSE 0
  <2>1. CASE u # t
    <3>1. ostep'[u] = ostep[u] /\ se_event'[u] = se_event[u] /\ timed'[u] = timed[u]
      BY <1>1, <1>2, <2>1, Zenon DEF EventsTyped
    <3> QED
      BY <1>1, <3>1, Zenon DEF WaitsAreReset, EventUsable
  <2>2. CASE u = t
    <3>1. se_event[t] >= -1 /\ timed'[t] = FALSE
      BY <1>1, <1>2, Zenon DEF EventsTyped, EventUsable
    <3>2. /\ se_event[t] \in Int
          /\ se_event'[t] = IF se_event[t] = -1 THEN 0 ELSE se_event[t]
      BY <1>1, <1>2 DEF EventsTyped
    <3>3. se_event'[t] >= 0
      BY <3>1, <3>2
    <3> QED
      BY <2>2, <3>1, <3>3, Zenon
  <2> QED
    BY <2>1, <2>2, Zenon
<1> QED
  BY <1>1, <1>2, <1>3, <1>4, <1>5, Zenon
     DEF UsableInv, EventsTyped, WaitsAreReset, EventUsable

\* The other steps of the OCALLs: an event only grows, and no thread is sent
\* into a wait.
LEMMA OtherUsable ==
    ASSUME UsableInv, NEW t \in Threads, TimedOut(t) \/ OtherEventStep(t)
    PROVE  UsableInv'
<1>1. EventsTyped /\ WaitsAreReset /\ EventUsable
  BY Zenon DEF UsableInv
<1>2. /\ FutexInterrupted(t) \/ FutexWait(t) \/ EventInc(t) \/ FutexWake(t)
      /\ timed' = timed
  BY Zenon DEF TimedOut, OtherEventStep
<1>3. owait' = owait
  BY <1>2, Zenon DEF FutexInterrupted, FutexWait, EventInc, FutexWake
<1>4. AfterWake(t) \in {"wake", "none"}
  <2>1. ~ owait[t]
    BY <1>1, Zenon DEF EventsTyped
  <2> QED
    BY <2>1, Zenon DEF AfterWake
<1>5. PICK w : w = Head(otargets[t])
  OBVIOUS
<1>6. PICK a \in {"wake", "none"} : a = AfterWake(t)
  BY <1>4, Zenon
<1>7. ostep \in [Threads -> OSteps]
  BY <1>1, Zenon DEF EventsTyped
<1>8. /\ ostep' \in [Threads -> OSteps]
      /\ \A u \in Threads : ostep'[u] = "wait" => ostep[u] = "wait"
  <2>1. ASSUME NEW b \in {"none", "asleep", "futexwake", "wake"},
               ostep' = [ostep EXCEPT ![t] = b]
        PROVE  /\ ostep' \in [Threads -> OSteps]
               /\ \A u \in Threads : ostep'[u] = "wait" => ostep[u] = "wait"
    BY <1>7, <2>1 DEF OSteps
  <2>2. CASE FutexInterrupted(t) \/ FutexWait(t) \/ EventInc(t)
    <3>1. \E b \in {"none", "asleep", "futexwake", "wake"} : ostep' = [ostep EXCEPT ![t] = b]
      BY <1>4, <2>2, Zenon DEF FutexInterrupted, FutexWait, EventInc
    <3> QED
      BY <2>1, <3>1, Zenon
  <2>3. CASE FutexWake(t)
    <3>1. ostep' = [ostep EXCEPT ![t] = a, ![w] = IF @ = "asleep" THEN "none" ELSE @]
      BY <1>5, <1>6, <2>3, Zenon DEF FutexWake
    <3> QED
      BY <1>7, <3>1 DEF OSteps
  <2> QED
    BY <1>2, <2>2, <2>3, Zenon
<1>9. CASE EventInc(t)
  <2>1. se_event' = [se_event EXCEPT ![w] = @ + 1]
    BY <1>5, <1>9, Zenon DEF EventInc
  <2>2. /\ se_event' \in [Threads -> Int]
        /\ \A u \in Threads : se_event'[u] >= se_event[u]
    <3>1. se_event \in [Threads -> Int]
      BY <1>1, Zenon DEF EventsTyped
    <3>2. CASE w \in Threads
      BY <2>1, <3>1, <3>2
    <3>3. CASE w \notin Threads
      <4>1. se_event' = se_event
        BY <2>1, <3>1, <3>3, Zenon
      <4> QED
        BY <3>1, <4>1
    <3> QED
      BY <3>2, <3>3, Zenon
  <2>3. \A u \in Threads : se_event'[u] >= IF timed'[u] THEN -1 ELSE 0
    <3> SUFFICES ASSUME NEW u \in Threads
                 PROVE  se_event'[u] >= IF timed'[u] THEN -1 ELSE 0
      OBVIOUS
    <3>1. PICK m \in {-1, 0} : m = IF timed[u] THEN -1 ELSE 0
      BY Zenon
    <3>2. se_event[u] >= m
      BY <1>1, <3>1, Zenon DEF EventUsable
    <3>3. se_event[u] \in Int /\ se_event'[u] \in Int /\ se_event'[u] >= se_event[u]
      BY <1>1, <2>2, Zenon DEF EventsTyped
    <3>4. se_event'[u] >= m
      BY <3>2, <3>3
    <3> QED
      BY <1>2, <3>1, <3>4, Zenon
  <2> QED
    BY <1>1, <1>2, <1>3, <1>8, <2>2, <2>3, Zenon
       DEF UsableInv, EventsTyped, WaitsAreReset, EventUsable
<1>10. CASE FutexInterrupted(t) \/ FutexWait(t) \/ FutexWake(t)
  <2>1. se_event' = se_event
    BY <1>10, Zenon DEF FutexInterrupted, FutexWait, FutexWake
  <2> QED
    BY <1>2, <1>3, <1>8, <2>1, SameUsable, Zenon
<1> QED
  BY <1>2, <1>9, <1>10, Zenon

LEMMA UsableStep == UsableInv /\ [PthreadNext]_vars => UsableInv'
<1> SUFFICES ASSUME UsableInv, [PthreadNext]_vars PROVE UsableInv'
  BY Zenon
<1>1. ASSUME NEW t \in Threads, WaitStep(t) PROVE UsableInv'
  BY <1>1, TimedDecUsable, ResetUsable, OtherUsable, Zenon DEF WaitStep
<1>2. ASSUME NEW c \in Creators, Create(c) \/ Join(c) \/ CreatorStep(c) \/ PollFreed(c)
      PROVE  UsableInv'
  <2>1. c \in Threads
    BY Sets, Zenon
  <2>2. /\ timed' = timed
        /\ \/ UNCHANGED eventVars
           \/ Resumed(c) /\ OcallWait(c)
           \/ \E q : OcallSet(c, q)
    BY <1>2, Zenon DEF CreatorStep, Create, Join, CreateOcall, CreateOcallFails, PopOwn,
           PopOther, MarkOther, NotifyOther, Suspend, PollPreparing, PollStarted, PollError,
           JoinWait, JoinDone, PollFreed, OwnIsThere
  <2> QED
    BY <2>1, <2>2, CallUsable, Zenon
<1>3. ASSUME NEW r \in Runners, RunnerStep(r) PROVE UsableInv'
  <2>1. r \in Threads
    BY Sets, Zenon
  <2>2. /\ timed' = timed
        /\ UNCHANGED eventVars \/ \E q : OcallSet(r, q)
    BY <1>3, Zenon DEF RunnerStep, TakeTask, BeginTask, WakeCreator, StartRoutine, WakeupJoin,
           Leave
  <2> QED
    BY <2>1, <2>2, CallUsable, Zenon
<1>4. CASE UNCHANGED vars
  BY <1>4, SameUsable, Zenon DEF vars, eventVars, UsableInv, EventsTyped
<1> QED
  BY <1>1, <1>2, <1>3, <1>4, Zenon DEF PthreadNext

\* The compare-and-swap at the end of se_event_wait_timeout keeps every event
\* usable, for any number of threads, wake-ups and timeouts: below zero only while
\* its own thread is in a timed wait, and then -1, so that the next wait sleeps.
THEOREM EventsStayUsable == PthreadSpec => []EventUsable
<1>1. UsableInv => EventUsable
  BY Zenon DEF UsableInv
<1> QED
  BY <1>1, UsableInit, UsableStep, PTL DEF PthreadSpec

=============================================================================
