----------------------- MODULE EnclaveLifecycleProofs -----------------------
(***************************************************************************)
(* Proofs about EnclaveLifecycle, for every finite set of threads, with or *)
(* without EDMM, and every depth of nested calls: no thread is inside an   *)
(* enclave that has been destroyed, m_ref counts the calls that use the    *)
(* CEnclave, and the CEnclave is deleted once and not used afterwards.     *)
(***************************************************************************)
EXTENDS EnclaveLifecycle, FiniteSetTheorems, TLAPS

\* The innermost call of each thread, as a function of the thread.
TopOf(s) == IF s = <<>> THEN None ELSE s[Len(s)]
TopsIn(st) == [t \in Threads |-> TopOf(st[t])]
Tops == TopsIn(stack)

\* The frames that hold a reference, and the calls that are at one of them.
Counted == EcallFrames \cup {"edmm", "uninit", "uninitin", "unref"}
Uses(st) ==
    {u \in Threads \X (1..MaxDepth) : u[2] \in 1..Len(st[u[1]]) /\ st[u[1]][u[2]] \in Counted}

\* The types of the variables other than stack and m_ref.
FlagTypeOK ==
    /\ edmm \in BOOLEAN /\ prompt \in BOOLEAN
    /\ listed \in BOOLEAN /\ m_zombie \in BOOLEAN /\ m_destroyed \in BOOLEAN
    /\ m_enclave_mutex \in Threads \cup {None}
CountTypeOK ==
    /\ deleted \in Nat
    /\ readers \in [Threads -> Nat]
    /\ event \in [Threads -> Int]
    /\ child \in [Threads -> Threads \cup {None}]
    /\ work \in [Threads -> 0..MaxWork]

\* Only a call in an ocall has another call inside it.
Nested(s) ==
    /\ s \in Seq(Frames)
    /\ Len(s) <= MaxDepth
    /\ \A i \in 1..Len(s) : i < Len(s) => s[i] = "ocall"

Shape(st) == st \in [Threads -> Seq(Frames)] /\ \A t \in Threads : Nested(st[t])
ShapeInv == Shape(stack)

\* m_ref is the number of calls that hold a reference.
RefInv == m_ref = Cardinality(Uses(stack))

\* A thread holds one read lock while it executes in the enclave, and none
\* otherwise; m_destroyed is set only when nobody does.
LockInv ==
    /\ \A t \in Threads :
           readers[t] = IF Tops[t] \in {"inside", "uninitin"} THEN 1 ELSE 0
    /\ m_destroyed => \A t \in Threads : Tops[t] \notin {"inside", "uninitin"}

\* remove_enclave holds the mutex while it destroys a listed enclave.
MutexInv ==
    /\ \A t \in Threads : m_enclave_mutex = t <=> Tops[t] \in {"wtlock", "destroyed"}
    /\ m_enclave_mutex # None => listed

\* A careful application starts no thread beside a sgx_destroy_enclave, so
\* a thread that has no reference yet finds the enclave in the list.
StartInv ==
    Careful => \A p \in Threads : Tops[p] = "start" =>
        listed /\ \A t \in Threads : Tops[t] \notin DestroyFrames

\* Where the CEnclave is: listed; a zombie that a call still uses; about to be
\* deleted by the one thread that removed it; or deleted, with no reference left.
Listed == listed /\ ~ m_zombie /\ deleted = 0 /\ \A t \in Threads : Tops[t] # "delete"
Zombie == ~ listed /\ m_zombie /\ m_ref > 0 /\ deleted = 0 /\ \A t \in Threads : Tops[t] # "delete"
Doomed == /\ ~ listed /\ ~ m_zombie /\ m_ref = 0 /\ deleted = 0
          /\ \E d \in Threads : \A t \in Threads : Tops[t] = "delete" <=> t = d
Gone == ~ listed /\ m_ref = 0 /\ deleted = 1 /\ \A t \in Threads : Tops[t] # "delete"
PhaseInv == Careful => Listed \/ Zombie \/ Doomed \/ Gone

LifeInv == /\ FlagTypeOK /\ CountTypeOK /\ ShapeInv /\ RefInv
           /\ LockInv /\ MutexInv /\ StartInv /\ PhaseInv

-----------------------------------------------------------------------------
(* Facts about the stacks: what Push, Pop and Goto do to the innermost     *)
(* call, to the shape of a stack, and to the number of references.         *)

LEMMA UsesFinite ==
    ASSUME NEW st
    PROVE  IsFiniteSet(Uses(st)) /\ Cardinality(Uses(st)) \in Nat
<1>1. IsFiniteSet(1..MaxDepth)
  BY FS_Interval, LifeAssumption
<1>2. IsFiniteSet(Threads \X (1..MaxDepth))
  BY <1>1, FS_Product, LifeAssumption, Zenon
<1> QED
  BY <1>2, FS_Subset, FS_CardinalityType, Zenon DEF Uses

LEMMA OneMoreUse ==
    ASSUME NEW r, NEW s, NEW u, Uses(s) = Uses(r) \cup {u}, u \notin Uses(r)
    PROVE  Cardinality(Uses(s)) = Cardinality(Uses(r)) + 1
BY UsesFinite, FS_AddElement, Zenon

LEMMA TopsAre ==
    ASSUME ShapeInv, NEW t \in Threads
    PROVE  /\ Tops[t] = Top(t)
           /\ stack[t] = <<>> <=> Tops[t] = None
           /\ stack[t] # <<>> => Tops[t] = stack[t][Len(stack[t])] /\ Tops[t] \in Frames
           /\ stack[t] # <<>> => Len(stack[t]) \in 1..MaxDepth
BY LifeAssumption, NoneAssumption DEF Tops, TopsIn, TopOf, Top, ShapeInv, Shape, Nested

LEMMA ReplacedFrame ==
    ASSUME NEW s \in Seq(Frames), NEW n \in 1..Len(s), NEW f \in Frames,
           NEW r, r = [s EXCEPT ![n] = f]
    PROVE  /\ r \in Seq(Frames) /\ Len(r) = Len(s) /\ r[n] = f
           /\ \A i \in 1..Len(s) : i # n => r[i] = s[i]
OBVIOUS

\* r is st after Push(t, f), or after Goto(t, f).
PushedTo(st, t, f, r) == r = [st EXCEPT ![t] = Append(@, f)]
WentTo(st, t, f, r) == r = [st EXCEPT ![t][Len(st[t])] = f]

\* What Push does, from stack or from a stack in between.
LEMMA PushFacts ==
    ASSUME NEW st, Shape(st), NEW t \in Threads, NEW f \in Frames, Len(st[t]) < MaxDepth,
           TopsIn(st)[t] \in {None, "ocall"}, NEW r, PushedTo(st, t, f, r)
    PROVE  /\ Shape(r)
           /\ TopsIn(r) = [TopsIn(st) EXCEPT ![t] = f]
           /\ f \in Counted => Cardinality(Uses(r)) = Cardinality(Uses(st)) + 1
           /\ f \notin Counted => Uses(r) = Uses(st)
<1> DEFINE n == Len(st[t])
<1>1. n \in Nat /\ n + 1 \in 1..MaxDepth /\ st[t] \in Seq(Frames)
  BY LifeAssumption DEF Shape
<1>2. /\ r \in [Threads -> Seq(Frames)]
      /\ \A u \in Threads \ {t} : r[u] = st[u]
      /\ Len(r[t]) = n + 1
      /\ \A i \in 1..n : r[t][i] = st[t][i]
      /\ r[t][n + 1] = f
  BY <1>1 DEF Shape, PushedTo
<1>3. n # 0 => st[t][n] = "ocall"
  <2>1. n # 0 => st[t] # <<>> /\ st[t][n] \in Frames
    BY <1>1
  <2> QED
    BY <2>1, NoneAssumption, Zenon DEF TopsIn, TopOf
<1>4. Nested(r[t])
  <2>1. \A i \in 1..n : i < n => st[t][i] = "ocall"
    BY Zenon DEF Shape, Nested
  <2>2. r[t] \in Seq(Frames)
    BY <1>2, Zenon
  <2> HIDE DEF n
  <2>3. \A i \in 1..n : r[t][i] = "ocall"
    BY <1>1, <1>2, <1>3, <2>1
  <2> QED
    BY <1>1, <1>2, <2>2, <2>3 DEF Nested
<1>5. Shape(r)
  BY <1>2, <1>4, Zenon DEF Shape
<1>6. TopsIn(r) = [TopsIn(st) EXCEPT ![t] = f]
  <2>1. TopOf(r[t]) = f
    BY <1>1, <1>2 DEF TopOf
  <2> QED
    BY <1>2, <2>1, Zenon DEF TopsIn
<1>7. Uses(r) = IF f \in Counted THEN Uses(st) \cup {<<t, n + 1>>} ELSE Uses(st)
  BY <1>1, <1>2 DEF Uses
<1>8. <<t, n + 1>> \notin Uses(st)
  BY <1>1 DEF Uses
<1> QED
  BY <1>5, <1>6, <1>7, <1>8, OneMoreUse, Zenon

LEMMA PushedFacts ==
    ASSUME ShapeInv, NEW t \in Threads, NEW f \in Frames, Len(stack[t]) < MaxDepth,
           Tops[t] \in {None, "ocall"}, Push(t, f)
    PROVE  /\ ShapeInv'
           /\ Tops' = [Tops EXCEPT ![t] = f]
           /\ f \in Counted => Cardinality(Uses(stack')) = Cardinality(Uses(stack)) + 1
           /\ f \notin Counted => Uses(stack') = Uses(stack)
<1>1. PICK r : r = stack' /\ PushedTo(stack, t, f, r)
  BY Zenon DEF Push, PushedTo
<1>2. Shape(stack) /\ TopsIn(stack)[t] \in {None, "ocall"}
  BY Zenon DEF ShapeInv, Tops
<1>3. /\ Shape(r) /\ TopsIn(r) = [TopsIn(stack) EXCEPT ![t] = f]
      /\ f \in Counted => Cardinality(Uses(r)) = Cardinality(Uses(stack)) + 1
      /\ f \notin Counted => Uses(r) = Uses(stack)
  BY <1>1, <1>2, PushFacts, Zenon
<1> QED
  BY <1>1, <1>3, Zenon DEF ShapeInv, Tops

LEMMA PopFacts ==
    ASSUME NEW st, Shape(st), NEW t \in Threads, st[t] # <<>>,
           NEW r, r = [st EXCEPT ![t] = SubSeq(@, 1, Len(@) - 1)]
    PROVE  /\ Shape(r)
           /\ \E g \in {None, "ocall"} : TopsIn(r) = [TopsIn(st) EXCEPT ![t] = g]
           /\ TopsIn(st)[t] \in Counted => Cardinality(Uses(r)) + 1 = Cardinality(Uses(st))
           /\ TopsIn(st)[t] \notin Counted => Uses(r) = Uses(st)
<1> DEFINE n == Len(st[t])
           s == SubSeq(st[t], 1, n - 1)
<1>1. /\ n \in 1..MaxDepth /\ n - 1 \in Nat
      /\ st[t] \in Seq(Frames) /\ TopsIn(st)[t] = st[t][n]
  BY LifeAssumption DEF Shape, Nested, TopsIn, TopOf
<1>2. s \in Seq(Frames) /\ Len(s) = n - 1 /\ \A i \in 1..(n - 1) : s[i] = st[t][i]
  BY <1>1
<1>3. /\ r \in [Threads -> Seq(Frames)]
      /\ \A u \in Threads \ {t} : r[u] = st[u]
      /\ r[t] = s
  BY <1>2, Zenon DEF Shape
<1>4. \A i \in 1..n : i < n => st[t][i] = "ocall"
  BY Zenon DEF Shape, Nested
<1> HIDE DEF s, n
<1>5. \A i \in 1..(n - 1) : s[i] = "ocall"
  BY <1>1, <1>2, <1>4
<1>6. Shape(r)
  <2>1. n - 1 <= MaxDepth
    BY <1>1, LifeAssumption
  <2>2. Nested(r[t])
    BY <1>2, <1>3, <1>5, <2>1, Zenon DEF Nested
  <2> QED
    BY <1>3, <2>2, Zenon DEF Shape
<1>7. \E g \in {None, "ocall"} : TopsIn(r) = [TopsIn(st) EXCEPT ![t] = g]
  <2>1. TopOf(r[t]) \in {None, "ocall"}
    BY <1>1, <1>2, <1>3, <1>5 DEF TopOf
  <2> QED
    BY <1>3, <2>1, Zenon DEF TopsIn
<1>8. Uses(st) = IF TopsIn(st)[t] \in Counted THEN Uses(r) \cup {<<t, n>>} ELSE Uses(r)
  BY <1>1, <1>2, <1>3 DEF Uses, n
<1>9. <<t, n>> \notin Uses(r)
  BY <1>1, <1>2, <1>3 DEF Uses, n
<1> QED
  BY <1>6, <1>7, <1>8, <1>9, OneMoreUse, UsesFinite, Zenon

\* What Goto does, on the way to stack' or to a stack in between.
LEMMA GotoFacts ==
    ASSUME ShapeInv, NEW t \in Threads, stack[t] # <<>>, NEW f \in Frames,
           NEW r, WentTo(stack, t, f, r)
    PROVE  /\ Shape(r)
           /\ TopsIn(r) = [Tops EXCEPT ![t] = f]
           /\ Tops[t] \in Counted /\ f \notin Counted
                  => Cardinality(Uses(r)) + 1 = Cardinality(Uses(stack))
           /\ Tops[t] \notin Counted /\ f \in Counted
                  => Cardinality(Uses(r)) = Cardinality(Uses(stack)) + 1
           /\ (Tops[t] \in Counted <=> f \in Counted) => Uses(r) = Uses(stack)
<1> DEFINE n == Len(stack[t])
<1>1. n \in 1..MaxDepth /\ stack[t] \in Seq(Frames) /\ Tops[t] = stack[t][n]
  BY LifeAssumption, TopsAre, Zenon DEF ShapeInv, Shape
<1>2. /\ r \in [Threads -> Seq(Frames)]
      /\ \A u \in Threads \ {t} : r[u] = stack[u]
      /\ Len(r[t]) = n
      /\ \A i \in 1..n : i # n => r[t][i] = stack[t][i]
      /\ r[t][n] = f
  BY <1>1 DEF ShapeInv, Shape, WentTo
<1>4. Nested(r[t])
  BY <1>1, <1>2 DEF Nested, ShapeInv, Shape
<1>5. Shape(r)
  BY <1>2, <1>4, Zenon DEF ShapeInv, Shape
<1>6. TopsIn(r) = [Tops EXCEPT ![t] = f]
  <2>1. TopOf(r[t]) = f
    BY <1>1, <1>2 DEF TopOf
  <2> QED
    BY <1>2, <2>1, Zenon DEF Tops, TopsIn
<1>7. /\ \A u \in Threads \X (1..MaxDepth) : u # <<t, n>> => (u \in Uses(r) <=> u \in Uses(stack))
      /\ <<t, n>> \in Uses(stack) <=> Tops[t] \in Counted
      /\ <<t, n>> \in Uses(r) <=> f \in Counted
  BY <1>1, <1>2 DEF Uses
<1>8. Uses(stack) \subseteq Threads \X (1..MaxDepth) /\ Uses(r) \subseteq Threads \X (1..MaxDepth)
  BY Zenon DEF Uses
<1> HIDE DEF n
<1>9. (Tops[t] \in Counted <=> f \in Counted) => Uses(r) = Uses(stack)
  <2> SUFFICES ASSUME Tops[t] \in Counted <=> f \in Counted, NEW u
               PROVE  u \in Uses(r) <=> u \in Uses(stack)
    BY Zenon
  <2>1. CASE u = <<t, n>>
    BY <1>7, <2>1, Zenon
  <2>2. CASE u # <<t, n>>
    BY <1>7, <1>8, <2>2, Zenon
  <2> QED
    BY <2>1, <2>2, Zenon
<1>10. Tops[t] \in Counted /\ f \notin Counted => Uses(stack) = Uses(r) \cup {<<t, n>>}
  BY <1>1, <1>7, <1>8, Zenon
<1>11. Tops[t] \notin Counted /\ f \in Counted => Uses(r) = Uses(stack) \cup {<<t, n>>}
  BY <1>1, <1>7, <1>8, Zenon
<1> QED
  BY <1>5, <1>6, <1>7, <1>9, <1>10, <1>11, OneMoreUse, UsesFinite, Zenon

LEMMA WentFacts ==
    ASSUME ShapeInv, NEW t \in Threads, stack[t] # <<>>, NEW f \in Frames, Goto(t, f)
    PROVE  /\ ShapeInv'
           /\ Tops' = [Tops EXCEPT ![t] = f]
           /\ Tops[t] \in Counted /\ f \notin Counted
                  => Cardinality(Uses(stack')) + 1 = Cardinality(Uses(stack))
           /\ Tops[t] \notin Counted /\ f \in Counted
                  => Cardinality(Uses(stack')) = Cardinality(Uses(stack)) + 1
           /\ (Tops[t] \in Counted <=> f \in Counted) => Uses(stack') = Uses(stack)
<1>1. PICK r : r = stack' /\ WentTo(stack, t, f, r)
  BY Zenon DEF Goto, WentTo
<1>2. /\ Shape(r) /\ TopsIn(r) = [Tops EXCEPT ![t] = f]
      /\ Tops[t] \in Counted /\ f \notin Counted
             => Cardinality(Uses(r)) + 1 = Cardinality(Uses(stack))
      /\ Tops[t] \notin Counted /\ f \in Counted
             => Cardinality(Uses(r)) = Cardinality(Uses(stack)) + 1
      /\ (Tops[t] \in Counted <=> f \in Counted) => Uses(r) = Uses(stack)
  BY <1>1, GotoFacts, Zenon
<1> QED
  BY <1>1, <1>2, Zenon DEF ShapeInv, Tops

\* The threads that se_event_wake ends the wait of are back in their ocall.
LEMMA WakeFacts ==
    ASSUME ShapeInv, NEW S
    PROVE  /\ Shape(StacksWoken(S))
           /\ \A t \in Threads : TopsIn(StacksWoken(S))[t] =
                  IF t \in Woken(S) THEN "ocall" ELSE Tops[t]
           /\ Uses(StacksWoken(S)) = Uses(stack)
           /\ \A t \in Threads : t \in Woken(S) => Tops[t] = "asleep"
           /\ \A t \in Threads : t \notin Woken(S) => StacksWoken(S)[t] = stack[t]
<1> DEFINE w == StacksWoken(S)
<1>0. \A t \in Threads : t \in Woken(S) => Tops[t] = "asleep"
  BY TopsAre, Zenon DEF Woken
<1>1. \A t \in Threads : w[t] = IF t \in Woken(S)
                                THEN [stack[t] EXCEPT ![Len(stack[t])] = "ocall"]
                                ELSE stack[t]
  BY TopsAre, Zenon DEF StacksWoken
<1>2. ASSUME NEW t \in Threads, t \in Woken(S)
      PROVE  /\ w[t] \in Seq(Frames) /\ Nested(w[t]) /\ TopOf(w[t]) = "ocall"
             /\ Len(w[t]) = Len(stack[t])
             /\ \A i \in 1..Len(stack[t]) : w[t][i] \in Counted <=> stack[t][i] \in Counted
  <2>1. stack[t] # <<>> /\ stack[t][Len(stack[t])] = "asleep" /\ Len(stack[t]) \in 1..MaxDepth
    BY <1>0, <1>2, TopsAre, NoneAssumption, Zenon DEF Frames, EcallFrames
  <2>2. stack[t] \in Seq(Frames) /\ Nested(stack[t]) /\ "ocall" \in Frames
    BY Zenon DEF ShapeInv, Shape, Frames, EcallFrames
  <2>3. /\ w[t] \in Seq(Frames) /\ Len(w[t]) = Len(stack[t])
        /\ w[t][Len(stack[t])] = "ocall"
        /\ \A i \in 1..Len(stack[t]) : i # Len(stack[t]) => w[t][i] = stack[t][i]
    <3>1. w[t] = [stack[t] EXCEPT ![Len(stack[t])] = "ocall"]
      BY <1>1, <1>2, Zenon
    <3> QED
      BY <2>1, <2>2, <3>1, ReplacedFrame
  <2> HIDE DEF w
  <2>4. Nested(w[t]) /\ TopOf(w[t]) = "ocall"
    BY <2>1, <2>2, <2>3 DEF Nested, TopOf
  <2> QED
    BY <2>1, <2>3, <2>4, Zenon DEF Counted, EcallFrames
<1>3. ASSUME NEW t \in Threads, t \notin Woken(S)
      PROVE  w[t] = stack[t]
  BY <1>1, <1>3, Zenon
<1>4. w = [t \in Threads |-> w[t]]
  BY Zenon DEF StacksWoken
<1> HIDE DEF w
<1>5. Shape(w)
  BY <1>2, <1>3, <1>4, Zenon DEF ShapeInv, Shape
<1>6. \A t \in Threads : TopsIn(w)[t] =
          IF t \in Woken(S) THEN "ocall" ELSE Tops[t]
  BY <1>2, <1>3, Zenon DEF Tops, TopsIn
<1>7. Uses(w) = Uses(stack)
  BY <1>2, <1>3, Zenon DEF Uses
<1> QED
  BY <1>0, <1>3, <1>5, <1>6, <1>7, Zenon DEF w

-----------------------------------------------------------------------------
(* The inductive steps.  Most move one thread between calls that neither   *)
(* the mutex nor the deletion depends on.                                  *)

Special == {"wtlock", "destroyed", "delete", "start"}

LEMMA TopsType ==
    ASSUME ShapeInv
    PROVE  Tops \in [Threads -> Frames \cup {None}]
BY DEF Tops, TopsIn, TopOf, ShapeInv, Shape, Nested

LEMMA QuietStep ==
    ASSUME LifeInv, NEW t \in Threads, NEW f, f \notin Special,
           Tops' = [Tops EXCEPT ![t] = f], Tops[t] \notin Special,
           UNCHANGED <<listed, m_zombie, m_destroyed, m_enclave_mutex, deleted>>,
           m_ref' = m_ref \/ listed,
           Careful /\ f \in DestroyFrames =>
               Tops[t] \in DestroyFrames \/ \A p \in Threads : Tops[p] # "start"
    PROVE  MutexInv' /\ StartInv' /\ PhaseInv'
<1> USE DEF LifeInv, Special
<1>1. /\ Tops'[t] = f
      /\ \A u \in Threads \ {t} : Tops'[u] = Tops[u]
  BY TopsType, Zenon
<1>2. \A u \in Threads, g \in Special : Tops'[u] = g <=> Tops[u] = g
  BY <1>1, Zenon
<1>3. MutexInv'
  BY <1>2, Zenon DEF MutexInv
<1>4. StartInv'
  BY <1>1, <1>2, Zenon DEF StartInv
<1>5. \A u \in Threads : Tops'[u] = "delete" <=> Tops[u] = "delete"
  BY <1>2, Zenon
<1>6. PhaseInv'
  BY <1>5, Zenon DEF PhaseInv, Listed, Zombie, Doomed, Gone
<1> QED
  BY <1>3, <1>4, <1>6, Zenon

LEMMA FirstStates == Init => LifeInv
<1> SUFFICES ASSUME Init PROVE LifeInv
  BY Zenon
<1>1. FlagTypeOK
  BY LifeAssumption, Zenon DEF Init, FlagTypeOK
<1>2. CountTypeOK
  BY LifeAssumption DEF Init, CountTypeOK
<1>3. \A t \in Threads : stack[t] = <<>> /\ Len(stack[t]) = 0
  BY Zenon DEF Init
<1>4. ShapeInv
  BY LifeAssumption DEF Init, ShapeInv, Shape, Nested
<1>5. \A t \in Threads : Tops[t] = None
  BY <1>3, Zenon DEF Tops, TopsIn, TopOf
<1>6. Uses(stack) = {}
  BY <1>3 DEF Uses
<1>7. RefInv
  BY <1>6, FS_EmptySet, Zenon DEF Init, RefInv
<1>8. LockInv /\ MutexInv /\ StartInv /\ PhaseInv
  BY <1>5, LifeAssumption, NoneAssumption, Zenon
     DEF Init, LockInv, MutexInv, StartInv, PhaseInv, Listed, Frames, EcallFrames, DestroyFrames
<1> QED
  BY <1>1, <1>2, <1>4, <1>7, <1>8, Zenon DEF LifeInv

\* A new call of an ecall or of sgx_destroy_enclave.
LEMMA CallStep ==
    ASSUME LifeInv, NEW t \in Threads, EcallRef(t) \/ DestroyRef(t)
    PROVE  LifeInv'
<1> USE DEF LifeInv
<1>0. PICK f \in {"enter", "edmm"} :
          /\ CanCall(t) /\ listed /\ m_ref' = m_ref + 1 /\ Push(t, f)
          /\ UNCHANGED <<modeVars, listed, m_zombie, m_destroyed, deleted, m_enclave_mutex, readers,
                         event, child>>
          /\ Careful /\ f = "edmm" => ~ Starting
  BY Zenon DEF EcallRef, DestroyRef
<1>1. /\ f \in Frames /\ f \in Counted /\ f \notin Special /\ f \notin {"inside", "uninitin"}
      /\ f \in DestroyFrames => f = "edmm"
  BY Zenon DEF Frames, EcallFrames, DestroyFrames, Counted, Special
<1>2. Len(stack[t]) < MaxDepth /\ Tops[t] \in {None, "ocall"}
  BY <1>0, TopsAre, Zenon DEF CanCall, AtHome
<1>3. /\ ShapeInv' /\ Tops' = [Tops EXCEPT ![t] = f]
      /\ Cardinality(Uses(stack')) = Cardinality(Uses(stack)) + 1
  BY <1>0, <1>1, <1>2, PushedFacts, Zenon
<1>4. RefInv'
  BY <1>0, <1>3, Zenon DEF RefInv
<1>5. Tops[t] \notin Special
  BY <1>2, NoneAssumption, Zenon DEF Special, Frames, DestroyFrames
<1>6. Careful /\ f = "edmm" => \A p \in Threads : Tops[p] # "start"
  BY <1>0, TopsAre, Zenon DEF Starting
<1>7. MutexInv' /\ StartInv' /\ PhaseInv'
  BY <1>0, <1>1, <1>3, <1>5, <1>6, QuietStep, Zenon
<1>8. LockInv'
  <2>1. Tops[t] \notin {"inside", "uninitin"}
    BY <1>2, NoneAssumption, Zenon DEF Frames, EcallFrames, DestroyFrames
  <2> QED
    BY <1>0, <1>1, <1>3, <2>1, TopsType, Zenon DEF LockInv
<1>9. FlagTypeOK'
  BY <1>0, Zenon DEF FlagTypeOK, modeVars
<1>10. CountTypeOK'
  BY <1>0, LifeAssumption DEF CountTypeOK, CanCall, Works
<1> QED
  BY <1>3, <1>4, <1>7, <1>8, <1>9, <1>10, Zenon

\* A call goes on and keeps its reference.
LEMMA GotoStep ==
    ASSUME LifeInv, NEW t \in Threads, NEW f \in Counted, Top(t) \in Counted, Goto(t, f),
           f \in DestroyFrames => Top(t) \in DestroyFrames,
           UNCHANGED <<enclaveVars, m_enclave_mutex>>
    PROVE  /\ ShapeInv' /\ RefInv' /\ MutexInv' /\ StartInv' /\ PhaseInv' /\ FlagTypeOK'
           /\ Tops' = [Tops EXCEPT ![t] = f]
<1> USE DEF LifeInv
<1>0. /\ f \in Frames /\ f \notin Special /\ Tops[t] \notin Special
      /\ Tops[t] \in Counted /\ stack[t] # <<>>
  BY TopsAre, NoneAssumption, Zenon DEF Counted, Frames, EcallFrames, DestroyFrames, Special
<1>1. ShapeInv' /\ Tops' = [Tops EXCEPT ![t] = f] /\ Uses(stack') = Uses(stack)
  BY <1>0, WentFacts, Zenon
<1>2. RefInv'
  BY <1>1, Zenon DEF RefInv, enclaveVars
<1>3. MutexInv' /\ StartInv' /\ PhaseInv'
  <2>1. f \in DestroyFrames => Tops[t] \in DestroyFrames
    BY TopsAre, Zenon
  <2> QED
    BY <1>0, <1>1, <2>1, QuietStep, Zenon DEF enclaveVars
<1>4. FlagTypeOK'
  BY Zenon DEF FlagTypeOK, modeVars, enclaveVars
<1> QED
  BY <1>1, <1>2, <1>3, <1>4, Zenon

\* A call that gets the read lock, or finds the enclave destroyed.
LEMMA EnterStep ==
    ASSUME LifeInv, NEW t \in Threads,
           EcallEnter(t) \/ OcallReturn(t) \/ DestroyUninit(t) \/ PollReturn(t)
    PROVE  LifeInv'
<1> USE DEF LifeInv
<1>1. PICK f \in Counted :
          /\ Top(t) \in {"enter", "ocall", "uninit", "polling"} /\ Goto(t, f)
          /\ f \in DestroyFrames => Top(t) \in DestroyFrames
          /\ \/ f \in {"inside", "uninitin"} /\ TryRdlock(t)
             \/ f \notin {"inside", "uninitin"} /\ m_destroyed /\ UNCHANGED readers
          /\ child' = child \/ child' = [child EXCEPT ![t] = None]
          /\ UNCHANGED <<enclaveVars, m_enclave_mutex, event, work>>
  BY Zenon DEF EcallEnter, OcallReturn, DestroyUninit, PollReturn, Counted, EcallFrames,
               DestroyFrames
<1>2. Top(t) \in Counted
  BY <1>1, Zenon DEF Counted, EcallFrames
<1>3. /\ ShapeInv' /\ RefInv' /\ MutexInv' /\ StartInv' /\ PhaseInv' /\ FlagTypeOK'
      /\ Tops' = [Tops EXCEPT ![t] = f]
  BY <1>1, <1>2, GotoStep, Zenon
<1>4. Tops[t] \notin {"inside", "uninitin"}
  BY <1>1, TopsAre, Zenon
<1>5. LockInv'
  BY <1>1, <1>3, <1>4, TopsType DEF LockInv, TryRdlock, CountTypeOK, enclaveVars
<1>6. CountTypeOK'
  BY <1>1 DEF CountTypeOK, TryRdlock, enclaveVars
<1> QED
  BY <1>3, <1>5, <1>6, Zenon

\* A call that gives the read lock back.
LEMMA ExitStep ==
    ASSUME LifeInv, NEW t \in Threads,
           EcallExit(t) \/ Ocall(t) \/ DestroyUninitDone(t)
    PROVE  LifeInv'
<1> USE DEF LifeInv
<1>1. PICK f \in Counted :
          /\ Top(t) \in {"inside", "uninitin"} /\ Goto(t, f)
          /\ f \in DestroyFrames => Top(t) \in DestroyFrames
          /\ f \notin {"inside", "uninitin"}
          /\ Rdunlock(t) /\ (work' = work \/ Works(t))
          /\ UNCHANGED <<enclaveVars, m_enclave_mutex, event, child>>
  BY Zenon DEF EcallExit, Ocall, DestroyUninitDone, Counted, EcallFrames, DestroyFrames
<1>2. Top(t) \in Counted
  BY <1>1, Zenon DEF Counted, EcallFrames
<1>3. /\ ShapeInv' /\ RefInv' /\ MutexInv' /\ StartInv' /\ PhaseInv' /\ FlagTypeOK'
      /\ Tops' = [Tops EXCEPT ![t] = f]
  BY <1>1, <1>2, GotoStep, Zenon
<1>4. Tops[t] \in {"inside", "uninitin"} /\ readers[t] = 1
  BY <1>1, TopsAre, Zenon DEF LockInv
<1>5. LockInv'
  BY <1>1, <1>3, <1>4, TopsType DEF LockInv, Rdunlock, CountTypeOK, enclaveVars
<1>6. CountTypeOK'
  BY <1>1, <1>4, LifeAssumption DEF CountTypeOK, Rdunlock, Works, enclaveVars
<1> QED
  BY <1>3, <1>5, <1>6, Zenon

\* A call that goes on without a lock.
LEMMA OutsideStep ==
    ASSUME LifeInv, NEW t \in Threads, GetEvent(t) \/ EventWait(t) \/ EventStirred(t) \/ DestroyEdmm(t)
    PROVE  LifeInv'
<1> USE DEF LifeInv
<1>1. PICK f \in Counted :
          /\ Top(t) \in {"ocall", "about", "asleep", "edmm"} /\ Goto(t, f)
          /\ f \in DestroyFrames => Top(t) \in DestroyFrames
          /\ f \notin {"inside", "uninitin"}
          /\ work' = work \/ Works(t)
          /\ event' = event \/ event' = [event EXCEPT ![t] = @ - 1]
          /\ UNCHANGED <<enclaveVars, m_enclave_mutex, readers, child>>
  BY Zenon DEF GetEvent, EventWait, EventStirred, DestroyEdmm, Counted, EcallFrames, DestroyFrames
<1>2. Top(t) \in Counted
  BY <1>1, Zenon DEF Counted, EcallFrames
<1>3. /\ ShapeInv' /\ RefInv' /\ MutexInv' /\ StartInv' /\ PhaseInv' /\ FlagTypeOK'
      /\ Tops' = [Tops EXCEPT ![t] = f]
  BY <1>1, <1>2, GotoStep, Zenon
<1>4. Tops[t] \notin {"inside", "uninitin"}
  BY <1>1, TopsAre, Zenon
<1>5. LockInv'
  BY <1>1, <1>3, <1>4, TopsType, Zenon DEF LockInv, CountTypeOK, enclaveVars
<1>6. CountTypeOK'
  BY <1>1, LifeAssumption DEF CountTypeOK, Works, enclaveVars
<1> QED
  BY <1>3, <1>5, <1>6, Zenon

LEMMA EventsSetType ==
    ASSUME CountTypeOK, NEW S
    PROVE  EventsSet(S) \in [Threads -> Int]
BY DEF CountTypeOK, EventsSet

\* A thread in an ocall sets the event of another one.
LEMMA SetEventStep ==
    ASSUME LifeInv, NEW t \in Threads, NEW u \in Threads, SetEvent(t, u)
    PROVE  LifeInv'
<1> USE DEF LifeInv
<1>1. /\ stack' = StacksWoken({u}) /\ event' = EventsSet({u}) /\ Works(t)
      /\ UNCHANGED <<enclaveVars, m_enclave_mutex, readers, child>>
  BY Zenon DEF SetEvent
<1>2. /\ ShapeInv' /\ Uses(stack') = Uses(stack)
      /\ \A v \in Threads :
             Tops'[v] = Tops[v] \/ (Tops[v] = "asleep" /\ Tops'[v] = "ocall")
  BY <1>1, WakeFacts, Zenon DEF ShapeInv, Tops
<1>3. RefInv'
  BY <1>1, <1>2, Zenon DEF RefInv, enclaveVars
<1>4. \A v \in Threads : \A f \in Frames \ {"asleep", "ocall"} : Tops'[v] = f <=> Tops[v] = f
  BY <1>2, Zenon
<1>5. \A v \in Threads :
          /\ \A f \in Special \cup {"inside", "uninitin"} : Tops'[v] = f <=> Tops[v] = f
          /\ Tops'[v] \in DestroyFrames <=> Tops[v] \in DestroyFrames
  BY <1>4, Zenon DEF Frames, EcallFrames, DestroyFrames, Special
<1>6. LockInv'
  BY <1>1, <1>5, Zenon DEF LockInv, enclaveVars
<1>7. MutexInv' /\ StartInv'
  BY <1>1, <1>5, Zenon DEF MutexInv, StartInv, enclaveVars, Special
<1>8. PhaseInv'
  <2>1. \A v \in Threads : Tops'[v] = "delete" <=> Tops[v] = "delete"
    BY <1>5, Zenon DEF Special
  <2> QED
    BY <1>1, <2>1, Zenon DEF PhaseInv, Listed, Zombie, Doomed, Gone, enclaveVars
<1>9. FlagTypeOK' /\ CountTypeOK'
  BY <1>1, EventsSetType, LifeAssumption DEF FlagTypeOK, modeVars, CountTypeOK, Works, enclaveVars
<1> QED
  BY <1>2, <1>3, <1>6, <1>7, <1>8, <1>9, Zenon

\* unref_enclave: the last reference to a zombie deletes it.
LEMMA UnrefStep ==
    ASSUME LifeInv, NEW t \in Threads, EcallUnref(t) \/ DestroyUnref(t)
    PROVE  LifeInv'
<1> USE DEF LifeInv
<1>1. /\ Top(t) \in {"leave", "unref"} /\ Unref
      /\ UNCHANGED <<modeVars, listed, m_zombie, m_destroyed, m_enclave_mutex, readers, event, child, work>>
  BY Zenon DEF EcallUnref, DestroyUnref
<1>2. Tops[t] = Top(t) /\ stack[t] # <<>> /\ Tops[t] \in Counted
  BY <1>1, TopsAre, NoneAssumption, Zenon DEF Counted, EcallFrames, Frames, DestroyFrames
<1>3. /\ ShapeInv'
      /\ \E g \in {None, "ocall", "remove"} :
             /\ Tops' = [Tops EXCEPT ![t] = g]
             /\ g = "remove" => Tops[t] = "unref"
      /\ Cardinality(Uses(stack')) + 1 = Cardinality(Uses(stack))
  <2>1. CASE EcallUnref(t)
    <3>1. stack' = [stack EXCEPT ![t] = SubSeq(@, 1, Len(@) - 1)]
      BY <2>1, Zenon DEF EcallUnref, Pop
    <3> QED
      BY <1>2, <3>1, PopFacts, NoneAssumption, Zenon DEF ShapeInv, Tops, Frames, DestroyFrames
  <2>2. CASE DestroyUnref(t)
    <3>1. Goto(t, "remove") /\ "remove" \in Frames /\ "remove" \notin Counted /\ Tops[t] = "unref"
      BY <1>2, <2>2, Zenon DEF DestroyUnref, Frames, DestroyFrames, Counted, EcallFrames
    <3> QED
      BY <1>2, <3>1, WentFacts, Zenon
  <2> QED
    BY <2>1, <2>2, Zenon
<1>4. PICK g \in {None, "ocall", "remove"} :
          Tops' = [Tops EXCEPT ![t] = g] /\ (g = "remove" => Tops[t] = "unref")
  BY <1>3, Zenon
<1>5. RefInv' /\ m_ref \in Nat \ {0}
  BY <1>1, <1>3, UsesFinite DEF RefInv, Unref
<1>6. /\ g \notin Special /\ g \notin {"inside", "uninitin"}
      /\ g \in DestroyFrames => Tops[t] \in DestroyFrames
      /\ Tops[t] \notin Special /\ Tops[t] \notin {"inside", "uninitin"}
  BY <1>1, <1>2, <1>4, NoneAssumption, Zenon DEF Special, Frames, EcallFrames, DestroyFrames
<1>7. /\ Tops'[t] = g /\ \A u \in Threads \ {t} : Tops'[u] = Tops[u]
  BY <1>4, TopsType, Zenon
<1>8. LockInv' /\ MutexInv' /\ StartInv'
  BY <1>1, <1>6, <1>7, Zenon DEF LockInv, MutexInv, StartInv, Special
<1>9. PhaseInv' /\ deleted' \in Nat
  <2>1. \A u \in Threads : Tops'[u] = "delete" <=> Tops[u] = "delete"
    BY <1>6, <1>7, Zenon DEF Special
  <2>2. ~ Careful \/ Listed \/ Zombie
    BY <1>5, Zenon DEF PhaseInv, Doomed, Gone
  <2>5. CASE ~ Careful
    BY <1>1, <2>5 DEF PhaseInv, Unref, CountTypeOK
  <2>3. CASE Listed
    BY <1>1, <2>1, <2>3, Zenon DEF PhaseInv, Listed, Unref
  <2>4. CASE Zombie
    BY <1>1, <1>5, <2>1, <2>4 DEF PhaseInv, Zombie, Gone, Unref
  <2> QED
    BY <2>2, <2>3, <2>4, <2>5, Zenon
<1>10. FlagTypeOK' /\ CountTypeOK'
  BY <1>1, <1>9, Zenon DEF FlagTypeOK, modeVars, CountTypeOK
<1> QED
  BY <1>3, <1>5, <1>8, <1>9, <1>10, Zenon

\* remove_enclave takes the mutex, or finds that the enclave is gone.
LEMMA RemoveLockStep ==
    ASSUME LifeInv, NEW t \in Threads, RemoveLock(t)
    PROVE  LifeInv'
<1> USE DEF LifeInv
<1>1. /\ Tops[t] = "remove" /\ stack[t] # <<>> /\ m_enclave_mutex = None
      /\ UNCHANGED <<enclaveVars, readers, event, child, work>>
  BY TopsAre, NoneAssumption, Zenon DEF RemoveLock, Mutex, Frames, DestroyFrames
<1>2. Tops[t] \notin Counted /\ Tops[t] \notin Special /\ Tops[t] \in DestroyFrames
  BY <1>1, Zenon DEF Counted, EcallFrames, Special, DestroyFrames
<1>3. CountTypeOK'
  BY <1>1, Zenon DEF CountTypeOK, enclaveVars
<1>4. CASE listed /\ m_enclave_mutex' = t /\ Goto(t, "wtlock")
  <2>1. "wtlock" \in Frames /\ "wtlock" \notin Counted /\ "wtlock" \in DestroyFrames
    BY Zenon DEF Frames, DestroyFrames, Counted, EcallFrames
  <2>2. ShapeInv' /\ Tops' = [Tops EXCEPT ![t] = "wtlock"] /\ Uses(stack') = Uses(stack)
    BY <1>1, <1>2, <1>4, <2>1, WentFacts, Zenon
  <2>3. Tops'[t] = "wtlock" /\ \A u \in Threads \ {t} : Tops'[u] = Tops[u]
    BY <2>2, TopsType, Zenon
  <2>4. RefInv' /\ FlagTypeOK'
    BY <1>1, <1>4, <2>2, Zenon DEF RefInv, FlagTypeOK, modeVars, enclaveVars
  <2>5. LockInv'
    BY <1>1, <2>3, Zenon DEF LockInv, enclaveVars
  <2>6. MutexInv'
    BY <1>1, <1>4, <2>3, LifeAssumption, Zenon DEF MutexInv, enclaveVars
  <2>7. StartInv'
    BY <1>1, <1>2, <2>3, Zenon DEF StartInv, enclaveVars
  <2>8. PhaseInv'
    BY <1>1, <1>4, <2>3, Zenon DEF PhaseInv, Listed, Zombie, Doomed, Gone, enclaveVars
  <2> QED
    BY <1>3, <2>2, <2>4, <2>5, <2>6, <2>7, <2>8, Zenon
<1>5. CASE ~ listed /\ UNCHANGED m_enclave_mutex /\ Pop(t)
  <2>1. /\ ShapeInv' /\ Uses(stack') = Uses(stack)
        /\ \E g \in {None, "ocall"} : Tops' = [Tops EXCEPT ![t] = g]
    BY <1>1, <1>2, <1>5, PopFacts, Zenon DEF Pop, ShapeInv, Tops
  <2>2. PICK g \in {None, "ocall"} : Tops' = [Tops EXCEPT ![t] = g]
    BY <2>1, Zenon
  <2>3. g \notin Special /\ g \notin DestroyFrames /\ g \notin {"inside", "uninitin"}
    BY NoneAssumption, Zenon DEF Special, DestroyFrames, Frames, EcallFrames
  <2>4. MutexInv' /\ StartInv' /\ PhaseInv'
    BY <1>1, <1>2, <1>5, <2>2, <2>3, QuietStep, Zenon DEF enclaveVars
  <2>5. LockInv'
    BY <1>1, <2>2, <2>3, TopsType, Zenon DEF LockInv, enclaveVars
  <2>6. RefInv' /\ FlagTypeOK'
    BY <1>1, <1>5, <2>1, Zenon DEF RefInv, FlagTypeOK, modeVars, enclaveVars
  <2> QED
    BY <1>3, <2>1, <2>4, <2>5, <2>6, Zenon
<1> QED
  BY <1>4, <1>5, Zenon DEF RemoveLock

\* CEnclave::destroy: the write lock is there only when nobody reads.
LEMMA DestroyHwStep ==
    ASSUME LifeInv, NEW t \in Threads, DestroyHw(t)
    PROVE  LifeInv'
<1> USE DEF LifeInv
<1>1. /\ Tops[t] = "wtlock" /\ stack[t] # <<>> /\ m_destroyed' = TRUE
      /\ \A u \in Threads : readers[u] = 0
      /\ UNCHANGED <<modeVars, listed, m_ref, m_zombie, deleted, m_enclave_mutex, readers, event, child, work>>
  BY TopsAre, NoneAssumption, Zenon DEF DestroyHw, Frames, DestroyFrames
<1>2. /\ Tops[t] \notin Counted /\ Tops[t] \in DestroyFrames
      /\ "destroyed" \in Frames /\ "destroyed" \notin Counted /\ "destroyed" \in DestroyFrames
  BY <1>1, Zenon DEF Counted, EcallFrames, DestroyFrames, Frames
<1>3. ShapeInv' /\ Tops' = [Tops EXCEPT ![t] = "destroyed"] /\ Uses(stack') = Uses(stack)
  BY <1>1, <1>2, WentFacts, Zenon DEF DestroyHw
<1>4. Tops'[t] = "destroyed" /\ \A u \in Threads \ {t} : Tops'[u] = Tops[u]
  BY <1>3, TopsType, Zenon
<1>5. RefInv' /\ FlagTypeOK' /\ CountTypeOK'
  BY <1>1, <1>3, Zenon DEF RefInv, FlagTypeOK, modeVars, CountTypeOK
<1>6. LockInv'
  <2>1. \A u \in Threads : Tops[u] \notin {"inside", "uninitin"}
    BY <1>1 DEF LockInv
  <2> QED
    BY <1>1, <1>4, <2>1, Zenon DEF LockInv
<1>7. MutexInv' /\ StartInv'
  BY <1>1, <1>2, <1>4, Zenon DEF MutexInv, StartInv
<1>8. PhaseInv'
  <2>1. \A u \in Threads : Tops'[u] = "delete" <=> Tops[u] = "delete"
    BY <1>1, <1>4, Zenon
  <2> QED
    BY <1>1, <2>1, Zenon DEF PhaseInv, Listed, Zombie, Doomed, Gone
<1> QED
  BY <1>3, <1>5, <1>6, <1>7, <1>8, Zenon

\* The rest of remove_enclave, which leaves a zombie or an enclave to delete.
LEMMA RemoveStep ==
    ASSUME LifeInv, NEW t \in Threads, Remove(t)
    PROVE  LifeInv'
<1> USE DEF LifeInv
<1>1. /\ Tops[t] = "destroyed" /\ stack[t] # <<>>
      /\ listed' = FALSE /\ m_enclave_mutex' = None /\ m_zombie' = (m_ref # 0)
      /\ UNCHANGED <<modeVars, m_ref, m_destroyed, deleted, readers, child, work>>
  BY TopsAre, NoneAssumption, Zenon DEF Remove, Frames, DestroyFrames
<1>2. Tops[t] \notin Counted /\ Tops[t] \in DestroyFrames
  BY <1>1, Zenon DEF Counted, EcallFrames, DestroyFrames
<1>3. m_enclave_mutex = t /\ \A u \in Threads \ {t} : Tops[u] \notin {"wtlock", "destroyed"}
  BY <1>1, Zenon DEF MutexInv
<1>4. Careful => \A u \in Threads : Tops[u] # "start"
  BY <1>1, <1>2, Zenon DEF StartInv
<1>5. Careful => Listed
  BY <1>3, LifeAssumption, Zenon DEF MutexInv, PhaseInv, Zombie, Doomed, Gone
<1>6. FlagTypeOK'
  BY <1>1, Zenon DEF FlagTypeOK, modeVars
<1>7. CASE /\ m_ref # 0
           /\ event' = EventsSet(Bound)
           /\ stack' = [StacksWoken(Bound) EXCEPT ![t] = SubSeq(@, 1, Len(@) - 1)]
  <2>0. PICK w : w = StacksWoken(Bound)
    BY Zenon
  <2>1. /\ Shape(w) /\ Uses(w) = Uses(stack) /\ w[t] # <<>>
        /\ TopsIn(w)[t] = "destroyed"
        /\ \A u \in Threads : \/ TopsIn(w)[u] = Tops[u]
                              \/ Tops[u] = "asleep" /\ TopsIn(w)[u] = "ocall"
    BY <1>1, <2>0, WakeFacts, Zenon
  <2>2. /\ TopsIn(w) = [u \in Threads |-> TopsIn(w)[u]]
        /\ stack' = [w EXCEPT ![t] = SubSeq(@, 1, Len(@) - 1)]
        /\ "destroyed" \notin Counted
    BY <1>1, <1>2, <1>7, <2>0, Zenon DEF TopsIn
  <2>3. /\ ShapeInv' /\ Uses(stack') = Uses(w)
        /\ \E g \in {None, "ocall"} : Tops' = [TopsIn(w) EXCEPT ![t] = g]
    <3>1. /\ Shape(w) /\ w[t] # <<>> /\ TopsIn(w)[t] \notin Counted
          /\ stack' = [w EXCEPT ![t] = SubSeq(@, 1, Len(@) - 1)]
      BY <2>1, <2>2, Zenon
    <3>2. /\ Shape(stack') /\ Uses(stack') = Uses(w)
          /\ \E g \in {None, "ocall"} : TopsIn(stack') = [TopsIn(w) EXCEPT ![t] = g]
      BY <3>1, PopFacts, Zenon
    <3> QED
      BY <3>2, Zenon DEF ShapeInv, Tops
  <2>4. /\ \A u \in Threads \ {t} : \/ Tops'[u] = Tops[u]
                                    \/ Tops[u] = "asleep" /\ Tops'[u] = "ocall"
        /\ Tops'[t] \in {None, "ocall"}
    BY <2>1, <2>2, <2>3, Zenon
  <2>5. RefInv'
    BY <1>1, <2>1, <2>3, Zenon DEF RefInv
  <2>6. /\ \A u \in Threads : Tops'[u] \notin {"wtlock", "destroyed"}
        /\ Careful => \A u \in Threads : Tops'[u] \notin Special
    BY <1>3, <1>4, <1>5, <2>4, NoneAssumption, Zenon DEF Special, Listed, Frames, DestroyFrames
  <2>7. MutexInv' /\ StartInv'
    BY <1>1, <2>6, LifeAssumption, Zenon DEF MutexInv, StartInv, Special
  <2>8. PhaseInv'
    <3>1. m_ref' > 0
      BY <1>1, <1>7, UsesFinite DEF RefInv
    <3>2. Careful => m_zombie' /\ ~ listed' /\ deleted' = 0
      BY <1>1, <1>5, <1>7, Zenon DEF Listed
    <3> QED
      BY <2>6, <3>1, <3>2, Zenon DEF PhaseInv, Zombie, Special
  <2>9. CountTypeOK'
    BY <1>1, <1>7, EventsSetType, Zenon DEF CountTypeOK
  <2>10. LockInv'
    <3>1. \A u \in Threads : \A f \in {"inside", "uninitin"} : Tops'[u] = f <=> Tops[u] = f
      BY <1>1, <2>4, NoneAssumption, Zenon DEF Frames, EcallFrames, DestroyFrames
    <3> QED
      BY <1>1, <3>1, Zenon DEF LockInv
  <2> QED
    BY <1>6, <2>3, <2>5, <2>7, <2>8, <2>9, <2>10, Zenon
<1>8. CASE m_ref = 0 /\ Goto(t, "delete") /\ UNCHANGED event
  <2>1. "delete" \in Frames /\ "delete" \notin Counted /\ "delete" \in DestroyFrames
    BY Zenon DEF Frames, DestroyFrames, Counted, EcallFrames
  <2>2. ShapeInv' /\ Tops' = [Tops EXCEPT ![t] = "delete"] /\ Uses(stack') = Uses(stack)
    BY <1>1, <1>2, <1>8, <2>1, WentFacts, Zenon
  <2>3. Tops'[t] = "delete" /\ \A u \in Threads \ {t} : Tops'[u] = Tops[u]
    BY <2>2, TopsType, Zenon
  <2>4. RefInv' /\ CountTypeOK'
    BY <1>1, <1>8, <2>2, Zenon DEF RefInv, CountTypeOK
  <2>5. LockInv'
    BY <1>1, <2>3, Zenon DEF LockInv
  <2>6. MutexInv' /\ StartInv'
    BY <1>1, <1>3, <1>4, <2>3, LifeAssumption, Zenon DEF MutexInv, StartInv
  <2>7. Careful => Doomed'
    BY <1>1, <1>5, <1>8, <2>3, Zenon DEF Listed, Doomed
  <2> QED
    BY <1>6, <2>2, <2>4, <2>5, <2>6, <2>7, Zenon DEF PhaseInv
<1> QED
  BY <1>7, <1>8, Zenon DEF Remove

\* The thread that removed an unused enclave deletes it.
LEMMA DeleteStep ==
    ASSUME LifeInv, NEW t \in Threads, Delete(t)
    PROVE  LifeInv'
<1> USE DEF LifeInv
<1>1. /\ Tops[t] = "delete" /\ stack[t] # <<>> /\ deleted' = deleted + 1
      /\ UNCHANGED <<modeVars, listed, m_ref, m_zombie, m_destroyed, m_enclave_mutex, readers,
                     event, child, work>>
  BY TopsAre, NoneAssumption, Zenon DEF Delete, Frames, DestroyFrames
<1>2. Tops[t] \notin Counted /\ (Careful => Doomed)
  BY <1>1, Zenon DEF Counted, EcallFrames, PhaseInv, Listed, Zombie, Gone
<1>3. /\ ShapeInv' /\ Uses(stack') = Uses(stack)
      /\ \E g \in {None, "ocall"} : Tops' = [Tops EXCEPT ![t] = g]
  BY <1>1, <1>2, PopFacts, Zenon DEF Delete, Pop, ShapeInv, Tops
<1>4. Tops'[t] \in {None, "ocall"} /\ \A u \in Threads \ {t} : Tops'[u] = Tops[u]
  BY <1>3, TopsType, Zenon
<1>5. Tops'[t] \notin DestroyFrames /\ Tops'[t] \notin {"inside", "uninitin", "start"}
  BY <1>4, NoneAssumption, Zenon DEF Frames, EcallFrames, DestroyFrames
<1>6. RefInv' /\ FlagTypeOK' /\ CountTypeOK'
  BY <1>1, <1>3 DEF RefInv, FlagTypeOK, modeVars, CountTypeOK
<1>7. LockInv' /\ MutexInv' /\ StartInv'
  BY <1>1, <1>4, <1>5, Zenon DEF LockInv, MutexInv, StartInv, DestroyFrames
<1>8. Careful => Gone'
  BY <1>1, <1>2, <1>4, <1>5 DEF Doomed, Gone, DestroyFrames
<1> QED
  BY <1>3, <1>6, <1>7, <1>8, Zenon DEF PhaseInv

\* pthread_create_ocall starts a thread, which takes a reference later.
LEMMA CreatePthreadStep ==
    ASSUME LifeInv, NEW t \in Threads, NEW p \in Threads, CreatePthread(t, p)
    PROVE  LifeInv'
<1> USE DEF LifeInv
<1>1. /\ listed /\ (Careful => ~ Destroying) /\ stack[p] = <<>> /\ Works(t)
      /\ Top(t) = "ocall" /\ child' = [child EXCEPT ![t] = p]
      /\ stack' = [stack EXCEPT ![t][Len(stack[t])] = "polling", ![p] = <<"start">>]
      /\ UNCHANGED <<enclaveVars, m_enclave_mutex, readers, event>>
  BY Zenon DEF CreatePthread
<1>2. /\ "start" \in Frames /\ "start" \notin Counted /\ "start" \notin DestroyFrames
      /\ "polling" \in Frames /\ "polling" \in Counted /\ "polling" \notin DestroyFrames
      /\ Tops[p] = None /\ Tops[t] = "ocall" /\ Tops[t] \in Counted /\ stack[t] # <<>> /\ p # t
  BY <1>1, TopsAre, NoneAssumption DEF Frames, Counted, EcallFrames, DestroyFrames
<1>3. PICK w : w = [stack EXCEPT ![t][Len(stack[t])] = "polling"]
  BY Zenon
<1>a. Shape(w) /\ TopsIn(w) = [Tops EXCEPT ![t] = "polling"] /\ Uses(w) = Uses(stack)
  <2>1. WentTo(stack, t, "polling", w)
    BY <1>3, Zenon DEF WentTo
  <2> QED
    BY <1>2, <2>1, GotoFacts, Zenon
<1>b. /\ w[p] = <<>> /\ Len(w[p]) < MaxDepth /\ TopsIn(w)[p] = None
      /\ stack' = [w EXCEPT ![p] = Append(@, "start")]
  <2>1. stack \in [Threads -> Seq(Frames)] /\ MaxDepth \in Nat \ {0}
    BY LifeAssumption DEF ShapeInv, Shape
  <2>2. w[p] = <<>> /\ w \in [Threads -> Seq(Frames)]
    BY <1>1, <1>2, <1>3, <1>a, <2>1 DEF Shape
  <2>3. Len(w[p]) < MaxDepth /\ Append(w[p], "start") = <<"start">>
    BY <2>1, <2>2
  <2>4. stack' = [w EXCEPT ![p] = <<"start">>]
    BY <1>1, <1>3
  <2>5. TopsIn(w)[p] = None
    BY <2>2, Zenon DEF TopsIn, TopOf
  <2> QED
    BY <2>2, <2>3, <2>4, <2>5, Zenon
<1>c. /\ ShapeInv' /\ Tops' = [TopsIn(w) EXCEPT ![p] = "start"] /\ Uses(stack') = Uses(stack)
  <2>1. PICK r : r = stack' /\ PushedTo(w, p, "start", r)
    BY <1>b, Zenon DEF PushedTo
  <2>2. Shape(r) /\ TopsIn(r) = [TopsIn(w) EXCEPT ![p] = "start"] /\ Uses(r) = Uses(w)
    <3>1. /\ Shape(w) /\ "start" \in Frames /\ "start" \notin Counted
          /\ Len(w[p]) < MaxDepth /\ TopsIn(w)[p] \in {None, "ocall"}
      BY <1>2, <1>a, <1>b, Zenon
    <3> QED
      BY <2>1, <3>1, PushFacts, Zenon
  <2> QED
    BY <1>a, <2>1, <2>2, Zenon DEF ShapeInv, Tops
<1>4. /\ Tops'[p] = "start" /\ Tops'[t] = "polling"
      /\ \A u \in Threads \ {p, t} : Tops'[u] = Tops[u]
  BY <1>2, <1>a, <1>c, TopsType, Zenon
<1>5. /\ Tops[p] \notin DestroyFrames /\ Tops[p] \notin {"inside", "uninitin"}
      /\ Tops[t] \notin DestroyFrames
  BY <1>2, NoneAssumption, Zenon DEF Frames, EcallFrames, DestroyFrames
<1>6. Careful => \A u \in Threads : Tops[u] \notin DestroyFrames
  <2> SUFFICES ASSUME Careful, NEW u \in Threads, Tops[u] \in DestroyFrames
               PROVE  FALSE
    BY Zenon
  <2>1. stack[u] # <<>> /\ stack[u][Len(stack[u])] \in DestroyFrames
    BY TopsAre, NoneAssumption, Zenon DEF Frames
  <2>2. Len(stack[u]) \in DOMAIN stack[u]
    BY <2>1 DEF ShapeInv, Shape
  <2> QED
    BY <1>1, <2>1, <2>2, Zenon DEF Destroying
<1>7. RefInv' /\ FlagTypeOK' /\ CountTypeOK'
  BY <1>1, <1>c, LifeAssumption DEF RefInv, FlagTypeOK, modeVars, CountTypeOK, enclaveVars, Works
<1>8. LockInv' /\ MutexInv'
  BY <1>1, <1>2, <1>4, <1>5, Zenon DEF LockInv, MutexInv, enclaveVars, DestroyFrames
<1>9. StartInv'
  BY <1>1, <1>2, <1>4, <1>6, Zenon DEF StartInv, enclaveVars
<1>10. PhaseInv'
  BY <1>1, <1>2, <1>4, NoneAssumption, Zenon DEF PhaseInv, Listed, Zombie, Doomed, Gone, enclaveVars
<1> QED
  BY <1>c, <1>7, <1>8, <1>9, <1>10, Zenon

LEMMA PthreadRefStep ==
    ASSUME LifeInv, NEW p \in Threads, PthreadRef(p)
    PROVE  LifeInv'
<1> USE DEF LifeInv
<1>1. /\ Tops[p] = "start" /\ stack[p] # <<>> /\ m_ref' = m_ref + 1 /\ Goto(p, "enter")
      /\ UNCHANGED <<modeVars, listed, m_zombie, m_destroyed, deleted, m_enclave_mutex, readers,
                     event, child, work>>
  BY TopsAre, NoneAssumption, Zenon DEF PthreadRef, Frames
<1>2. /\ "enter" \in Frames /\ "enter" \in Counted /\ "enter" \notin DestroyFrames
      /\ Tops[p] \notin Counted
  BY <1>1, Zenon DEF Frames, Counted, EcallFrames, DestroyFrames
<1>3. /\ ShapeInv' /\ Tops' = [Tops EXCEPT ![p] = "enter"]
      /\ Cardinality(Uses(stack')) = Cardinality(Uses(stack)) + 1
  BY <1>1, <1>2, WentFacts, Zenon
<1>4. Tops'[p] = "enter" /\ \A u \in Threads \ {p} : Tops'[u] = Tops[u]
  BY <1>3, TopsType, Zenon
<1>5. Careful => listed
  BY <1>1, Zenon DEF StartInv
<1>6. RefInv' /\ FlagTypeOK' /\ CountTypeOK'
  BY <1>1, <1>3, Zenon DEF RefInv, FlagTypeOK, modeVars, CountTypeOK
<1>7. LockInv' /\ MutexInv' /\ StartInv'
  BY <1>1, <1>2, <1>4, Zenon DEF LockInv, MutexInv, StartInv
<1>8. PhaseInv'
  BY <1>1, <1>4, <1>5, Zenon DEF PhaseInv, Listed, Zombie, Doomed, Gone
<1> QED
  BY <1>3, <1>6, <1>7, <1>8, Zenon

LEMMA LifeStep == LifeInv /\ [Next]_vars => LifeInv'
<1> SUFFICES ASSUME LifeInv, [Next]_vars
             PROVE  LifeInv'
  BY Zenon
<1>1. CASE UNCHANGED vars
  <2>1. Tops' = Tops /\ Uses(stack') = Uses(stack)
    BY <1>1, Zenon DEF vars, Tops
  <2> QED
    BY <1>1, <2>1, Zenon DEF vars, enclaveVars, LifeInv, FlagTypeOK, modeVars, CountTypeOK, ShapeInv, RefInv,
        LockInv, MutexInv, StartInv, PhaseInv, Listed, Zombie, Doomed, Gone
<1>2. ASSUME NEW t \in Threads, ThreadStep(t)
      PROVE  LifeInv'
  BY <1>2, EnterStep, ExitStep, OutsideStep, UnrefStep, RemoveLockStep, DestroyHwStep,
     RemoveStep, DeleteStep, PthreadRefStep, Zenon DEF ThreadStep
<1>3. ASSUME NEW t \in Threads, EcallRef(t) \/ Ocall(t) \/ GetEvent(t) \/ DestroyRef(t)
             \/ EventStirred(t)
      PROVE  LifeInv'
  BY <1>3, CallStep, ExitStep, OutsideStep, Zenon
<1>4. ASSUME NEW t \in Threads, NEW u \in Threads, SetEvent(t, u) \/ CreatePthread(t, u)
      PROVE  LifeInv'
  BY <1>4, SetEventStep, CreatePthreadStep, Zenon
<1> QED
  BY <1>1, <1>2, <1>3, <1>4, Zenon DEF Next

-----------------------------------------------------------------------------
(* The theorems.                                                           *)

LEMMA LifeAlways == Spec => []LifeInv
BY FirstStates, LifeStep, PTL DEF Spec

\* CEnclave::destroy, ecall, ocall and the return from an ocall: no thread executes
\* in an enclave whose hardware pages are gone, whatever the application does.
THEOREM NobodyInside == Spec => []NobodyInDestroyed
<1>1. LifeInv => NobodyInDestroyed
  BY TopsAre, Zenon DEF LifeInv, LockInv, NobodyInDestroyed
<1> QED
  BY LifeAlways, <1>1, PTL

LEMMA UsersAre ==
    ASSUME ShapeInv, Users = {}, NEW t \in Threads
    PROVE  Tops[t] \in {None, "remove"}
<1>1. ASSUME stack[t] # <<>>
      PROVE  Tops[t] = "remove"
  <2>1. /\ Len(stack[t]) \in DOMAIN stack[t] /\ Len(stack[t]) \in 1..MaxDepth
        /\ Tops[t] = stack[t][Len(stack[t])]
    BY <1>1, TopsAre DEF ShapeInv, Shape
  <2>2. <<t, Len(stack[t])>> \in Threads \X (1..MaxDepth)
    BY <2>1, Zenon
  <2> QED
    BY <2>1, <2>2 DEF Users
<1> QED
  BY <1>1, TopsAre, Zenon

\* A reference that is counted is a use of the CEnclave, and every use is counted
\* or by a thread at a step that the phase excludes.
LEMMA UsersCounted ==
    ASSUME ShapeInv
    PROVE  /\ Uses(stack) \subseteq Users
           /\ \A u \in Users \ Uses(stack) : Tops[u[1]] \in Special
<1>1. \A t \in Threads : DOMAIN stack[t] = 1..Len(stack[t])
  BY DEF ShapeInv, Shape
<1>2. Uses(stack) \subseteq Users
  BY <1>1, Zenon DEF Uses, Users, Counted, EcallFrames
<1>3. ASSUME NEW u \in Users, u \notin Uses(stack)
      PROVE  Tops[u[1]] \in Special
  <2>1. PICK t \in Threads, i \in 1..MaxDepth : u = <<t, i>>
    BY DEF Users
  <2>2. i \in 1..Len(stack[t]) /\ stack[t][i] # "remove" /\ stack[t][i] \notin Counted
    BY <1>1, <1>3, <2>1, Zenon DEF Users, Uses
  <2>3. i = Len(stack[t])
    BY <2>2 DEF ShapeInv, Shape, Nested, Counted, EcallFrames
  <2>4. Tops[t] = stack[t][i] /\ Tops[t] \in Frames
    BY <2>2, <2>3, TopsAre
  <2>5. Tops[t] \in Special
    BY <2>2, <2>4, Zenon DEF Frames, EcallFrames, DestroyFrames, Counted, Special
  <2> QED
    BY <2>1, <2>5, Zenon
<1> QED
  BY <1>2, <1>3, Zenon

LEMMA NoneUses ==
    ASSUME RefInv
    PROVE  m_ref = 0 <=> Uses(stack) = {}
BY UsesFinite, FS_EmptySet, Zenon DEF RefInv

\* unref_enclave and remove_enclave: nobody uses the CEnclave after its deletion, if
\* the application does not destroy an enclave while it starts threads in it.
THEOREM DeletedIsUnused ==
    ASSUME Careful
    PROVE  Spec => []NoUseAfterDelete
<1>1. LifeInv => NoUseAfterDelete
  <2> SUFFICES ASSUME LifeInv, deleted > 0
               PROVE  Users = {}
    BY Zenon DEF NoUseAfterDelete
  <2> USE DEF LifeInv
  <2>1. Gone
    BY DEF PhaseInv, Listed, Zombie, Doomed
  <2>2. Uses(stack) = {}
    BY <2>1, NoneUses, Zenon DEF Gone
  <2>3. \A t \in Threads : Tops[t] \notin Special
    BY <2>1, LifeAssumption, Zenon DEF Gone, MutexInv, StartInv, Special
  <2>4. \A u \in Users : u[1] \in Threads
    BY Zenon DEF Users
  <2> QED
    BY <2>2, <2>3, <2>4, UsersCounted, Zenon
<1> QED
  BY LifeAlways, <1>1, PTL

\* The CEnclave is deleted exactly once: by the thread that removes it or, as a
\* zombie, by the last call that held a reference; and m_ref never underflows.
THEOREM DeletedExactlyOnce ==
    ASSUME Careful
    PROVE  Spec => []DeletedOnce
<1>1. LifeInv => DeletedOnce
  <2> SUFFICES ASSUME LifeInv PROVE DeletedOnce
    BY Zenon
  <2> USE DEF LifeInv
  <2>1. LifeTypeOK
    BY UsesFinite, Zenon DEF LifeTypeOK, FlagTypeOK, CountTypeOK, ShapeInv, Shape, RefInv
  <2>2. deleted <= 1
    BY DEF PhaseInv, Listed, Zombie, Doomed, Gone
  <2>3. ASSUME ~ listed, Users = {}
        PROVE  deleted = 1
    <3>1. m_ref = 0
      BY <2>3, UsersCounted, NoneUses, Zenon
    <3>2. \A t \in Threads : Tops[t] # "delete"
      BY <2>3, UsersAre, NoneAssumption, Zenon DEF Frames, DestroyFrames
    <3> QED
      BY <2>3, <3>1, <3>2 DEF PhaseInv, Listed, Zombie, Doomed, Gone
  <2> QED
    BY <2>1, <2>2, <2>3, Zenon DEF DeletedOnce
<1> QED
  BY LifeAlways, <1>1, PTL

=============================================================================
