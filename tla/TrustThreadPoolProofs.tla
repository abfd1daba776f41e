----------------------- MODULE TrustThreadPoolProofs ------------------------
(***************************************************************************)
(* Proofs about TrustThreadPool, for any finite sets of threads and TCS,   *)
(* with and without EDMM, binding or not: reference counts are exact,      *)
(* every TCS is in one place, and no two threads run on the same one.      *)
(***************************************************************************)
EXTENDS TrustThreadPool, FiniteSetTheorems, TLAPS

BoundIn(list, x) == \E t \in Threads : list[t] = x

\* Every TCS is in one place, once: the free list, the unallocated ones, the list
\* of bound threads, the reserved or lost ones, or it is the utility TCS.
Placed(free, unallocated, list, kept) ==
    /\ free \in Seq(Tcs) /\ Once(free)
    /\ unallocated \in Seq(Tcs) /\ Once(unallocated)
    /\ list \in [Threads -> Tcs \cup {None}] /\ kept \subseteq Tcs
    /\ \A t, u \in Threads : list[t] = list[u] /\ list[t] # None => t = u
    /\ \A x \in Elements(free) :
           x \notin Elements(unallocated) /\ x \notin kept /\ ~ BoundIn(list, x) /\ x # UtilityTcs
    /\ \A x \in Elements(unallocated) :
           x \notin kept /\ ~ BoundIn(list, x) /\ x # UtilityTcs
    /\ \A x \in kept : ~ BoundIn(list, x) /\ x # UtilityTcs
    /\ \A x \in Tcs : BoundIn(list, x) => x # UtilityTcs
    /\ \A x \in Tcs :
           \/ x \in Elements(free) \/ x \in Elements(unallocated) \/ BoundIn(list, x)
           \/ x \in kept \/ x = UtilityTcs

\* All the ecalls of a thread are on the TCS bound to it, and its reference count
\* is their number; the count of a TCS bound to nobody is zero.
Counted(list, reference, runs) ==
    /\ \A t \in Threads : \A i \in 1..Len(runs[t]) : runs[t][i] = list[t]
    /\ \A t \in Threads : list[t] # None => reference[list[t]] = Len(runs[t])
    /\ \A x \in Tcs : ~ BoundIn(list, x) => reference[x] = 0

\* The ecalls of a thread, by where it is.
NestInv ==
    \A t \in Threads :
        /\ Len(running[t]) <= MaxNest
        /\ tpc[t] = "out" => running[t] = <<>>
        /\ tpc[t] \in {"in", "waitnew"} => running[t] # <<>>
        /\ tpc[t] = "wait" => Len(running[t]) < MaxNest

\* The places now.  A lost TCS is kept, like a reserved one, but nobody has it.
Kept == reserved \cup lost

AllPlaced ==
    /\ Placed(m_free_thread_vector, m_unallocated_threads, m_thread_list, Kept)
    /\ reserved \cap lost = {}

\* The inductive invariant.
PoolInv ==
    /\ PoolTypeOK
    /\ AllPlaced
    /\ Counted(m_thread_list, m_reference, running)
    /\ NestInv
    /\ filler = "make" => m_unallocated_threads # <<>>

-----------------------------------------------------------------------------
(* Sequences without repetition.                                           *)

LEMMA ElementsAre ==
    ASSUME NEW S, NEW s \in Seq(S)
    PROVE  /\ DOMAIN s = 1..Len(s) /\ Len(s) \in Nat
           /\ \A x : x \in Elements(s) <=> \E i \in 1..Len(s) : s[i] = x
           /\ Elements(s) \subseteq S
BY DEF Elements

LEMMA FrontFacts ==
    ASSUME NEW S, NEW s \in Seq(S), s # <<>>
    PROVE  /\ Front(s) \in Seq(S) /\ Len(Front(s)) = Len(s) - 1
           /\ Len(s) \in Nat \ {0} /\ Last(s) \in S
           /\ \A i \in 1..(Len(s) - 1) : Front(s)[i] = s[i]
<1> DEFINE n == Len(s)
           f == SubSeq(s, 1, n - 1)
<1>1. n \in Nat \ {0} /\ n - 1 \in Nat /\ \A i \in 1..n : s[i] \in S
  OBVIOUS
<1>2. s \in Seq(S) /\ n = Len(s)
  OBVIOUS
<1> HIDE DEF n
<1>4. f \in Seq(S) /\ Len(f) = n - 1 /\ \A i \in 1..(n - 1) : f[i] = s[i]
  BY <1>1, <1>2
<1>3. s[n] \in S
  BY <1>1
<1> QED
  BY <1>1, <1>2, <1>3, <1>4, Zenon DEF Front, Last

\* pop_back.
LEMMA PopLast ==
    ASSUME NEW S, NEW s \in Seq(S), s # <<>>, Once(s)
    PROVE  /\ Front(s) \in Seq(S) /\ Once(Front(s))
           /\ Last(s) \in Elements(s) /\ Last(s) \in S
           /\ \A x : x \in Elements(Front(s)) <=> x \in Elements(s) /\ x # Last(s)
<1>1. PICK f \in Seq(S) : /\ f = Front(s) /\ Len(f) = Len(s) - 1 /\ Last(s) \in S
                          /\ Len(s) \in Nat \ {0}
                          /\ \A i \in 1..(Len(s) - 1) : f[i] = s[i]
  BY FrontFacts
<1>2. PICK n \in Nat \ {0} : n = Len(s) /\ Len(f) = n - 1
  BY <1>1
<1>3. \A i, j \in 1..n : s[i] = s[j] => i = j
  BY <1>2, ElementsAre DEF Once
<1>4. Once(f)
  <2>1. \A i, j \in 1..(n - 1) : f[i] = f[j] => i = j
    BY <1>1, <1>2, <1>3
  <2> QED
    BY <1>2, <2>1, ElementsAre DEF Once
<1>5. Last(s) = s[n] /\ n \in 1..n
  BY <1>2 DEF Last
<1>6. \A x : (\E i \in 1..(n - 1) : f[i] = x) <=> (\E i \in 1..n : s[i] = x) /\ x # s[n]
  BY <1>1, <1>2, <1>3
<1>7. \A x : /\ x \in Elements(s) <=> \E i \in 1..n : s[i] = x
             /\ x \in Elements(f) <=> \E i \in 1..(n - 1) : f[i] = x
  BY <1>2, ElementsAre
<1>8. \A x : x \in Elements(f) <=> x \in Elements(s) /\ x # Last(s)
  BY <1>5, <1>6, <1>7, Zenon
<1>9. Last(s) \in Elements(s)
  BY <1>5, <1>7, Zenon
<1> QED
  BY <1>1, <1>4, <1>8, <1>9, Zenon

\* push_back.
LEMMA PushLast ==
    ASSUME NEW S, NEW s \in Seq(S), NEW y \in S
    PROVE  /\ Append(s, y) \in Seq(S)
           /\ Once(s) /\ y \notin Elements(s) => Once(Append(s, y))
           /\ \A x : x \in Elements(Append(s, y)) <=> x \in Elements(s) \/ x = y
<1> DEFINE n == Len(s)
           a == Append(s, y)
<1>1. /\ n \in Nat /\ a \in Seq(S) /\ Len(a) = n + 1 /\ a[n + 1] = y
      /\ \A i \in 1..n : a[i] = s[i]
  OBVIOUS
<1>2. \A x : /\ x \in Elements(s) <=> \E i \in 1..n : s[i] = x
             /\ x \in Elements(a) <=> \E i \in 1..(n + 1) : a[i] = x
  <2> HIDE DEF a, n
  <2>1. n = Len(s)
    BY DEF n
  <2> QED
    BY <1>1, <2>1, ElementsAre
<1>3. DOMAIN s = 1..n /\ DOMAIN a = 1..(n + 1)
  BY <1>1
<1> HIDE DEF n, a
<1>4. n + 1 \in 1..(n + 1) /\ \A i : i \in 1..(n + 1) <=> i \in 1..n \/ i = n + 1
  BY <1>1
<1>5. \A x : x \in Elements(a) <=> x \in Elements(s) \/ x = y
  BY <1>1, <1>2, <1>4, Zenon
<1>6. ASSUME Once(s), y \notin Elements(s) PROVE Once(a)
  <2>1. \A i, j \in 1..n : s[i] = s[j] => i = j
    BY <1>3, <1>6, Zenon DEF Once
  <2>2. \A i \in 1..n : s[i] # y
    BY <1>2, <1>6, Zenon
  <2>3. \A i, j \in 1..(n + 1) : a[i] = a[j] => i = j
    BY <1>1, <1>4, <2>1, <2>2, Zenon
  <2> QED
    BY <1>3, <2>3, Zenon DEF Once
<1> QED
  BY <1>1, <1>5, <1>6, Zenon DEF a

\* A listing of a finite set has every element once.
LEMMA ListingOnce ==
    ASSUME NEW S, IsFiniteSet(S), NEW s \in Listings(S)
    PROVE  s \in Seq(S) /\ Once(s) /\ Elements(s) = S /\ (S # {} => s # <<>>)
<1>1. PICK n \in Nat : n = Cardinality(S)
  BY FS_CardinalityType
<1>2. s \in [1..n -> S] /\ Elements(s) = S
  BY <1>1 DEF Listings
<1>3. s \in Seq(S) /\ Len(s) = n
  BY <1>2
<1>4. s \in Surjection(1..n, S)
  BY <1>2 DEF Elements, Surjection
<1>5. IsFiniteSet(1..n) /\ Cardinality(1..n) = n
  BY FS_Interval
<1>6. s \in Injection(1..n, S)
  BY <1>1, <1>4, <1>5, FS_SurjSameCardinalityImpliesInj
<1>7. Once(s)
  BY <1>2, <1>6 DEF Once, Injection, IsInjective
<1>8. S # {} => s # <<>>
  BY <1>2 DEF Elements
<1> QED
  BY <1>2, <1>3, <1>7, <1>8

-----------------------------------------------------------------------------
(* TCS that change places.                                                 *)

\* A free TCS is bound to a thread that had none.
LEMMA BindFree ==
    ASSUME NEW free, NEW un, NEW list, NEW kept, Placed(free, un, list, kept), free # <<>>,
           NEW t \in Threads, list[t] = None,
           NEW l, l = [list EXCEPT ![t] = Last(free)]
    PROVE  Placed(Front(free), un, l, kept)
<1>1. PICK y \in Tcs : y = Last(free)
  BY PopLast DEF Placed
<1>2. PICK f \in Seq(Tcs) : f = Front(free)
  BY PopLast, SMTT(30) DEF Placed
<1>3. Once(f) /\ y \in Elements(free) /\ \A x : x \in Elements(f) <=> x \in Elements(free) /\ x # y
  BY <1>1, <1>2, PopLast DEF Placed
<1>4. l[t] = y /\ l \in [Threads -> Tcs \cup {None}] /\ \A u \in Threads \ {t} : l[u] = list[u]
  BY <1>1 DEF Placed
<1>5. \A x \in Tcs : BoundIn(l, x) <=> BoundIn(list, x) \/ x = y
  <2>1. None \notin Tcs
    BY PoolAssumption DEF Tcs
  <2> QED
    BY <1>4, <2>1 DEF BoundIn
<1>6. \A u, v \in Threads : l[u] = l[v] /\ l[u] # None => u = v
  <2>1. \A u \in Threads : list[u] # y
    BY <1>3 DEF Placed, BoundIn
  <2> QED
    BY <1>4, <2>1 DEF Placed
<1>7. /\ Elements(free) \subseteq Tcs /\ Elements(un) \subseteq Tcs /\ kept \subseteq Tcs
  BY ElementsAre DEF Placed
<1> QED
  BY <1>1, <1>2, <1>3, <1>4, <1>5, <1>6, <1>7, Zenon DEF Placed

\* A free TCS is set aside for a thread that will be created.
LEMMA KeepFree ==
    ASSUME NEW free, NEW un, NEW list, NEW kept, Placed(free, un, list, kept), free # <<>>
    PROVE  Placed(Front(free), un, list, kept \cup {Last(free)})
<1>1. PICK y \in Tcs : y = Last(free)
  BY PopLast DEF Placed
<1>2. PICK f \in Seq(Tcs) : f = Front(free)
  BY PopLast DEF Placed
<1>3. Once(f) /\ y \in Elements(free) /\ \A x : x \in Elements(f) <=> x \in Elements(free) /\ x # y
  BY <1>1, <1>2, PopLast DEF Placed
<1>4. Placed(f, un, list, kept \cup {y})
  BY <1>3 DEF Placed
<1> QED
  BY <1>1, <1>2, <1>4

\* A TCS that was set aside goes back to the free list.
LEMMA FreeKept ==
    ASSUME NEW free, NEW un, NEW list, NEW kept, Placed(free, un, list, kept),
           NEW x \in kept
    PROVE  Placed(Append(free, x), un, list, kept \ {x})
<1>1. free \in Seq(Tcs) /\ x \in Tcs /\ x \notin Elements(free) /\ Once(free)
  BY DEF Placed
<1>2. PICK f \in Seq(Tcs) : f = Append(free, x)
  BY <1>1, PushLast, Zenon
<1>3. Once(f) /\ \A y : y \in Elements(f) <=> y \in Elements(free) \/ y = x
  BY <1>1, <1>2, PushLast
<1>4. Placed(f, un, list, kept \ {x})
  BY <1>1, <1>3 DEF Placed
<1> QED
  BY <1>2, <1>4

\* A TCS that was set aside is bound to its thread.
LEMMA BindKept ==
    ASSUME NEW free, NEW un, NEW list, NEW kept, Placed(free, un, list, kept),
           NEW x \in kept, NEW t \in Threads, list[t] = None,
           NEW l, l = [list EXCEPT ![t] = x]
    PROVE  Placed(free, un, l, kept \ {x})
<1>1. x \in Tcs
  BY DEF Placed
<1>2. l[t] = x /\ l \in [Threads -> Tcs \cup {None}] /\ \A u \in Threads \ {t} : l[u] = list[u]
  BY <1>1 DEF Placed
<1>3. \A y \in Tcs : BoundIn(l, y) <=> BoundIn(list, y) \/ y = x
  <2>1. None \notin Tcs
    BY PoolAssumption DEF Tcs
  <2> QED
    BY <1>1, <1>2, <2>1 DEF BoundIn
<1>4. \A u, v \in Threads : l[u] = l[v] /\ l[u] # None => u = v
  <2>1. \A u \in Threads : list[u] # x
    BY DEF Placed, BoundIn
  <2> QED
    BY <1>2, <2>1 DEF Placed
<1>5. /\ Elements(free) \subseteq Tcs /\ Elements(un) \subseteq Tcs
  BY ElementsAre DEF Placed
<1> QED
  BY <1>1, <1>2, <1>3, <1>4, <1>5, Zenon DEF Placed

\* The filler makes an unallocated TCS free.
LEMMA FreeUnallocated ==
    ASSUME NEW free, NEW un, NEW list, NEW kept, Placed(free, un, list, kept), un # <<>>
    PROVE  Placed(Append(free, Last(un)), Front(un), list, kept)
<1>1. PICK y \in Tcs : y = Last(un)
  BY PopLast DEF Placed
<1>2. PICK n \in Seq(Tcs) : n = Front(un)
  BY PopLast DEF Placed
<1>3. Once(n) /\ y \in Elements(un) /\ \A x : x \in Elements(n) <=> x \in Elements(un) /\ x # y
  BY <1>1, <1>2, PopLast DEF Placed
<1>4. free \in Seq(Tcs) /\ y \notin Elements(free) /\ Once(free)
  BY <1>3 DEF Placed
<1>5. PICK f \in Seq(Tcs) : f = Append(free, y)
  BY <1>4, PushLast, Zenon
<1>6. Once(f) /\ \A x : x \in Elements(f) <=> x \in Elements(free) \/ x = y
  BY <1>4, <1>5, PushLast
<1>7. Placed(f, n, list, kept)
  BY <1>3, <1>6 DEF Placed
<1> QED
  BY <1>1, <1>2, <1>5, <1>7

-----------------------------------------------------------------------------
(* Reference counts.                                                       *)

LEMMA NoneIsNoTcs == None \notin Tcs
BY PoolAssumption DEF Tcs

\* A thread that has no TCS has no ecalls.
LEMMA CountBind ==
    ASSUME NEW list \in [Threads -> Tcs \cup {None}], NEW reference,
           NEW runs \in [Threads -> Seq(Tcs)], Counted(list, reference, runs),
           NEW t \in Threads, list[t] = None, NEW x \in Tcs, ~ BoundIn(list, x),
           NEW l, l = [list EXCEPT ![t] = x]
    PROVE  Counted(l, reference, runs) /\ runs[t] = <<>>
<1>1. l[t] = x /\ \A u \in Threads \ {t} : l[u] = list[u]
  OBVIOUS
<1>2. Len(runs[t]) = 0 /\ runs[t] = <<>>
  <2>1. \A i \in 1..Len(runs[t]) : runs[t][i] \in Tcs /\ runs[t][i] = None
    BY DEF Counted
  <2>2. Len(runs[t]) \in Nat /\ (Len(runs[t]) = 0 <=> runs[t] = <<>>)
    OBVIOUS
  <2>3. ~ (1 \in 1..Len(runs[t]))
    BY <2>1, NoneIsNoTcs
  <2> QED
    BY <2>2, <2>3
<1>3. reference[x] = 0
  BY DEF Counted
<1>4. \A u \in Threads : \A i \in 1..Len(runs[u]) : runs[u][i] = l[u]
  BY <1>1, <1>2 DEF Counted
<1>5. \A u \in Threads : l[u] # None => reference[l[u]] = Len(runs[u])
  BY <1>1, <1>2, <1>3 DEF Counted
<1>6. \A y \in Tcs : ~ BoundIn(l, y) => ~ BoundIn(list, y)
  BY <1>1, NoneIsNoTcs DEF BoundIn
<1> QED
  BY <1>2, <1>4, <1>5, <1>6, Zenon DEF Counted

LEMMA AppendFacts ==
    ASSUME NEW q \in Seq(Tcs), NEW x \in Tcs
    PROVE  /\ Append(q, x) \in Seq(Tcs) /\ Len(Append(q, x)) = Len(q) + 1
           /\ Append(q, x) # <<>> /\ Append(q, x)[Len(q) + 1] = x /\ Len(q) \in Nat
           /\ \A i \in 1..Len(q) : Append(q, x)[i] = q[i]
<1>1. Append(q, x) \in Seq(Tcs) /\ Len(Append(q, x)) = Len(q) + 1 /\ Len(q) \in Nat
  OBVIOUS
<1>2. Append(q, x)[Len(q) + 1] = x /\ \A i \in 1..Len(q) : Append(q, x)[i] = q[i]
  OBVIOUS
<1>3. Append(q, x) # <<>>
  BY <1>1
<1> QED
  BY <1>1, <1>2, <1>3

\* increase_ref: the counts and the ecalls before, and r and s after it.
Pushed(list, reference, runs, t, r, s) ==
    /\ list \in [Threads -> Tcs \cup {None}]
    /\ \A u, v \in Threads : list[u] = list[v] /\ list[u] # None => u = v
    /\ reference \in [Tcs -> Nat] /\ runs \in [Threads -> Seq(Tcs)]
    /\ Counted(list, reference, runs)
    /\ list[t] # None
    /\ r = [reference EXCEPT ![list[t]] = @ + 1]
    /\ s = [runs EXCEPT ![t] = Append(@, list[t])]

LEMMA CountPush ==
    ASSUME NEW list, NEW reference, NEW runs, NEW t \in Threads, NEW r, NEW s,
           Pushed(list, reference, runs, t, r, s)
    PROVE  Counted(list, r, s) /\ r \in [Tcs -> Nat] /\ s \in [Threads -> Seq(Tcs)]
<1>p. /\ list \in [Threads -> Tcs \cup {None}]
      /\ \A u, v \in Threads : list[u] = list[v] /\ list[u] # None => u = v
      /\ reference \in [Tcs -> Nat] /\ runs \in [Threads -> Seq(Tcs)]
      /\ Counted(list, reference, runs)
      /\ list[t] # None
      /\ r = [reference EXCEPT ![list[t]] = @ + 1]
      /\ s = [runs EXCEPT ![t] = Append(@, list[t])]
  BY DEF Pushed
<1> USE <1>p
<1>1. list[t] \in Tcs
  OBVIOUS
<1>0. runs[t] \in Seq(Tcs)
  OBVIOUS
<1>a. PICK a \in Seq(Tcs) : a = Append(runs[t], list[t])
  BY <1>0, <1>1, AppendFacts, Zenon
<1>b. /\ Len(a) = Len(runs[t]) + 1 /\ a[Len(runs[t]) + 1] = list[t] /\ Len(runs[t]) \in Nat
      /\ a # <<>> /\ \A i \in 1..Len(runs[t]) : a[i] = runs[t][i]
  BY <1>0, <1>1, <1>a, AppendFacts, Zenon
<1>2. /\ a = Append(runs[t], list[t]) /\ Len(a) = Len(runs[t]) + 1 /\ a[Len(a)] = list[t]
      /\ Len(runs[t]) \in Nat /\ a # <<>> /\ \A i \in 1..Len(runs[t]) : a[i] = runs[t][i]
  BY <1>a, <1>b
<1>3. /\ s[t] = a /\ s \in [Threads -> Seq(Tcs)] /\ \A u \in Threads \ {t} : s[u] = runs[u]
  BY <1>2, Zenon
<1>4. /\ r[list[t]] = reference[list[t]] + 1 /\ r \in [Tcs -> Nat]
      /\ \A x \in Tcs \ {list[t]} : r[x] = reference[x]
  BY <1>1
<1>5. \A u \in Threads : \A i \in 1..Len(s[u]) : s[u][i] = list[u]
  <2>1. \A i \in 1..Len(a) : a[i] = list[t]
    <3>1. \A i \in 1..Len(runs[t]) : runs[t][i] = list[t]
      BY DEF Counted
    <3> QED
      BY <1>2, <3>1
  <2>2. \A u \in Threads \ {t} : \A i \in 1..Len(s[u]) : s[u][i] = list[u]
    BY <1>3 DEF Counted
  <2> QED
    BY <1>3, <2>1, <2>2, ZenonT(40)
<1>6. \A u \in Threads : list[u] # None => r[list[u]] = Len(s[u])
  <2>1. ASSUME NEW u \in Threads \ {t}, list[u] # None PROVE r[list[u]] = Len(s[u])
    BY <1>3, <1>4, <2>1 DEF Counted
  <2>2. r[list[t]] = Len(s[t])
    BY <1>2, <1>3, <1>4 DEF Counted
  <2> QED
    BY <2>1, <2>2
<1>7. \A x \in Tcs : ~ BoundIn(list, x) => r[x] = 0
  BY <1>4 DEF Counted, BoundIn
<1> QED
  BY <1>2, <1>3, <1>4, <1>5, <1>6, <1>7 DEF Counted

\* decrease_ref: the counts and the ecalls before, and r and s after it.
Popped(list, reference, runs, t, r, s) ==
    /\ list \in [Threads -> Tcs \cup {None}]
    /\ \A u, v \in Threads : list[u] = list[v] /\ list[u] # None => u = v
    /\ reference \in [Tcs -> Nat] /\ runs \in [Threads -> Seq(Tcs)]
    /\ Counted(list, reference, runs)
    /\ runs[t] # <<>>
    /\ r = [reference EXCEPT ![Last(runs[t])] = @ - 1]
    /\ s = [runs EXCEPT ![t] = Front(@)]

LEMMA CountPop ==
    ASSUME NEW list, NEW reference, NEW runs, NEW t \in Threads, NEW r, NEW s,
           Popped(list, reference, runs, t, r, s)
    PROVE  Counted(list, r, s) /\ r \in [Tcs -> Nat] /\ s \in [Threads -> Seq(Tcs)]
<1>p. /\ list \in [Threads -> Tcs \cup {None}]
      /\ \A u, v \in Threads : list[u] = list[v] /\ list[u] # None => u = v
      /\ reference \in [Tcs -> Nat] /\ runs \in [Threads -> Seq(Tcs)]
      /\ Counted(list, reference, runs)
      /\ runs[t] # <<>>
      /\ r = [reference EXCEPT ![Last(runs[t])] = @ - 1]
      /\ s = [runs EXCEPT ![t] = Front(@)]
  BY DEF Popped
<1> USE <1>p
<1>1. PICK a \in Seq(Tcs) : /\ a = Front(runs[t]) /\ Len(a) = Len(runs[t]) - 1
                            /\ Len(runs[t]) \in Nat \ {0} /\ Last(runs[t]) \in Tcs
                            /\ \A i \in 1..(Len(runs[t]) - 1) : a[i] = runs[t][i]
  <2>1. runs[t] \in Seq(Tcs)
    OBVIOUS
  <2> QED
    BY <2>1, FrontFacts, ZenonT(40)
<1>2. Last(runs[t]) = list[t] /\ list[t] \in Tcs
  BY <1>1 DEF Counted, Last
<1>0. PICK n \in Nat \ {0} : n = Len(runs[t]) /\ Len(a) = n - 1
  BY <1>1
<1>3. list[t] # None /\ reference[list[t]] = Len(runs[t])
  BY <1>2, NoneIsNoTcs DEF Counted
<1>4. /\ s[t] = a /\ s \in [Threads -> Seq(Tcs)] /\ \A u \in Threads \ {t} : s[u] = runs[u]
  BY <1>1, Zenon
<1>5. /\ r[list[t]] = reference[list[t]] - 1
      /\ \A x \in Tcs \ {list[t]} : r[x] = reference[x]
  BY <1>2
<1>6. r \in [Tcs -> Nat]
  BY <1>1, <1>2, <1>3
<1>7. \A u \in Threads : \A i \in 1..Len(s[u]) : s[u][i] = list[u]
  <2>1. \A i \in 1..Len(a) : a[i] = list[t]
    <3>1. \A i \in 1..Len(runs[t]) : runs[t][i] = list[t]
      BY DEF Counted
    <3>2. \A i \in 1..(n - 1) : i \in 1..n
      OBVIOUS
    <3> QED
      BY <1>0, <1>1, <3>1, <3>2, Zenon
  <2>2. \A u \in Threads \ {t} : \A i \in 1..Len(s[u]) : s[u][i] = list[u]
    BY <1>4 DEF Counted
  <2> QED
    BY <1>4, <2>1, <2>2
<1>8. \A u \in Threads : list[u] # None => r[list[u]] = Len(s[u])
  <2>1. ASSUME NEW u \in Threads \ {t}, list[u] # None PROVE r[list[u]] = Len(s[u])
    BY <1>4, <1>5, <2>1 DEF Counted
  <2>2. r[list[t]] = Len(s[t])
    BY <1>1, <1>3, <1>4, <1>5
  <2> QED
    BY <2>1, <2>2
<1>9. \A x \in Tcs : ~ BoundIn(list, x) => r[x] = 0
  BY <1>5 DEF Counted, BoundIn
<1> QED
  BY <1>1, <1>2, <1>3, <1>4, <1>6, <1>7, <1>8, <1>9 DEF Counted

-----------------------------------------------------------------------------
(* Taking a TCS, with garbage collection.                                  *)

\* Garbage collection takes back only TCS that no ecall is on.
LEMMA CollectedFacts ==
    ASSUME PoolInv, NEW seen, m_free_thread_vector = <<>>,
           NEW free \in Collected(seen), NEW list, list = Unbound(seen)
    PROVE  /\ Placed(free, m_unallocated_threads, list, Kept)
           /\ Counted(list, m_reference, running)
           /\ \A t \in Threads : m_thread_list[t] = None => list[t] = None
<1> DEFINE C == Collectable(seen)
           S == {m_thread_list[t] : t \in C}
<1> USE DEF PoolInv, AllPlaced
<1>1. /\ m_thread_list \in [Threads -> Tcs \cup {None}]
      /\ \A t, u \in Threads : m_thread_list[t] = m_thread_list[u] /\ m_thread_list[t] # None => t = u
      /\ running \in [Threads -> Seq(Tcs)] /\ Kept \subseteq Tcs
      /\ m_unallocated_threads \in Seq(Tcs)
  BY DEF Placed, PoolTypeOK
<1>2. /\ C \subseteq Threads
      /\ \A t \in C : m_thread_list[t] # None /\ m_reference[m_thread_list[t]] = 0
  BY DEF Collectable, Bound
<1>3. S \subseteq Tcs /\ IsFiniteSet(S)
  <2>1. S \subseteq Tcs
    BY <1>1, <1>2
  <2> QED
    BY <2>1, PoolAssumption, FS_Subset
<1>4. free \in Seq(S) /\ Once(free) /\ Elements(free) = S
  BY <1>3, ListingOnce DEF Collected
<1>5. free \in Seq(Tcs)
  BY <1>3, <1>4
<1>6. \A t \in Threads : list[t] = IF t \in C THEN None ELSE m_thread_list[t]
  BY DEF Unbound
<1>7. list \in [Threads -> Tcs \cup {None}]
  BY <1>1 DEF Unbound
<1>8. \A x \in Tcs : BoundIn(list, x) <=> BoundIn(m_thread_list, x) /\ x \notin S
  BY <1>1, <1>2, <1>6, NoneIsNoTcs DEF BoundIn
<1>9. \A x \in S : BoundIn(m_thread_list, x)
  BY <1>2 DEF BoundIn
<1> HIDE DEF C, S
<1>10. Placed(free, m_unallocated_threads, list, Kept)
  <2>1. \A t, u \in Threads : list[t] = list[u] /\ list[t] # None => t = u
    BY <1>1, <1>6
  <2>2. \A x \in Elements(free) : /\ x \notin Elements(m_unallocated_threads) /\ x \notin Kept
                                  /\ ~ BoundIn(list, x) /\ x # UtilityTcs
    BY <1>3, <1>4, <1>8, <1>9 DEF Placed
  <2>3. \A x \in Elements(m_unallocated_threads) :
           x \notin Kept /\ ~ BoundIn(list, x) /\ x # UtilityTcs
    BY <1>1, <1>8, ElementsAre DEF Placed
  <2>4. /\ \A x \in Kept : ~ BoundIn(list, x) /\ x # UtilityTcs
        /\ \A x \in Tcs : BoundIn(list, x) => x # UtilityTcs
    BY <1>1, <1>8 DEF Placed
  <2>5. \A x \in Tcs :
           \/ x \in Elements(free) \/ x \in Elements(m_unallocated_threads) \/ BoundIn(list, x)
           \/ x \in Kept \/ x = UtilityTcs
    <3>1. \A x : x \notin Elements(m_free_thread_vector)
      BY DEF Elements
    <3> QED
      BY <1>4, <1>8, <3>1 DEF Placed
  <2> QED
    BY <1>1, <1>4, <1>5, <1>7, <2>1, <2>2, <2>3, <2>4, <2>5, SMTT(30) DEF Placed
<1>11. Counted(list, m_reference, running)
  <2>1. \A t \in C : Len(running[t]) = 0
    BY <1>2 DEF Counted
  <2>2. \A t \in Threads : \A i \in 1..Len(running[t]) : running[t][i] = list[t]
    BY <1>1, <1>6, <2>1 DEF Counted
  <2>3. \A t \in Threads : list[t] # None => m_reference[list[t]] = Len(running[t])
    BY <1>6 DEF Counted
  <2>4. \A x \in S : m_reference[x] = 0
    BY <1>2 DEF S
  <2>5. \A x \in Tcs : ~ BoundIn(list, x) => m_reference[x] = 0
    BY <1>8, <2>4 DEF Counted
  <2> QED
    BY <2>2, <2>3, <2>5 DEF Counted
<1> QED
  BY <1>6, <1>10, <1>11

\* What get_free_thread pops, and the list of bound threads then.
LEMMA FreeFacts ==
    ASSUME PoolInv, NEW free, NEW list, FreeOrCollected(free, list)
    PROVE  /\ Placed(free, m_unallocated_threads, list, Kept)
           /\ Counted(list, m_reference, running)
           /\ free # <<>>
           /\ \A t \in Threads : m_thread_list[t] = None => list[t] = None
<1>1. CASE free # <<>> /\ free = m_free_thread_vector /\ list = m_thread_list
  BY <1>1 DEF PoolInv, AllPlaced
<1>2. CASE /\ m_free_thread_vector = <<>>
           /\ \E seen \in SUBSET alive :
                 /\ Collectable(seen) # {}
                 /\ free \in Collected(seen)
                 /\ list = Unbound(seen)
  <2>1. PICK seen \in SUBSET alive :
           Collectable(seen) # {} /\ free \in Collected(seen) /\ list = Unbound(seen)
    BY <1>2
  <2>2. free # <<>>
    <3>1. Elements(free) # {}
      BY <2>1, ZenonT(40) DEF Collected, Listings
    <3> QED
      BY <3>1 DEF Elements
  <2> QED
    BY <1>2, <2>1, <2>2, CollectedFacts
<1> QED
  BY <1>1, <1>2 DEF FreeOrCollected

\* One more ecall on the stack of t.
LEMMA PushedRuns ==
    ASSUME NEW runs \in [Threads -> Seq(Tcs)], NEW t \in Threads, NEW x \in Tcs,
           NEW s, s = [runs EXCEPT ![t] = Append(@, x)]
    PROVE  /\ Len(s[t]) = Len(runs[t]) + 1 /\ s[t] # <<>>
           /\ \A u \in Threads \ {t} : s[u] = runs[u]
<1>1. runs[t] \in Seq(Tcs) /\ s[t] = Append(runs[t], x)
  OBVIOUS
<1>2. Len(s[t]) = Len(runs[t]) + 1 /\ s[t] # <<>>
  BY <1>1, AppendFacts
<1> QED
  BY <1>2

\* _acquire_thread and increase_ref.
LEMMA FoundFacts ==
    ASSUME PoolInv, NEW t \in Threads, Found(t),
           UNCHANGED <<m_unallocated_threads, reserved, lost>>
    PROVE  /\ AllPlaced'
           /\ Counted(m_thread_list, m_reference, running)'
           /\ m_reference' \in [Tcs -> Nat] /\ running' \in [Threads -> Seq(Tcs)]
           /\ Len(running'[t]) = Len(running[t]) + 1 /\ running'[t] # <<>>
           /\ \A u \in Threads \ {t} : running'[u] = running[u]
<1>1. m_reference \in [Tcs -> Nat] /\ running \in [Threads -> Seq(Tcs)]
  BY DEF PoolInv, AllPlaced, PoolTypeOK
<1>2. CASE AcquireBound(t)
  <2>1. /\ m_thread_list \in [Threads -> Tcs \cup {None}]
        /\ \A u, v \in Threads :
               m_thread_list[u] = m_thread_list[v] /\ m_thread_list[u] # None => u = v
        /\ Counted(m_thread_list, m_reference, running)
    BY DEF PoolInv, AllPlaced, Placed
  <2>2. /\ Counted(m_thread_list, m_reference', running')
        /\ m_reference' \in [Tcs -> Nat] /\ running' \in [Threads -> Seq(Tcs)]
        /\ Len(running'[t]) = Len(running[t]) + 1 /\ running'[t] # <<>>
        /\ \A u \in Threads \ {t} : running'[u] = running[u]
    <3>1. PICK r, s : /\ r = m_reference' /\ r = [m_reference EXCEPT ![m_thread_list[t]] = @ + 1]
                      /\ s = running' /\ s = [running EXCEPT ![t] = Append(@, m_thread_list[t])]
      BY <1>2 DEF AcquireBound
    <3>2. m_thread_list[t] # None
      BY <1>2 DEF AcquireBound
    <3>3. /\ Counted(m_thread_list, r, s) /\ r \in [Tcs -> Nat] /\ s \in [Threads -> Seq(Tcs)]
          /\ Len(s[t]) = Len(running[t]) + 1 /\ s[t] # <<>>
          /\ \A u \in Threads \ {t} : s[u] = running[u]
      <4>1. Pushed(m_thread_list, m_reference, running, t, r, s)
        BY <1>1, <2>1, <3>1, <3>2 DEF Pushed
      <4>2. /\ Counted(m_thread_list, r, s) /\ r \in [Tcs -> Nat]
            /\ s \in [Threads -> Seq(Tcs)]
        BY <4>1, CountPush, Zenon
      <4>3. PICK y \in Tcs : y = m_thread_list[t] /\ s = [running EXCEPT ![t] = Append(@, y)]
        BY <2>1, <3>1, <3>2, Zenon
      <4>4. /\ Len(s[t]) = Len(running[t]) + 1 /\ s[t] # <<>>
            /\ \A u \in Threads \ {t} : s[u] = running[u]
        BY <1>1, <4>3, PushedRuns
      <4> QED
        BY <4>2, <4>4
    <3> QED
      BY <3>1, <3>3
  <2> QED
    BY <1>2, <2>2 DEF AcquireBound, PoolInv, AllPlaced, Kept
<1>3. CASE AcquireNew(t)
  <2>1. PICK free, list :
           /\ FreeOrCollected(free, list)
           /\ m_free_thread_vector' = Front(free)
           /\ m_thread_list' = [list EXCEPT ![t] = Last(free)]
           /\ m_reference' = [m_reference EXCEPT ![Last(free)] = @ + 1]
           /\ running' = [running EXCEPT ![t] = Append(@, Last(free))]
    BY <1>3, Zenon DEF AcquireNew
  <2>2. /\ Placed(free, m_unallocated_threads, list, Kept)
        /\ Counted(list, m_reference, running) /\ free # <<>> /\ list[t] = None
    BY <1>3, <2>1, FreeFacts DEF AcquireNew
  <2>3. PICK y \in Tcs : y = Last(free) /\ y \in Elements(free)
    BY <2>2, PopLast DEF Placed
  <2>4. ~ BoundIn(list, y) /\ list \in [Threads -> Tcs \cup {None}]
    BY <2>2, <2>3 DEF Placed
  <2>5. PICK l : l = [list EXCEPT ![t] = y] /\ l = m_thread_list'
    BY <2>1, <2>3
  <2>6. Placed(Front(free), m_unallocated_threads, l, Kept)
    BY <2>2, <2>3, <2>5, BindFree, Zenon
  <2>7. Counted(l, m_reference, running)
    BY <1>1, <2>2, <2>4, <2>5, CountBind, ZenonT(40)
  <2>8. /\ l \in [Threads -> Tcs \cup {None}] /\ l[t] = y /\ y # None
        /\ \A u, v \in Threads : l[u] = l[v] /\ l[u] # None => u = v
    BY <2>4, <2>5, <2>6, NoneIsNoTcs DEF Placed
  <2>9. PICK r, s : /\ r = m_reference' /\ r = [m_reference EXCEPT ![l[t]] = @ + 1]
                    /\ s = running' /\ s = [running EXCEPT ![t] = Append(@, l[t])]
    BY <2>1, <2>3, <2>8
  <2>10. /\ Counted(l, r, s) /\ r \in [Tcs -> Nat] /\ s \in [Threads -> Seq(Tcs)]
         /\ Len(s[t]) = Len(running[t]) + 1 /\ s[t] # <<>>
         /\ \A u \in Threads \ {t} : s[u] = running[u]
    <3>1. Pushed(l, m_reference, running, t, r, s)
      BY <1>1, <2>7, <2>8, <2>9 DEF Pushed
    <3>2. Counted(l, r, s) /\ r \in [Tcs -> Nat] /\ s \in [Threads -> Seq(Tcs)]
      BY <3>1, CountPush, Zenon
    <3> QED
      BY <1>1, <2>8, <2>9, <3>2, PushedRuns
  <2>11. AllPlaced'
    BY <2>1, <2>5, <2>6 DEF AllPlaced, Kept, PoolInv
  <2> QED
    BY <2>9, <2>10, <2>11, <2>5, Zenon
<1> QED
  BY <1>2, <1>3 DEF Found

\* _acquire_free_thread and reset_ref.
LEMMA ReserveFacts ==
    ASSUME PoolInv, Reserve, UNCHANGED <<m_unallocated_threads, running, lost>>
    PROVE  /\ AllPlaced'
           /\ Counted(m_thread_list, m_reference, running)'
           /\ m_reference' = m_reference
<1>1. PICK free, list :
         /\ FreeOrCollected(free, list)
         /\ m_free_thread_vector' = Front(free)
         /\ m_thread_list' = list
         /\ m_reference' = [m_reference EXCEPT ![Last(free)] = 0]
         /\ reserved' = reserved \cup {Last(free)}
  BY Zenon DEF Reserve
<1>2. /\ Placed(free, m_unallocated_threads, list, Kept)
      /\ Counted(list, m_reference, running) /\ free # <<>>
  BY <1>1, FreeFacts
<1>3. PICK y \in Tcs : y = Last(free) /\ y \in Elements(free)
  BY <1>2, PopLast DEF Placed
<1>4. m_reference[y] = 0
  BY <1>2, <1>3 DEF Placed, Counted
<1>5. m_reference' = m_reference
  BY <1>1, <1>3, <1>4 DEF PoolInv, AllPlaced, PoolTypeOK
<1>6. Placed(Front(free), m_unallocated_threads, list, Kept \cup {Last(free)})
  BY <1>2, KeepFree
<1>7. Kept' = Kept \cup {Last(free)} /\ Last(free) \notin Kept
  BY <1>1, <1>2, <1>3 DEF Kept, Placed
<1>8. AllPlaced'
  <2>1. (reserved \cap lost = {})'
    BY <1>1, <1>7 DEF Kept, PoolInv, AllPlaced
  <2> QED
    BY <1>1, <1>6, <1>7, <2>1 DEF AllPlaced
<1> QED
  BY <1>1, <1>2, <1>5, <1>8

-----------------------------------------------------------------------------
(* One lemma per action.                                                   *)

FillerStates == {"none", "need", "make", "go", "stop", "wait", "asleep"}

\* Asking for more changes the event, and may end the filler's sleep.
LEMMA AskKeepsType ==
    ASSUME PoolTypeOK, AskForMore \/ WakeFiller
    PROVE  /\ m_new_thread_event' \in -EventDepth..MaxEvents
           /\ filler' \in FillerStates
           /\ filler' = "make" => filler = "make"
<1>1. /\ m_new_thread_event \in -EventDepth..MaxEvents /\ MaxEvents \in Nat /\ EventDepth \in Nat
      /\ filler \in FillerStates
  BY PoolAssumption DEF PoolTypeOK, FillerStates
<1>2. CASE WakeFiller
  <2>1. m_new_thread_event' \in -EventDepth..MaxEvents
    BY <1>1, <1>2 DEF WakeFiller
  <2>2. filler' = filler \/ filler' = "need"
    BY <1>2, Zenon DEF WakeFiller
  <2> QED
    BY <1>1, <2>1, <2>2 DEF FillerStates
<1>3. CASE UNCHANGED <<m_new_thread_event, filler>>
  BY <1>1, <1>3
<1> QED
  BY <1>2, <1>3 DEF AskForMore

\* The type invariant follows from the places and from what steps assign.
LEMMA TypeFromParts ==
    ASSUME AllPlaced',
           m_reference' \in [Tcs -> Nat], running' \in [Threads -> Seq(Tcs)],
           bind' \in BOOLEAN, prompt' \in BOOLEAN, failed' \in BOOLEAN,
           m_thread_mutex' \in Threads \cup {None},
           m_need_to_wait_for_new_thread' \in BOOLEAN,
           m_new_thread_event' \in -EventDepth..MaxEvents,
           filler' \in FillerStates,
           tpc' \in [Threads -> {"out", "in", "wait", "waitnew"}],
           alive' \subseteq Threads
    PROVE  PoolTypeOK'
BY DEF Placed, AllPlaced, Kept, PoolTypeOK, FillerStates

LEMMA LenIsNat == \A r \in Seq(Tcs) : Len(r) \in Nat /\ (r = <<>> <=> Len(r) = 0)
OBVIOUS

LEMMA NestPush ==
    ASSUME NestInv, NEW t \in Threads, tpc \in [Threads -> {"out", "in", "wait", "waitnew"}],
           tpc' = [tpc EXCEPT ![t] = "in"],
           Len(running[t]) < MaxNest, Len(running[t]) \in Nat, MaxNest \in Nat,
           Len(running'[t]) = Len(running[t]) + 1, running'[t] # <<>>,
           \A u \in Threads \ {t} : running'[u] = running[u]
    PROVE  NestInv'
<1>1. tpc'[t] = "in" /\ \A u \in Threads \ {t} : tpc'[u] = tpc[u]
  OBVIOUS
<1>2. Len(running'[t]) <= MaxNest
  OBVIOUS
<1>3. \A u \in Threads \ {t} :
         /\ Len(running'[u]) <= MaxNest
         /\ tpc'[u] = "out" => running'[u] = <<>>
         /\ tpc'[u] \in {"in", "waitnew"} => running'[u] # <<>>
         /\ tpc'[u] = "wait" => Len(running'[u]) < MaxNest
  BY <1>1 DEF NestInv
<1> QED
  BY <1>1, <1>2, <1>3 DEF NestInv

LEMMA EcallStep ==
    ASSUME PoolInv, NEW t \in Threads, Ecall(t)
    PROVE  PoolInv'
<1> USE DEF PoolInv, AllPlaced
<1>1. Len(running[t]) < MaxNest /\ Len(running[t]) \in Nat /\ MaxNest \in Nat
  BY PoolAssumption, LenIsNat DEF Ecall, CanEnter, PoolTypeOK
<1>2. /\ AllPlaced'
      /\ Counted(m_thread_list, m_reference, running)'
      /\ m_reference' \in [Tcs -> Nat] /\ running' \in [Threads -> Seq(Tcs)]
      /\ Len(running'[t]) = Len(running[t]) + 1 /\ running'[t] # <<>>
      /\ \A u \in Threads \ {t} : running'[u] = running[u]
  BY FoundFacts DEF Ecall, modeVars
<1>3. /\ tpc \in [Threads -> {"out", "in", "wait", "waitnew"}]
      /\ tpc' = [tpc EXCEPT ![t] = "in"]
  BY DEF Ecall, PoolTypeOK
<1>4. PoolTypeOK'
  <2>1. /\ bind' \in BOOLEAN /\ prompt' \in BOOLEAN /\ failed' \in BOOLEAN
        /\ m_thread_mutex' \in Threads \cup {None}
        /\ m_need_to_wait_for_new_thread' \in BOOLEAN /\ alive' \subseteq Threads
    BY DEF Ecall, PoolTypeOK, modeVars
  <2>2. m_new_thread_event' \in -EventDepth..MaxEvents /\ filler' \in FillerStates
    BY AskKeepsType DEF Ecall
  <2>3. tpc' \in [Threads -> {"out", "in", "wait", "waitnew"}]
    BY <1>3
  <2> QED
    BY <1>2, <2>1, <2>2, <2>3, TypeFromParts
<1>5. NestInv'
  BY <1>1, <1>2, <1>3, NestPush, Zenon
<1>6. (filler = "make" => m_unallocated_threads # <<>>)'
  BY AskKeepsType DEF Ecall
<1> QED
  BY <1>2, <1>4, <1>5, <1>6

LEMMA EcallRetryStep ==
    ASSUME PoolInv, NEW t \in Threads, EcallRetry(t)
    PROVE  PoolInv'
<1> USE DEF PoolInv, AllPlaced
<1>1. Len(running[t]) < MaxNest /\ Len(running[t]) \in Nat /\ MaxNest \in Nat
  BY PoolAssumption, LenIsNat DEF EcallRetry, NestInv, PoolTypeOK
<1>2. tpc \in [Threads -> {"out", "in", "wait", "waitnew"}]
  BY DEF PoolTypeOK
<1>3. /\ bind' \in BOOLEAN /\ prompt' \in BOOLEAN /\ failed' \in BOOLEAN
        /\ m_thread_mutex' \in Threads \cup {None}
      /\ m_need_to_wait_for_new_thread' \in BOOLEAN /\ alive' \subseteq Threads
  BY DEF EcallRetry, PoolTypeOK, modeVars
<1>4. m_new_thread_event' \in -EventDepth..MaxEvents /\ filler' \in FillerStates
  BY AskKeepsType DEF EcallRetry
<1>5. (filler = "make" => m_unallocated_threads # <<>>)'
  BY AskKeepsType DEF EcallRetry
<1>6. CASE Found(t) /\ tpc' = [tpc EXCEPT ![t] = "in"]
  <2>1. /\ AllPlaced'
        /\ Counted(m_thread_list, m_reference, running)'
        /\ m_reference' \in [Tcs -> Nat] /\ running' \in [Threads -> Seq(Tcs)]
        /\ Len(running'[t]) = Len(running[t]) + 1 /\ running'[t] # <<>>
        /\ \A u \in Threads \ {t} : running'[u] = running[u]
    BY <1>6, FoundFacts DEF EcallRetry, modeVars
  <2>2. tpc' \in [Threads -> {"out", "in", "wait", "waitnew"}]
    BY <1>2, <1>6
  <2>3. PoolTypeOK'
    BY <1>3, <1>4, <2>1, <2>2, TypeFromParts, SMTT(30)
  <2>4. NestInv'
    BY <1>1, <1>2, <1>6, <2>1, NestPush, Zenon
  <2> QED
    BY <1>5, <2>1, <2>3, <2>4
<1>7. CASE /\ tpc' = [tpc EXCEPT ![t] = IF running[t] = <<>> THEN "out" ELSE "in"]
           /\ UNCHANGED <<m_free_thread_vector, m_thread_list, m_reference, running>>
  <2>1. /\ AllPlaced'
        /\ Counted(m_thread_list, m_reference, running)'
        /\ m_reference' \in [Tcs -> Nat] /\ running' \in [Threads -> Seq(Tcs)]
    BY <1>7 DEF EcallRetry, PoolTypeOK, modeVars, Kept
  <2>2. tpc' \in [Threads -> {"out", "in", "wait", "waitnew"}]
    BY <1>2, <1>7
  <2>3. PoolTypeOK'
    BY <1>3, <1>4, <2>1, <2>2, TypeFromParts
  <2>4. NestInv'
    BY <1>1, <1>2, <1>7 DEF NestInv
  <2> QED
    BY <1>5, <2>1, <2>3, <2>4
<1> QED
  BY <1>6, <1>7 DEF EcallRetry

\* Waiting for a new TCS, for an ecall or for a thread to be created.
LEMMA WaitStep ==
    ASSUME PoolInv, NEW t \in Threads, EcallWait(t) \/ CreateWait(t)
    PROVE  PoolInv'
<1> USE DEF PoolInv, AllPlaced
<1>1. PICK p \in {"wait", "waitnew"} :
         /\ WaitForNewThread(t, p)
         /\ p = "wait" => Len(running[t]) < MaxNest
         /\ p = "waitnew" => tpc[t] = "in"
  BY DEF EcallWait, CreateWait, CanEnter
<1>2. tpc \in [Threads -> {"out", "in", "wait", "waitnew"}] /\ tpc' = [tpc EXCEPT ![t] = p]
  BY <1>1 DEF PoolTypeOK, WaitForNewThread
<1>3. /\ AllPlaced'
      /\ Counted(m_thread_list, m_reference, running)'
      /\ (filler = "make" => m_unallocated_threads # <<>>)' /\ running' = running
  BY <1>1, AskKeepsType DEF WaitForNewThread, poolVars, modeVars, Kept
<1>4. m_new_thread_event' \in -EventDepth..MaxEvents /\ filler' \in FillerStates
  BY <1>1, AskKeepsType DEF WaitForNewThread
<1>5. PoolTypeOK'
  <2>1. tpc' \in [Threads -> {"out", "in", "wait", "waitnew"}]
    BY <1>1, <1>2
  <2>2. m_thread_mutex' \in Threads \cup {None} /\ m_need_to_wait_for_new_thread' \in BOOLEAN
    BY <1>1 DEF WaitForNewThread
  <2>3. /\ bind' = bind /\ prompt' = prompt /\ failed' = failed /\ lost' = lost
        /\ m_reference' = m_reference /\ alive' = alive /\ reserved' = reserved
        /\ running' = running
        /\ m_free_thread_vector' = m_free_thread_vector
        /\ m_unallocated_threads' = m_unallocated_threads
        /\ m_thread_list' = m_thread_list
    BY <1>1, Zenon DEF WaitForNewThread, poolVars, modeVars
  <2> QED
    BY <1>4, <2>1, <2>2, <2>3, Zenon DEF PoolTypeOK, FillerStates
<1>6. NestInv'
  BY <1>1, <1>2, <1>3, SMTT(30) DEF NestInv
<1> QED
  BY <1>3, <1>5, <1>6

\* The count of the TCS of the innermost ecall of a thread.
LEMMA InnermostCounted ==
    ASSUME PoolInv, NEW t \in Threads, tpc[t] = "in"
    PROVE  /\ running[t] \in Seq(Tcs) /\ running[t] # <<>> /\ Len(running[t]) \in Nat \ {0}
           /\ Last(running[t]) \in Tcs /\ m_reference[Last(running[t])] = Len(running[t])
<1>1. running[t] \in Seq(Tcs) /\ running[t] # <<>>
  BY DEF PoolInv, AllPlaced, PoolTypeOK, NestInv
<1>2. Len(running[t]) \in Nat \ {0} /\ Last(running[t]) \in Tcs
  BY <1>1, LenIsNat, FrontFacts
<1>3. Last(running[t]) = m_thread_list[t]
  BY <1>2 DEF PoolInv, AllPlaced, Counted, Last
<1> QED
  BY <1>1, <1>2, <1>3, NoneIsNoTcs DEF PoolInv, AllPlaced, Counted

\* The end of an ecall that lowers the count by one.
LEMMA PopStep ==
    ASSUME PoolInv, NEW t \in Threads, tpc[t] = "in",
           m_reference' = [m_reference EXCEPT ![Last(running[t])] = @ - 1],
           running' = [running EXCEPT ![t] = Front(@)],
           tpc' = [tpc EXCEPT ![t] = IF Len(running[t]) = 1 THEN "out" ELSE "in"],
           UNCHANGED <<modeVars, m_free_thread_vector, m_unallocated_threads, m_thread_list,
                       waitVars, filler, alive, reserved>>
    PROVE  PoolInv'
<1> USE DEF PoolInv, AllPlaced
<1>1. /\ running[t] \in Seq(Tcs) /\ running[t] # <<>> /\ Len(running[t]) \in Nat \ {0}
  BY InnermostCounted
<1>2. /\ m_reference \in [Tcs -> Nat] /\ running \in [Threads -> Seq(Tcs)]
      /\ tpc \in [Threads -> {"out", "in", "wait", "waitnew"}]
      /\ m_thread_list \in [Threads -> Tcs \cup {None}]
      /\ \A u, v \in Threads :
             m_thread_list[u] = m_thread_list[v] /\ m_thread_list[u] # None => u = v
  BY DEF PoolTypeOK, Placed
<1>3. PICK r, s : /\ r = m_reference' /\ r = [m_reference EXCEPT ![Last(running[t])] = @ - 1]
                  /\ s = running' /\ s = [running EXCEPT ![t] = Front(@)]
  OBVIOUS
<1>4. Popped(m_thread_list, m_reference, running, t, r, s)
  BY <1>1, <1>2, <1>3 DEF Popped
<1>5. Counted(m_thread_list, r, s) /\ r \in [Tcs -> Nat] /\ s \in [Threads -> Seq(Tcs)]
  BY <1>4, CountPop, Zenon
<1>6. /\ AllPlaced'
      /\ Counted(m_thread_list, m_reference, running)'
      /\ (filler = "make" => m_unallocated_threads # <<>>)'
  BY <1>3, <1>5 DEF modeVars, Kept
<1>7. tpc' \in [Threads -> {"out", "in", "wait", "waitnew"}]
  BY <1>2
<1>8. PoolTypeOK'
  <2>1. m_reference' \in [Tcs -> Nat] /\ running' \in [Threads -> Seq(Tcs)]
    BY <1>3, <1>5
  <2> QED
    BY <1>7, <2>1 DEF PoolTypeOK, modeVars, waitVars
<1>9. NestInv'
  <2>1. /\ running'[t] = Front(running[t]) /\ \A u \in Threads \ {t} : running'[u] = running[u]
        /\ tpc'[t] = IF Len(running[t]) = 1 THEN "out" ELSE "in"
        /\ \A u \in Threads \ {t} : tpc'[u] = tpc[u]
    BY <1>2
  <2>2. running'[t] \in Seq(Tcs) /\ Len(running'[t]) = Len(running[t]) - 1
    BY <1>1, <2>1, FrontFacts
  <2>3. /\ Len(running[t]) = 1 => running'[t] = <<>>
        /\ Len(running[t]) # 1 => running'[t] # <<>>
    <3>1. PICK n \in Nat \ {0} : n = Len(running[t])
      BY <1>1
    <3>2. n = 1 <=> n - 1 = 0
      OBVIOUS
    <3>3. running'[t] = <<>> <=> n - 1 = 0
      BY <2>2, <3>1, LenIsNat, Zenon
    <3> QED
      BY <3>1, <3>2, <3>3
  <2>4. Len(running'[t]) <= MaxNest
    BY <1>1, <2>2, PoolAssumption DEF NestInv
  <2>5. /\ tpc'[t] = "out" => running'[t] = <<>>
        /\ tpc'[t] \in {"in", "waitnew"} => running'[t] # <<>>
        /\ tpc'[t] # "wait"
    BY <2>1, <2>3
  <2>6. \A u \in Threads \ {t} :
           /\ Len(running'[u]) <= MaxNest
           /\ tpc'[u] = "out" => running'[u] = <<>>
           /\ tpc'[u] \in {"in", "waitnew"} => running'[u] # <<>>
           /\ tpc'[u] = "wait" => Len(running'[u]) < MaxNest
    BY <2>1 DEF NestInv
  <2> QED
    BY <2>4, <2>5, <2>6 DEF NestInv
<1> QED
  BY <1>6, <1>8, <1>9

LEMMA EcallReturnsStep ==
    ASSUME PoolInv, NEW t \in Threads, EcallReturns(t)
    PROVE  PoolInv'
BY PopStep, Zenon DEF EcallReturns

\* reset_ref by the outermost ecall: none of the ecalls of the thread is left.
LEMMA PthreadExitStep ==
    ASSUME PoolInv, NEW t \in Threads, PthreadExit(t)
    PROVE  PoolInv'
<1> USE DEF PoolInv, AllPlaced
<1>1. /\ m_reference \in [Tcs -> Nat] /\ running \in [Threads -> Seq(Tcs)]
      /\ tpc \in [Threads -> {"out", "in", "wait", "waitnew"}]
      /\ m_thread_list \in [Threads -> Tcs \cup {None}]
      /\ \A u, v \in Threads :
             m_thread_list[u] = m_thread_list[v] /\ m_thread_list[u] # None => u = v
  BY DEF PoolTypeOK, Placed
<1>2. PICK x \in Tcs : x = Last(running[t]) /\ x = m_thread_list[t]
  <2>1. tpc[t] = "in"
    BY DEF PthreadExit
  <2> QED
    BY <2>1, InnermostCounted DEF Counted, Last
<1>3. PICK r, s : /\ r = m_reference' /\ r = [m_reference EXCEPT ![x] = 0]
                  /\ s = running' /\ s = [running EXCEPT ![t] = <<>>]
  BY <1>2 DEF PthreadExit
<1>4. /\ r \in [Tcs -> Nat] /\ r[x] = 0 /\ \A y \in Tcs \ {x} : r[y] = m_reference[y]
  BY <1>1, <1>3
<1>5. /\ s \in [Threads -> Seq(Tcs)] /\ s[t] = <<>> /\ Len(s[t]) = 0
      /\ \A u \in Threads \ {t} : s[u] = running[u]
  BY <1>1, <1>3
<1>6. Counted(m_thread_list, r, s)
  <2>1. \A u \in Threads : \A i \in 1..Len(s[u]) : s[u][i] = m_thread_list[u]
    BY <1>5 DEF Counted
  <2>2. ASSUME NEW u \in Threads, m_thread_list[u] # None
        PROVE  r[m_thread_list[u]] = Len(s[u])
    <3>1. CASE u = t
      BY <1>2, <1>4, <1>5, <3>1
    <3>2. CASE u # t
      BY <1>1, <1>2, <1>4, <1>5, <2>2, <3>2, NoneIsNoTcs DEF Counted
    <3> QED
      BY <3>1, <3>2
  <2>3. \A y \in Tcs : ~ BoundIn(m_thread_list, y) => r[y] = 0
    BY <1>4 DEF Counted
  <2> QED
    BY <2>1, <2>2, <2>3 DEF Counted
<1>7. /\ AllPlaced'
      /\ Counted(m_thread_list, m_reference, running)'
      /\ (filler = "make" => m_unallocated_threads # <<>>)'
  BY <1>3, <1>6 DEF PthreadExit, modeVars, Kept
<1>8. tpc' = [tpc EXCEPT ![t] = "out"] /\ tpc' \in [Threads -> {"out", "in", "wait", "waitnew"}]
  BY <1>1 DEF PthreadExit
<1>9. PoolTypeOK'
  <2>1. m_reference' \in [Tcs -> Nat] /\ running' \in [Threads -> Seq(Tcs)]
    BY <1>3, <1>4, <1>5
  <2> QED
    BY <1>8, <2>1 DEF PoolTypeOK, PthreadExit, modeVars, waitVars
<1>10. NestInv'
  <2>1. MaxNest \in Nat
    BY PoolAssumption
  <2>2. Len(running'[t]) <= MaxNest /\ running'[t] = <<>> /\ tpc'[t] = "out"
    BY <1>1, <1>3, <1>5, <1>8, <2>1
  <2>3. \A u \in Threads \ {t} : running'[u] = running[u] /\ tpc'[u] = tpc[u]
    BY <1>1, <1>3, <1>5, <1>8
  <2> QED
    BY <2>2, <2>3 DEF NestInv
<1> QED
  BY <1>7, <1>9, <1>10

LEMMA CreateThreadStep ==
    ASSUME PoolInv, NEW t \in Threads, CreateThread(t)
    PROVE  PoolInv'
<1> USE DEF PoolInv, AllPlaced
<1>1. /\ AllPlaced'
      /\ Counted(m_thread_list, m_reference, running)'
      /\ m_reference' = m_reference
  BY ReserveFacts DEF CreateThread, modeVars
<1>2. /\ m_new_thread_event' \in -EventDepth..MaxEvents /\ filler' \in FillerStates
      /\ filler' = "make" => filler = "make"
  BY AskKeepsType DEF CreateThread
<1>3. PoolTypeOK'
  <2>1. /\ bind' \in BOOLEAN /\ prompt' \in BOOLEAN /\ failed' \in BOOLEAN
        /\ m_thread_mutex' \in Threads \cup {None}
        /\ m_need_to_wait_for_new_thread' \in BOOLEAN /\ alive' \subseteq Threads
        /\ m_reference' \in [Tcs -> Nat] /\ running' \in [Threads -> Seq(Tcs)]
        /\ tpc' \in [Threads -> {"out", "in", "wait", "waitnew"}]
    BY <1>1 DEF CreateThread, PoolTypeOK, modeVars
  <2> QED
    BY <1>1, <1>2, <2>1, TypeFromParts
<1>4. NestInv' /\ (filler = "make" => m_unallocated_threads # <<>>)'
  BY <1>2 DEF CreateThread, NestInv
<1> QED
  BY <1>1, <1>3, <1>4

LEMMA CreateRetryStep ==
    ASSUME PoolInv, NEW t \in Threads, CreateRetry(t)
    PROVE  PoolInv'
<1> USE DEF PoolInv, AllPlaced
<1>1. /\ AllPlaced'
      /\ Counted(m_thread_list, m_reference, running)'
      /\ m_reference' = m_reference
  <2>1. CASE Reserve
    BY <2>1, ReserveFacts DEF CreateRetry, modeVars
  <2>2. CASE UNCHANGED <<m_free_thread_vector, m_thread_list, m_reference, reserved>>
    BY <2>2 DEF CreateRetry, modeVars, Kept
  <2> QED
    BY <2>1, <2>2 DEF CreateRetry
<1>2. /\ m_new_thread_event' \in -EventDepth..MaxEvents /\ filler' \in FillerStates
      /\ filler' = "make" => filler = "make"
  BY AskKeepsType DEF CreateRetry
<1>3. PoolTypeOK'
  <2>1. /\ bind' \in BOOLEAN /\ prompt' \in BOOLEAN /\ failed' \in BOOLEAN
        /\ m_thread_mutex' \in Threads \cup {None}
        /\ m_need_to_wait_for_new_thread' \in BOOLEAN /\ alive' \subseteq Threads
        /\ m_reference' \in [Tcs -> Nat] /\ running' \in [Threads -> Seq(Tcs)]
        /\ tpc' \in [Threads -> {"out", "in", "wait", "waitnew"}]
    BY <1>1 DEF CreateRetry, PoolTypeOK, modeVars
  <2> QED
    BY <1>1, <1>2, <2>1, TypeFromParts
<1>4. NestInv'
  BY DEF CreateRetry, NestInv, PoolTypeOK
<1>5. (filler = "make" => m_unallocated_threads # <<>>)'
  BY <1>2 DEF CreateRetry
<1> QED
  BY <1>1, <1>3, <1>4, <1>5

\* Threads of the process come and go.
LEMMA ThreadsStep ==
    ASSUME PoolInv, NEW t \in Threads, ThreadExits(t) \/ ThreadStarts(t)
    PROVE  PoolInv'
<1> USE DEF PoolInv, AllPlaced
<1>1. /\ UNCHANGED <<poolVars, waitVars, filler, tpc, reserved, running>>
      /\ alive' = alive \ {t} \/ alive' = alive \cup {t}
  BY DEF ThreadExits, ThreadStarts
<1>2. PoolTypeOK'
  BY <1>1 DEF PoolTypeOK, poolVars, modeVars, waitVars
<1>3. /\ AllPlaced'
      /\ Counted(m_thread_list, m_reference, running)'
      /\ (filler = "make" => m_unallocated_threads # <<>>)'
  BY <1>1, SMTT(30) DEF poolVars, modeVars, Kept
<1>4. NestInv'
  BY <1>1, Zenon DEF NestInv
<1> QED
  BY <1>2, <1>3, <1>4

LEMMA UnreserveStep ==
    ASSUME PoolInv, NEW x \in Tcs, UnreserveTcs(x)
    PROVE  PoolInv'
<1> USE DEF PoolInv, AllPlaced
<1>0. x \in Kept /\ Kept' = Kept \ {x} /\ (reserved \cap lost = {})'
  BY DEF UnreserveTcs, modeVars, Kept
<1>1. Placed(Append(m_free_thread_vector, x), m_unallocated_threads, m_thread_list, Kept \ {x})
  BY <1>0, FreeKept
<1>2. AllPlaced'
  BY <1>0, <1>1 DEF UnreserveTcs
<1>3. /\ Counted(m_thread_list, m_reference, running)'
      /\ (filler = "make" => m_unallocated_threads # <<>>)'
  BY DEF UnreserveTcs
<1>4. NestInv'
  BY DEF NestInv, UnreserveTcs
<1>5. PoolTypeOK'
  BY <1>2, TypeFromParts DEF PoolTypeOK, UnreserveTcs, modeVars, waitVars, FillerStates
<1> QED
  BY <1>2, <1>3, <1>4, <1>5

LEMMA BindStep ==
    ASSUME PoolInv, NEW t \in Threads, NEW x \in Tcs, BindPthread(t, x)
    PROVE  PoolInv'
<1> USE DEF PoolInv, AllPlaced
<1>1. PICK l : l = [m_thread_list EXCEPT ![t] = x] /\ l = m_thread_list'
  BY DEF BindPthread
<1>2. /\ x \in Kept /\ m_thread_list[t] = None
      /\ Kept' = Kept \ {x} /\ (reserved \cap lost = {})'
  BY DEF BindPthread, modeVars, Kept
<1>3. Placed(m_free_thread_vector, m_unallocated_threads, l, Kept \ {x})
  BY <1>1, <1>2, BindKept, Zenon
<1>4. Counted(l, m_reference, running)
  <2>1. /\ m_thread_list \in [Threads -> Tcs \cup {None}] /\ running \in [Threads -> Seq(Tcs)]
        /\ ~ BoundIn(m_thread_list, x)
    BY <1>2 DEF Placed, PoolTypeOK
  <2> QED
    BY <1>1, <1>2, <2>1, CountBind, ZenonT(40)
<1>5. /\ AllPlaced'
      /\ Counted(m_thread_list, m_reference, running)'
      /\ (filler = "make" => m_unallocated_threads # <<>>)'
  BY <1>1, <1>2, <1>3, <1>4 DEF BindPthread
<1>6. NestInv'
  <2>1. running' = running /\ tpc' = tpc
    BY Zenon DEF BindPthread
  <2> QED
    BY <2>1, Zenon DEF NestInv
<1>7. PoolTypeOK'
  <2>1. alive' \subseteq Threads
    BY Zenon DEF BindPthread, PoolTypeOK
  <2> QED
    BY <1>5, <2>1, TypeFromParts DEF PoolTypeOK, BindPthread, modeVars, waitVars, FillerStates
<1> QED
  BY <1>5, <1>6, <1>7, SMTT(30)

\* A refused binding turns a reserved TCS into a lost one.
LEMMA BindRefusedStep ==
    ASSUME PoolInv, NEW t \in Threads, NEW x \in Tcs, BindRefused(t, x)
    PROVE  PoolInv'
<1> USE DEF PoolInv, AllPlaced
<1>1. Kept' = Kept /\ (reserved \cap lost = {})'
  BY Zenon DEF BindRefused, Kept
<1>2. /\ AllPlaced'
      /\ Counted(m_thread_list, m_reference, running)'
      /\ (filler = "make" => m_unallocated_threads # <<>>)'
  BY <1>1 DEF BindRefused
<1>3. NestInv'
  <2>1. running' = running /\ tpc' = tpc
    BY Zenon DEF BindRefused
  <2> QED
    BY <2>1, Zenon DEF NestInv
<1>4. PoolTypeOK'
  <2>1. alive' \subseteq Threads
    BY Zenon DEF BindRefused, PoolTypeOK
  <2> QED
    BY <1>2, <2>1, TypeFromParts DEF PoolTypeOK, BindRefused, waitVars, FillerStates
<1> QED
  BY <1>2, <1>3, <1>4, SMTT(30)

LEMMA NewThreadStep ==
    ASSUME PoolInv, NewThread
    PROVE  PoolInv'
<1> USE DEF PoolInv, AllPlaced
<1>1. m_unallocated_threads # <<>> /\ filler' = "go"
  BY DEF NewThread, FillerGoto
<1>2. Placed(Append(m_free_thread_vector, Last(m_unallocated_threads)),
             Front(m_unallocated_threads), m_thread_list, Kept)
  BY <1>1, FreeUnallocated
<1>3. AllPlaced'
  BY <1>2 DEF NewThread, modeVars, Kept
<1>4. /\ Counted(m_thread_list, m_reference, running)'
      /\ (filler = "make" => m_unallocated_threads # <<>>)'
  BY <1>1 DEF NewThread
<1>5. NestInv'
  BY DEF NestInv, NewThread
<1>6. PoolTypeOK'
  BY <1>1, <1>3, TypeFromParts DEF PoolTypeOK, NewThread, modeVars, waitVars, FillerStates
<1> QED
  BY <1>3, <1>4, <1>5, <1>6

\* The other steps of the filler leave the lists alone.
LEMMA FillerStepKeeps ==
    ASSUME PoolInv, FillerNeeds \/ NewThreadFails \/ FillerSignals \/ FillerWaits \/ FillerStirred
    PROVE  PoolInv'
<1> USE DEF PoolInv, AllPlaced
<1>1. UNCHANGED <<m_free_thread_vector, m_unallocated_threads, m_thread_list, m_reference,
                  bind, prompt, m_thread_mutex, tpc, alive, reserved, lost, running>>
  BY DEF FillerNeeds, NewThreadFails, FillerSignals, FillerWaits, FillerStirred, poolVars, modeVars, waitVars
<1>2. /\ filler' \in FillerStates
      /\ filler' = "make" => m_unallocated_threads # <<>>
  BY DEF FillerNeeds, NewThreadFails, FillerSignals, FillerWaits, FillerStirred, FillerGoto, NeedToNewThread,
         FillerStates
<1>3. failed' \in BOOLEAN
  BY Zenon DEF FillerNeeds, NewThreadFails, FillerSignals, FillerWaits, FillerStirred, poolVars, modeVars,
               PoolTypeOK
<1>4. m_need_to_wait_for_new_thread' \in BOOLEAN
  BY Zenon DEF FillerNeeds, NewThreadFails, FillerSignals, FillerWaits, FillerStirred, waitVars, PoolTypeOK
<1>5. m_new_thread_event' \in -EventDepth..MaxEvents
  <2>1. CASE FillerWaits
    BY <2>1, PoolAssumption DEF FillerWaits, PoolTypeOK
  <2>2. CASE UNCHANGED m_new_thread_event
    BY <2>2 DEF PoolTypeOK
  <2> QED
    BY <2>1, <2>2 DEF FillerNeeds, NewThreadFails, FillerSignals, FillerStirred, waitVars
<1>6. PoolTypeOK'
  BY <1>1, <1>2, <1>3, <1>4, <1>5 DEF PoolTypeOK, FillerStates
<1>7. /\ AllPlaced'
      /\ Counted(m_thread_list, m_reference, running)'
      /\ (filler = "make" => m_unallocated_threads # <<>>)'
  BY <1>1, <1>2 DEF Kept
<1>8. NestInv'
  BY <1>1 DEF NestInv
<1> QED
  BY <1>6, <1>7, <1>8

-----------------------------------------------------------------------------
(* The invariant.                                                          *)

LEMMA PoolInit == Init => PoolInv
<1> SUFFICES ASSUME Init PROVE PoolInv
  OBVIOUS
<1>1. /\ StaticTcs \subseteq Tcs /\ DynamicTcs \subseteq Tcs
      /\ IsFiniteSet(StaticTcs) /\ IsFiniteSet(DynamicTcs)
  <2>1. StaticTcs \subseteq Tcs /\ DynamicTcs \subseteq Tcs
    BY DEF Tcs
  <2> QED
    BY <2>1, PoolAssumption, FS_Subset
<1>2. /\ m_free_thread_vector \in Seq(StaticTcs) /\ Once(m_free_thread_vector)
      /\ Elements(m_free_thread_vector) = StaticTcs
  BY <1>1, ListingOnce DEF Init
<1>3. /\ m_unallocated_threads \in Seq(DynamicTcs) /\ Once(m_unallocated_threads)
      /\ Elements(m_unallocated_threads) = DynamicTcs
  BY <1>1, ListingOnce DEF Init
<1>4. m_free_thread_vector \in Seq(Tcs) /\ m_unallocated_threads \in Seq(Tcs)
  BY <1>1, <1>2, <1>3
<1>5. /\ m_thread_list = [t \in Threads |-> None] /\ reserved = {} /\ lost = {}
      /\ m_reference = [x \in Tcs |-> 0] /\ running = [t \in Threads |-> <<>>]
      /\ tpc = [t \in Threads |-> "out"]
  BY DEF Init
<1>6. \A x \in Tcs : ~ BoundIn(m_thread_list, x)
  BY <1>5, NoneIsNoTcs DEF BoundIn
<1>7. running \in [Threads -> Seq(Tcs)] /\ \A t \in Threads : Len(running[t]) = 0
  BY <1>5
<1>8. PoolTypeOK
  <2>1. /\ bind \in BOOLEAN /\ prompt \in BOOLEAN /\ m_thread_mutex \in Threads \cup {None} /\ failed \in BOOLEAN
        /\ m_need_to_wait_for_new_thread \in BOOLEAN /\ alive \subseteq Threads
    <3>1. /\ bind \in Modes /\ Modes \subseteq BOOLEAN
          /\ prompt \in Schedules /\ Schedules \subseteq BOOLEAN
      BY PoolAssumption DEF Init
    <3> QED
      BY <3>1, Zenon DEF Init
  <2>3. m_new_thread_event \in -EventDepth..MaxEvents
    BY PoolAssumption DEF Init
  <2>2. filler \in FillerStates
    BY DEF Init, FillerStates
  <2> QED
    BY <1>4, <1>5, <1>7, <2>1, <2>2, <2>3 DEF PoolTypeOK, FillerStates
<1>9. AllPlaced
  <2>1. /\ \A x \in StaticTcs : x \notin DynamicTcs /\ x # UtilityTcs
        /\ \A x \in DynamicTcs : x # UtilityTcs
        /\ \A x \in Tcs : x \in StaticTcs \/ x \in DynamicTcs \/ x = UtilityTcs
    BY PoolAssumption DEF Tcs
  <2> QED
    BY <1>1, <1>2, <1>3, <1>4, <1>5, <1>6, <2>1 DEF Placed, AllPlaced, Kept
<1>10. Counted(m_thread_list, m_reference, running)
  BY <1>5, <1>7 DEF Counted
<1>11. NestInv
  <2>1. MaxNest \in Nat
    BY PoolAssumption
  <2> QED
    BY <1>5, <1>7, <2>1 DEF NestInv
<1>12. filler # "make"
  BY DEF Init
<1> QED
  BY <1>8, <1>9, <1>10, <1>11, <1>12 DEF PoolInv

LEMMA PoolStep == PoolInv /\ [Next]_vars => PoolInv'
<1> SUFFICES ASSUME PoolInv, [Next]_vars PROVE PoolInv'
  BY Zenon
<1>1. CASE UNCHANGED vars
  BY <1>1 DEF vars, poolVars, modeVars, waitVars, PoolInv, AllPlaced, PoolTypeOK, Placed, Counted, NestInv,
              BoundIn, Kept
<1>2. ASSUME NEW t \in Threads,
             Ecall(t) \/ EcallWait(t) \/ EcallRetry(t) \/ EcallReturns(t) \/ PthreadExit(t)
      PROVE  PoolInv'
  BY <1>2, EcallStep, WaitStep, EcallRetryStep, EcallReturnsStep, PthreadExitStep
<1>3. ASSUME NEW t \in Threads,
             CreateThread(t) \/ CreateWait(t) \/ CreateRetry(t) \/ ThreadExits(t) \/ ThreadStarts(t)
      PROVE  PoolInv'
  BY <1>3, CreateThreadStep, WaitStep, CreateRetryStep, ThreadsStep
<1>4. ASSUME NEW t \in Threads, NEW x \in Tcs, BindPthread(t, x) \/ BindRefused(t, x)
      PROVE  PoolInv'
  BY <1>4, BindStep, BindRefusedStep
<1>5. ASSUME NEW x \in Tcs, UnreserveTcs(x) PROVE PoolInv'
  BY <1>5, UnreserveStep
<1>6. CASE FillerStep \/ FillerStirred
  BY <1>6, NewThreadStep, FillerStepKeeps DEF FillerStep
<1> QED
  BY <1>1, <1>2, <1>3, <1>4, <1>5, <1>6 DEF Next

-----------------------------------------------------------------------------
(* What it says of the pool.                                               *)

LEMMA RunsAreBound ==
    ASSUME PoolInv, NEW t \in Threads, NEW x \in Elements(running[t])
    PROVE  x \in Tcs /\ m_thread_list[t] = x /\ x # None /\ BoundIn(m_thread_list, x)
<1>1. running[t] \in Seq(Tcs)
  BY Zenon DEF PoolInv, PoolTypeOK
<1>2. x \in Tcs /\ \E i \in 1..Len(running[t]) : running[t][i] = x
  BY <1>1, ElementsAre
<1>3. m_thread_list[t] = x
  BY <1>2 DEF PoolInv, AllPlaced, Counted
<1> QED
  BY <1>2, <1>3, NoneIsNoTcs DEF BoundIn

\* No two threads run ecalls on one TCS, none on the filler's, and a TCS that
\* carries an ecall is neither free, reserved nor lost (CTrustThreadPool::_acquire_thread,
\* garbage_collect, with decrease_ref outside the lock), for every number of
\* threads and TCS, with pthread_exit at any nesting.
THEOREM OneThreadPerTcs == Spec => []TcsExclusive
<1>1. PoolInv => TcsExclusive
  <2> SUFFICES ASSUME PoolInv, NEW t \in Threads, NEW x \in Elements(running[t])
               PROVE  /\ x # UtilityTcs
                      /\ x \notin Elements(m_free_thread_vector) \cup reserved \cup lost
                      /\ \A u \in Threads \ {t} : x \notin Elements(running[u])
    BY Zenon DEF TcsExclusive
  <2>1. x \in Tcs /\ m_thread_list[t] = x /\ x # None /\ BoundIn(m_thread_list, x)
    BY RunsAreBound, Zenon
  <2>2. x # UtilityTcs /\ x \notin Elements(m_free_thread_vector) /\ x \notin Kept
    BY <2>1, Zenon DEF PoolInv, AllPlaced, Placed
  <2>3. ASSUME NEW u \in Threads \ {t}, x \in Elements(running[u]) PROVE FALSE
    <3>1. m_thread_list[u] = x
      BY <2>3, RunsAreBound
    <3> QED
      BY <2>1, <3>1 DEF PoolInv, AllPlaced, Placed
  <2> QED
    BY <2>2, <2>3 DEF Kept
<1> QED
  BY <1>1, PoolInit, PoolStep, PTL DEF Spec

\* The ecalls on a TCS, as thread and position.
CallsOn(x) == {u \in Threads \X (1..MaxNest) :
                  u[2] \in DOMAIN running[u[1]] /\ running[u[1]][u[2]] = x}

LEMMA CallsCounted ==
    ASSUME PoolInv, NEW x \in Tcs
    PROVE  m_reference[x] = Cardinality(CallsOn(x))
<1>1. /\ running \in [Threads -> Seq(Tcs)] /\ MaxNest \in Nat
      /\ m_thread_list \in [Threads -> Tcs \cup {None}]
      /\ \A t, u \in Threads :
             m_thread_list[t] = m_thread_list[u] /\ m_thread_list[t] # None => t = u
  BY PoolAssumption DEF PoolInv, AllPlaced, PoolTypeOK, Placed
<1>2. \A t \in Threads : /\ running[t] \in Seq(Tcs) /\ DOMAIN running[t] = 1..Len(running[t])
                          /\ Len(running[t]) \in Nat /\ Len(running[t]) <= MaxNest
                          /\ \A i \in 1..Len(running[t]) : running[t][i] = m_thread_list[t]
  BY <1>1 DEF PoolInv, AllPlaced, NestInv, Counted
<1>3. CASE BoundIn(m_thread_list, x)
  <2>1. PICK t \in Threads : m_thread_list[t] = x
    BY <1>3 DEF BoundIn
  <2>2. x # None
    BY NoneIsNoTcs
  <2>3. PICK n \in Nat : n = Len(running[t]) /\ n <= MaxNest
    BY <1>2
  <2>4. \A i \in 1..n : i \in 1..MaxNest
    BY <1>1, <2>3
  <2>5. CallsOn(x) = {t} \X (1..n)
    <3>1. ASSUME NEW u \in CallsOn(x) PROVE u \in {t} \X (1..n)
      <4>1. /\ u \in Threads \X (1..MaxNest) /\ u[2] \in 1..Len(running[u[1]])
            /\ running[u[1]][u[2]] = x
        BY <1>2 DEF CallsOn
      <4>2. m_thread_list[u[1]] = x
        BY <1>2, <4>1
      <4>3. u[1] = t
        BY <1>1, <2>1, <2>2, <4>1, <4>2
      <4> QED
        BY <2>3, <4>1, <4>3
    <3>2. ASSUME NEW u \in {t} \X (1..n) PROVE u \in CallsOn(x)
      <4>1. u[1] = t /\ u[2] \in 1..n /\ u \in Threads \X (1..MaxNest)
        BY <2>4
      <4> QED
        BY <1>2, <2>1, <2>3, <4>1 DEF CallsOn
    <3> QED
      BY <3>1, <3>2
  <2>6. Cardinality({t} \X (1..n)) = n
    <3>1. IsFiniteSet({t}) /\ Cardinality({t}) = 1
      BY FS_Singleton, Zenon
    <3>2. IsFiniteSet(1..n) /\ Cardinality(1..n) = n
      BY FS_Interval
    <3>3. Cardinality({t} \X (1..n)) = Cardinality({t}) * Cardinality(1..n)
      BY <3>1, <3>2, FS_Product, Zenon
    <3> QED
      BY <3>1, <3>2, <3>3
  <2>7. m_reference[x] = n
    BY <2>1, <2>2, <2>3 DEF PoolInv, AllPlaced, Counted
  <2> QED
    BY <2>5, <2>6, <2>7
<1>4. CASE ~ BoundIn(m_thread_list, x)
  <2>1. CallsOn(x) = {}
    <3>1. ASSUME NEW u \in CallsOn(x) PROVE FALSE
      <4>1. /\ u[1] \in Threads /\ u[2] \in 1..Len(running[u[1]])
            /\ running[u[1]][u[2]] = x
        BY <1>2 DEF CallsOn
      <4>2. m_thread_list[u[1]] = x
        BY <1>2, <4>1
      <4> QED
        BY <1>4, <4>1, <4>2 DEF BoundIn
    <3> QED
      BY <3>1
  <2>2. Cardinality(CallsOn(x)) = 0
    BY <2>1, FS_EmptySet
  <2>3. m_reference[x] = 0
    BY <1>4 DEF PoolInv, AllPlaced, Counted
  <2> QED
    BY <2>2, <2>3
<1> QED
  BY <1>3, <1>4

LEMMA PlacesExact == PoolInv => OnePlaceEach
<1> SUFFICES ASSUME PoolInv PROVE OnePlaceEach
  OBVIOUS
<1> DEFINE B == {m_thread_list[t] : t \in Bound}
           V == {UtilityTcs} \ {None}
<1>1. /\ Placed(m_free_thread_vector, m_unallocated_threads, m_thread_list, Kept)
      /\ reserved \cap lost = {} /\ Kept = reserved \cup lost
  BY DEF PoolInv, AllPlaced, Kept
<1>2. \A x : x \in B <=> x \in Tcs /\ BoundIn(m_thread_list, x)
  BY <1>1, NoneIsNoTcs DEF Bound, BoundIn, Placed
<1>3. \A t, u \in Bound : m_thread_list[t] = m_thread_list[u] => t = u
  BY <1>1 DEF Bound, Placed
<1>4. V \subseteq Tcs /\ (UtilityTcs \in Tcs => UtilityTcs \in V)
  BY NoneIsNoTcs DEF Tcs
<1>5. /\ Elements(m_free_thread_vector) \subseteq Tcs
      /\ Elements(m_unallocated_threads) \subseteq Tcs /\ Kept \subseteq Tcs
  BY <1>1, ElementsAre DEF Placed
<1> HIDE DEF B
<1>6. PICK F, U, K, L :
         /\ F = Elements(m_free_thread_vector) /\ U = Elements(m_unallocated_threads)
         /\ K = reserved /\ L = lost /\ TcsPlaces = <<F, U, B, K, V, L>>
  BY DEF TcsPlaces, B
<1>7. /\ F \cap U = {} /\ F \cap B = {} /\ F \cap K = {} /\ F \cap V = {} /\ U \cap B = {}
      /\ U \cap K = {} /\ U \cap V = {} /\ B \cap K = {} /\ B \cap V = {} /\ K \cap V = {}
      /\ F \cap L = {} /\ U \cap L = {} /\ B \cap L = {} /\ K \cap L = {} /\ V \cap L = {}
  BY <1>1, <1>2, <1>6 DEF Placed
<1>8. /\ F \subseteq Tcs /\ U \subseteq Tcs /\ B \subseteq Tcs /\ K \subseteq Tcs /\ V \subseteq Tcs
      /\ L \subseteq Tcs
      /\ \A x \in Tcs : x \in F \/ x \in U \/ x \in B \/ x \in K \/ x \in V \/ x \in L
  BY <1>1, <1>2, <1>4, <1>5, <1>6 DEF Placed
<1> HIDE DEF V
<1>9. DOMAIN TcsPlaces = {1, 2, 3, 4, 5, 6}
  BY <1>6
<1>10. /\ TcsPlaces[1] = F /\ TcsPlaces[2] = U /\ TcsPlaces[3] = B /\ TcsPlaces[4] = K
       /\ TcsPlaces[5] = V /\ TcsPlaces[6] = L
  BY <1>6
<1>11. \A i, j \in DOMAIN TcsPlaces : i # j => TcsPlaces[i] \cap TcsPlaces[j] = {}
  <2>1. \A i, j \in {1, 2, 3, 4, 5, 6} : i < j => TcsPlaces[i] \cap TcsPlaces[j] = {}
    BY <1>7, <1>10
  <2>2. \A i, j \in {1, 2, 3, 4, 5, 6} : i # j => i < j \/ j < i
    OBVIOUS
  <2>3. \A i, j : TcsPlaces[i] \cap TcsPlaces[j] = TcsPlaces[j] \cap TcsPlaces[i]
    OBVIOUS
  <2> QED
    BY <1>9, <2>1, <2>2, <2>3
<1>12. UNION Elements(TcsPlaces) = Tcs
  <2>1. Elements(TcsPlaces) = {F, U, B, K, V, L}
    BY <1>9, <1>10, Zenon DEF Elements
  <2> QED
    BY <1>8, <2>1
<1> QED
  BY <1>1, <1>3, <1>11, <1>12 DEF OnePlaceEach, Placed

\* What garbage collection and allocation rely on (garbage_collect, increase_ref,
\* decrease_ref, reset_ref): the reference count of a TCS is the number of ecalls
\* on it and every TCS is in exactly one place, for every number of threads and
\* TCS, with reused thread ids, whose new TCS bind_pthread refuses and which are
\* counted as lost, and with pthread_exit at any nesting.
THEOREM EveryTcsAccounted == Spec => []TcsAccounted
<1>1. PoolInv => ReferenceAgrees
  <2> SUFFICES ASSUME PoolInv PROVE ReferenceAgrees
    OBVIOUS
  <2>1. \A t \in Threads : \A x \in Elements(running[t]) : m_thread_list[t] = x
    BY RunsAreBound
  <2>2. \A x \in Tcs : m_reference[x] = Cardinality(CallsOn(x))
    BY CallsCounted
  <2> QED
    BY <2>1, <2>2 DEF ReferenceAgrees, CallsOn, PoolInv, AllPlaced
<1>2. PoolInv => TcsAccounted
  BY <1>1, PlacesExact DEF TcsAccounted
<1> QED
  BY <1>2, PoolInit, PoolStep, PTL DEF Spec

=============================================================================
