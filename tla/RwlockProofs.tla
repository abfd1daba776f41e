---------------------------- MODULE RwlockProofs ----------------------------
(***************************************************************************)
(* Proofs about SgxThreadRwlock and RwlockQueues, for every finite set of  *)
(* threads and every behaviour of the events: a wake-up may come early,    *)
(* late or never.  First who has access, which rests on neither the queues *)
(* nor the events.  Then the queues: each holds exactly the threads that   *)
(* block in its call, and the pointer lists stand for the queues.  Last,   *)
(* for prompt wakers, that the unlocks lose no wake-up.                    *)
(***************************************************************************)
EXTENDS RwlockQueues, FiniteSetTheorems, WellFoundedInduction, TLAPS

\* The types of the variables that decide who has access.
AccessTypeOK ==
    /\ m_reader_count \in Nat
    /\ m_owner \in Threads \cup {Null}
    /\ pc \in [Threads -> {"ready", "rwait", "wwait", "unlockr", "unlockw"}]
    /\ readGrants \subseteq Threads \X (1..MaxReads)

\* A thread between the two halves of unlock still has what it gives back.
UnlockHolds ==
    \A t \in Threads :
        /\ pc[t] = "unlockw" => m_owner = t
        /\ pc[t] = "unlockr" => Reads(t) # {}

\* The inductive invariant: who has access.
AccessInv ==
    /\ AccessTypeOK
    /\ CountAgrees
    /\ m_owner # Null => readGrants = {}
    /\ UnlockHolds

-----------------------------------------------------------------------------
(* Counting the read locks.                                                *)

LEMMA GrantsFinite ==
    ASSUME AccessTypeOK
    PROVE  IsFiniteSet(readGrants)
<1>1. IsFiniteSet(1..MaxReads)
  BY FS_Interval, RwAssumption
<1>2. IsFiniteSet(Threads \X (1..MaxReads))
  BY <1>1, FS_Product, RwAssumption
<1> QED
  BY <1>2, FS_Subset DEF AccessTypeOK

LEMMA NoneCounted ==
    ASSUME AccessTypeOK, CountAgrees
    PROVE  m_reader_count = 0 <=> readGrants = {}
BY GrantsFinite, FS_EmptySet DEF CountAgrees

-----------------------------------------------------------------------------
(* The two grants, then the actions.                                       *)

LEMMA GrantReadAccess ==
    ASSUME AccessInv, NEW t \in Threads, ReadFree, GrantRead(t),
           pc' = pc \/ pc' = [pc EXCEPT ![t] = "ready"]
    PROVE  AccessInv'
<1>1. PICK n \in 1..MaxReads : <<t, n>> \notin readGrants
                               /\ readGrants' = readGrants \cup {<<t, n>>}
  BY DEF GrantRead
<1>2. m_reader_count' = m_reader_count + 1 /\ m_owner' = m_owner /\ writer' = writer
  BY DEF GrantRead
<1>3. m_owner = Null
  BY DEF ReadFree
<1>4. AccessTypeOK'
  BY <1>1, <1>2 DEF AccessInv, AccessTypeOK
<1>5. Cardinality(readGrants') = Cardinality(readGrants) + 1
  BY <1>1, GrantsFinite, FS_AddElement DEF AccessInv
<1>6. CountAgrees'
  BY <1>2, <1>5 DEF AccessInv, CountAgrees
<1>7. UnlockHolds'
  BY <1>1, <1>2, <1>3, RwAssumption DEF AccessInv, AccessTypeOK, UnlockHolds, Reads
<1> QED
  BY <1>2, <1>3, <1>4, <1>6, <1>7 DEF AccessInv

LEMMA GrantWriteAccess ==
    ASSUME AccessInv, NEW t \in Threads, WriteFree, GrantWrite(t),
           pc' = pc \/ pc' = [pc EXCEPT ![t] = "ready"]
    PROVE  AccessInv'
<1>1. /\ m_owner' = t /\ writer' = writer \cup {t}
      /\ m_reader_count' = m_reader_count /\ readGrants' = readGrants
  BY DEF GrantWrite
<1>2. m_owner = Null /\ m_reader_count = 0 /\ t # Null
  BY RwAssumption DEF WriteFree
<1>3. readGrants = {}
  BY <1>2, NoneCounted DEF AccessInv
<1>4. AccessTypeOK'
  BY <1>1 DEF AccessInv, AccessTypeOK
<1>5. CountAgrees'
  BY <1>1, <1>2 DEF AccessInv, CountAgrees
<1>6. UnlockHolds'
  BY <1>1, <1>2, <1>3, RwAssumption DEF AccessInv, AccessTypeOK, UnlockHolds, Reads
<1> QED
  BY <1>1, <1>3, <1>4, <1>5, <1>6 DEF AccessInv

\* A step that leaves the access alone may move a thread to another place,
\* but into unlock only with what it is going to give back.
LEMMA SameAccess ==
    ASSUME AccessInv,
           UNCHANGED <<m_reader_count, m_owner, readGrants, writer>>,
           \/ UNCHANGED pc
           \/ \E t \in Threads : \E p \in {"ready", "rwait", "wwait", "unlockr", "unlockw"} :
                 /\ pc' = [pc EXCEPT ![t] = p]
                 /\ p = "unlockw" => m_owner = t
                 /\ p = "unlockr" => Reads(t) # {}
    PROVE  AccessInv'
<1>1. AccessTypeOK'
  BY DEF AccessInv, AccessTypeOK
<1>2. CountAgrees'
  BY DEF AccessInv, CountAgrees
<1>3. UnlockHolds'
  BY DEF AccessInv, AccessTypeOK, UnlockHolds, Reads
<1> QED
  BY <1>1, <1>2, <1>3 DEF AccessInv

LEMMA RdunlockAccess ==
    ASSUME AccessInv, NEW t \in Threads, Rdunlock(t)
    PROVE  AccessInv'
<1>1. PICK g \in Reads(t) : readGrants' = readGrants \ {g}
  BY DEF Rdunlock
<1>2. /\ m_reader_count # 0 /\ m_reader_count' = m_reader_count - 1
      /\ m_owner' = m_owner /\ writer' = writer
      /\ pc' = [pc EXCEPT ![t] = "ready"]
  BY DEF Rdunlock
<1>3. AccessTypeOK'
  BY <1>1, <1>2 DEF AccessInv, AccessTypeOK
<1>4. Cardinality(readGrants') = Cardinality(readGrants) - 1
  BY <1>1, GrantsFinite, FS_RemoveElement DEF AccessInv, Reads
<1>5. CountAgrees'
  BY <1>2, <1>4 DEF AccessInv, CountAgrees
<1>6. \A u \in Threads : u # t => Reads(u)' = Reads(u)
  BY <1>1 DEF Reads
<1>7. UnlockHolds'
  BY <1>2, <1>6 DEF AccessInv, AccessTypeOK, UnlockHolds
<1>8. m_owner' # Null => readGrants' = {}
  BY <1>1, <1>2 DEF AccessInv
<1> QED
  BY <1>3, <1>5, <1>7, <1>8 DEF AccessInv

LEMMA WrunlockAccess ==
    ASSUME AccessInv, NEW t \in Threads, Wrunlock(t)
    PROVE  AccessInv'
<1>1. /\ m_owner = t /\ m_owner' = Null /\ writer' = writer \ {t}
      /\ m_reader_count' = m_reader_count /\ readGrants' = readGrants
      /\ pc' = [pc EXCEPT ![t] = "ready"]
  BY DEF Wrunlock
<1>2. AccessTypeOK'
  BY <1>1 DEF AccessInv, AccessTypeOK
<1>3. CountAgrees'
  BY <1>1, RwAssumption DEF AccessInv, CountAgrees
<1>4. UnlockHolds'
  BY <1>1 DEF AccessInv, AccessTypeOK, UnlockHolds, Reads
<1> QED
  BY <1>1, <1>2, <1>3, <1>4 DEF AccessInv

LEMMA UnlockAccess ==
    ASSUME AccessInv, NEW t \in Threads, Unlock(t)
    PROVE  AccessInv'
<1>1. m_owner # t => Reads(t) # {}
  BY DEF Unlock, AccessInv, CountAgrees
<1> QED
  BY <1>1, SameAccess DEF Unlock, lockVars

-----------------------------------------------------------------------------

LEMMA AccessInit == RwInit => AccessInv
<1> SUFFICES ASSUME RwInit
             PROVE  AccessInv
  OBVIOUS
<1>1. CountAgrees
  BY FS_EmptySet DEF RwInit, CountAgrees
<1> QED
  BY <1>1 DEF RwInit, AccessInv, AccessTypeOK, UnlockHolds

LEMMA AccessStep == AccessInv /\ [RwNext]_rwVars => AccessInv'
<1> SUFFICES ASSUME AccessInv, [RwNext]_rwVars
             PROVE  AccessInv'
  OBVIOUS
<1>1. CASE UNCHANGED rwVars
  BY <1>1, SameAccess DEF rwVars, lockVars
<1>2. ASSUME NEW t \in Threads, RdlockFree(t)
      PROVE  AccessInv'
  BY <1>2, GrantReadAccess DEF RdlockFree
<1>3. ASSUME NEW t \in Threads, RdlockBlock(t) \/ WrlockBlock(t)
      PROVE  AccessInv'
  BY <1>3, SameAccess DEF RdlockBlock, WrlockBlock
<1>4. ASSUME NEW t \in Threads, RdlockRetry(t)
      PROVE  AccessInv'
  BY <1>4, GrantReadAccess, SameAccess DEF RdlockRetry, lockVars
<1>5. ASSUME NEW t \in Threads, WrlockFree(t)
      PROVE  AccessInv'
  BY <1>5, GrantWriteAccess DEF WrlockFree
<1>6. ASSUME NEW t \in Threads, WrlockRetry(t)
      PROVE  AccessInv'
  BY <1>6, GrantWriteAccess, SameAccess DEF WrlockRetry, lockVars
<1>7. ASSUME NEW t \in Threads, Rdunlock(t) \/ Wrunlock(t) \/ Unlock(t)
      PROVE  AccessInv'
  BY <1>7, RdunlockAccess, WrunlockAccess, UnlockAccess
<1>8. ASSUME NEW t \in Threads, OcallStep(t) \/ Interrupted(t)
      PROVE  AccessInv'
  BY <1>8, SameAccess DEF OcallStep, Interrupted, lockVars
<1> QED
  BY <1>1, <1>2, <1>3, <1>4, <1>5, <1>6, <1>7, <1>8 DEF RwNext

LEMMA AccessAlways == RwSpec => []AccessInv
BY AccessInit, AccessStep, PTL DEF RwSpec

\* m_reader_count is the number of read locks that rdlock and tryrdlock have
\* granted and nobody has released, and m_owner is the thread with write access.
THEOREM CountIsExact == RwSpec => []CountAgrees
<1>1. AccessInv => CountAgrees
  BY DEF AccessInv
<1> QED
  BY AccessAlways, <1>1, PTL

\* A writer excludes every reader and every other writer, for any number of
\* threads and of nested read locks, whatever the events do.
THEOREM RwExclusion == RwSpec => []ReadersXorWriter
<1>1. AccessInv => ReadersXorWriter
  BY DEF AccessInv, CountAgrees, ReadersXorWriter
<1> QED
  BY AccessAlways, <1>1, PTL

\* sgx_thread_rwlock_unlock chooses between rdunlock and wrunlock without the
\* spinlock; for a caller that holds the lock the choice is still right when
\* the chosen function takes the spinlock.
THEOREM UnlockChoice == RwSpec => []UnlockChoiceStays
<1>1. AccessInv => UnlockChoiceStays
  <2> SUFFICES ASSUME AccessInv, NEW t \in Threads
               PROVE  /\ pc[t] = "unlockw" => m_owner = t
                      /\ pc[t] = "unlockr" => m_reader_count > 0 /\ m_owner = Null
    BY DEF UnlockChoiceStays
  <2>1. pc[t] = "unlockr" => readGrants # {}
    BY DEF AccessInv, UnlockHolds, Reads
  <2>2. readGrants # {} => m_reader_count > 0
    BY NoneCounted DEF AccessInv, AccessTypeOK
  <2> QED
    BY <2>1, <2>2 DEF AccessInv, UnlockHolds
<1> QED
  BY AccessAlways, <1>1, PTL

-----------------------------------------------------------------------------
(* The queues.  The facts about pointers are stated for values: f, l and n *)
(* are what m_first[q], m_last[q] and m_next are before a macro runs, or   *)
(* after it.                                                               *)

Pointers == Threads \cup {Null}

\* The pointers f, l and the links n stand for the sequence s.
LinkedBy(f, l, n, s) ==
    /\ f = IF s = <<>> THEN Null ELSE s[1]
    /\ l = IF s = <<>> THEN Null ELSE s[Len(s)]
    /\ \A i \in 1..Len(s) : n[s[i]] = IF i = Len(s) THEN Null ELSE s[i + 1]

\* No thread is in both sequences.
Apart(r, s) == \A t \in Threads : ~ (In(t, r) /\ In(t, s))

-----------------------------------------------------------------------------
(* Numbers and sequences.                                                  *)

\* Every set of numbers that is not empty has a least element.
LEMMA Least ==
    ASSUME NEW B, B \subseteq Nat, B # {}
    PROVE  \E i \in B : \A j \in B : i <= j
<1> DEFINE R == OpToRel(<, Nat)
<1>1. IsWellFoundedOn(R, Nat)
  BY NatLessThanWellFounded, Zenon
<1>2. \E i \in B : \A j \in B : ~ (<<j, i>> \in R)
  BY <1>1, WFMin, Zenon
<1>3. \A i, j \in Nat : <<j, i>> \in R <=> j < i
  BY DEF OpToRel
<1> HIDE DEF R
<1>4. PICK i \in B : \A j \in B : ~ (<<j, i>> \in R)
  BY <1>2
<1>5. ASSUME NEW j \in B
      PROVE  i <= j
  <2>1. i \in Nat /\ j \in Nat
    OBVIOUS
  <2>2. ~ (j < i)
    BY <1>3, <1>4, <2>1, Zenon
  <2> QED
    BY <2>1, <2>2
<1> QED
  BY <1>5

\* Queueing up at the tail.
LEMMA Appended ==
    ASSUME NEW s \in Seq(Threads), NEW t \in Threads, Once(s), ~ In(t, s)
    PROVE  /\ Append(s, t) \in Seq(Threads)
           /\ Append(s, t) # <<>>
           /\ Once(Append(s, t))
           /\ \A u \in Threads : In(u, Append(s, t)) <=> In(u, s) \/ u = t
<1>1. /\ Len(Append(s, t)) = Len(s) + 1
      /\ \A i \in 1..Len(s) : Append(s, t)[i] = s[i]
      /\ Append(s, t)[Len(s) + 1] = t
      /\ Len(s) \in Nat
  OBVIOUS
<1>2. Once(Append(s, t))
  BY <1>1 DEF Once, In
<1>3. \A u \in Threads : In(u, Append(s, t)) <=> In(u, s) \/ u = t
  BY <1>1 DEF In
<1> QED
  BY <1>1, <1>2, <1>3

\* What Remove makes of a queue in which t is the k-th thread.
LEMMA RemovedAt ==
    ASSUME NEW s \in Seq(Threads), NEW t \in Threads, Once(s),
           NEW k \in 1..Len(s), s[k] = t
    PROVE  Remove(s, t) = [i \in 1..(Len(s) - 1) |-> IF i < k THEN s[i] ELSE s[i + 1]]
<1> DEFINE First(i) == s[i] = t /\ \A j \in 1..(i - 1) : s[j] # t
<1>1. Len(s) \in Nat
  OBVIOUS
<1>2. In(t, s)
  BY DEF In
<1>3. First(k)
  BY <1>1 DEF Once
<1>4. \A i \in 1..Len(s) : First(i) => i = k
  BY DEF Once
<1>5. (CHOOSE i \in 1..Len(s) : First(i)) = k
  <2> HIDE DEF First
  <2> QED
    BY <1>3, <1>4
<1> QED
  BY <1>2, <1>5 DEF Remove

\* Leaving a queue from any place.
LEMMA Removed ==
    ASSUME NEW s \in Seq(Threads), NEW t \in Threads, Once(s), In(t, s)
    PROVE  /\ Remove(s, t) \in Seq(Threads)
           /\ Len(Remove(s, t)) = Len(s) - 1
           /\ Once(Remove(s, t))
           /\ \A u \in Threads : In(u, Remove(s, t)) <=> In(u, s) /\ u # t
<1>1. PICK k \in 1..Len(s) : s[k] = t
  BY DEF In
<1> DEFINE r == Remove(s, t)
<1>2. r = [i \in 1..(Len(s) - 1) |-> IF i < k THEN s[i] ELSE s[i + 1]]
  BY <1>1, RemovedAt
<1>3. Len(s) \in Nat \ {0} /\ Len(s) - 1 \in Nat
  BY <1>1
<1>4. r \in Seq(Threads) /\ Len(r) = Len(s) - 1
  BY <1>2, <1>3
<1>5. \A i \in 1..Len(r) : r[i] = IF i < k THEN s[i] ELSE s[i + 1]
  BY <1>2, <1>4
<1> HIDE DEF r
<1>6. Once(r)
  <2>1. SUFFICES ASSUME NEW i \in 1..Len(r), NEW j \in 1..Len(r), r[i] = r[j]
                 PROVE  i = j
    BY Zenon DEF Once
  <2>2. PICK a \in 1..Len(s) : r[i] = s[a] /\ a = IF i < k THEN i ELSE i + 1
    BY <1>3, <1>4, <1>5
  <2>3. PICK b \in 1..Len(s) : r[j] = s[b] /\ b = IF j < k THEN j ELSE j + 1
    BY <1>3, <1>4, <1>5
  <2>4. a = b
    BY <2>1, <2>2, <2>3, Zenon DEF Once
  <2> QED
    BY <1>3, <1>4, <2>2, <2>3, <2>4
<1>7. ASSUME NEW u \in Threads
      PROVE  In(u, r) <=> In(u, s) /\ u # t
  <2>1. ASSUME In(u, r) PROVE In(u, s) /\ u # t
    <3>1. PICK i \in 1..Len(r) : r[i] = u
      BY <2>1 DEF In
    <3>2. CASE i < k
      BY <1>1, <1>3, <1>4, <1>5, <3>1, <3>2 DEF In, Once
    <3>3. CASE ~ (i < k)
      BY <1>1, <1>3, <1>4, <1>5, <3>1, <3>3 DEF In, Once
    <3> QED
      BY <3>2, <3>3
  <2>2. ASSUME In(u, s), u # t PROVE In(u, r)
    <3>1. PICK i \in 1..Len(s) : s[i] = u
      BY <2>2 DEF In
    <3>2. i # k
      BY <1>1, <2>2, <3>1
    <3>3. CASE i < k
      BY <1>3, <1>4, <1>5, <3>1, <3>3 DEF In
    <3>4. CASE i > k
      <4>1. i - 1 \in 1..Len(r) /\ r[i - 1] = u
        BY <1>3, <1>4, <1>5, <3>1, <3>4
      <4> QED
        BY <4>1 DEF In
    <3> QED
      BY <3>2, <3>3, <3>4
  <2> QED
    BY <2>1, <2>2
<1> QED
  BY <1>4, <1>6, <1>7 DEF r

-----------------------------------------------------------------------------
(* The macros.                                                             *)

\* QUEUE_INSERT_TAIL makes the pointers of its list stand for the longer queue.
LEMMA InsertLinks ==
    ASSUME NEW f, NEW l, NEW n \in [Threads -> Pointers], NEW m,
           NEW s \in Seq(Threads), NEW t \in Threads,
           LinkedBy(f, l, n, s), Once(s), ~ In(t, s),
           m = IF f # Null THEN [[n EXCEPT ![t] = Null] EXCEPT ![l] = t]
                           ELSE [n EXCEPT ![t] = Null]
    PROVE  LinkedBy(IF f # Null THEN f ELSE t, t, m, Append(s, t))
<1>1. /\ Len(Append(s, t)) = Len(s) + 1
      /\ \A i \in 1..Len(s) : Append(s, t)[i] = s[i]
      /\ Append(s, t)[Len(s) + 1] = t
      /\ Len(s) \in Nat
      /\ Append(s, t) # <<>>
      /\ \A i \in 1..Len(s) : s[i] \in Threads
  OBVIOUS
<1>2. CASE s = <<>>
  <2>1. f = Null /\ Len(s) = 0
    BY <1>2 DEF LinkedBy
  <2>2. m[t] = Null
    BY <2>1
  <2> QED
    BY <1>1, <2>1, <2>2 DEF LinkedBy
<1>3. CASE s # <<>>
  <2>1. f = s[1] /\ l = s[Len(s)] /\ Len(s) > 0 /\ f \in Threads /\ l \in Threads
    BY <1>1, <1>3 DEF LinkedBy
  <2>2. f # Null /\ l # t
    BY <1>1, <2>1, RwAssumption DEF In
  <2>3. m[l] = t /\ m[t] = Null /\ \A u \in Threads \ {l, t} : m[u] = n[u]
    BY <2>1, <2>2
  <2>4. ASSUME NEW i \in 1..Len(s)
        PROVE  m[s[i]] = Append(s, t)[i + 1]
    <3>1. CASE i = Len(s)
      BY <1>1, <2>1, <2>3, <3>1
    <3>2. CASE i # Len(s)
      <4>1. i + 1 \in 1..Len(s) /\ n[s[i]] = s[i + 1]
        BY <1>1, <3>2 DEF LinkedBy
      <4>2. s[i] # l /\ s[i] # t /\ s[i] \in Threads
        BY <1>1, <2>1, <3>2 DEF In, Once
      <4> QED
        BY <1>1, <2>3, <4>1, <4>2
    <3> QED
      BY <3>1, <3>2
  <2>5. ASSUME NEW i \in 1..(Len(s) + 1)
        PROVE  m[Append(s, t)[i]]
                 = IF i = Len(s) + 1 THEN Null ELSE Append(s, t)[i + 1]
    <3>1. CASE i = Len(s) + 1
      BY <1>1, <2>3, <3>1
    <3>2. CASE i # Len(s) + 1
      <4>1. i \in 1..Len(s)
        BY <1>1, <3>2
      <4> QED
        BY <1>1, <2>4, <3>2, <4>1
    <3> QED
      BY <3>1, <3>2
  <2>6. Append(s, t)[1] = f
    BY <1>1, <2>1
  <2> QED
    BY <1>1, <2>2, <2>5, <2>6 DEF LinkedBy
<1> QED
  BY <1>2, <1>3

\* A list keeps its meaning when no link of its threads changes.
LEMMA OtherLinks ==
    ASSUME NEW f, NEW l, NEW n, NEW m, NEW s \in Seq(Threads),
           LinkedBy(f, l, n, s),
           \A u \in Threads : In(u, s) => m[u] = n[u]
    PROVE  LinkedBy(f, l, m, s)
<1>1. \A i \in 1..Len(s) : s[i] \in Threads /\ In(s[i], s)
  BY DEF In
<1> QED
  BY <1>1 DEF LinkedBy

\* The loop of QUEUE_REMOVE visits the queue in order: the thread it stops at is
\* the one before t.
LEMMA PathIsQueue ==
    ASSUME NEW f, NEW l, NEW n, NEW s \in Seq(Threads), NEW t \in Threads,
           LinkedBy(f, l, n, s),
           NEW k \in Nat \ {0}, NEW p \in [1..k -> Threads],
           p[1] = f, \A i \in 1..(k - 1) : p[i + 1] = n[p[i]],
           n[p[k]] = t
    PROVE  k + 1 \in 1..Len(s) /\ p[k] = s[k] /\ s[k + 1] = t
<1> DEFINE Off == {i \in 1..k : ~ (i \in 1..Len(s) /\ p[i] = s[i])}
<1>1. Null \notin Threads /\ Len(s) \in Nat
  BY RwAssumption
<1>2. Off = {}
  <2>1. SUFFICES ASSUME Off # {} PROVE FALSE
    OBVIOUS
  <2>2. Off \subseteq Nat
    OBVIOUS
  <2>3. PICK i \in Off : \A j \in Off : i <= j
    BY <2>1, <2>2, Least
  <2>4. p[1] \in Threads
    OBVIOUS
  <2>5. s # <<>> /\ p[1] = s[1]
    BY <1>1, <2>4 DEF LinkedBy
  <2>6. i # 1
    BY <1>1, <2>5
  <2>7. i - 1 \in 1..k /\ i - 1 \notin Off /\ i - 1 \in 1..(k - 1) /\ i \in 1..k
    BY <2>3, <2>6
  <2>8. i - 1 \in 1..Len(s) /\ p[i - 1] = s[i - 1]
    BY <2>7
  <2>9. p[i] = n[p[i - 1]] /\ p[i] \in Threads
    BY <2>7
  <2>10. p[i] = IF i - 1 = Len(s) THEN Null ELSE s[i]
    BY <2>7, <2>8, <2>9 DEF LinkedBy
  <2>11. i - 1 # Len(s) /\ p[i] = s[i]
    BY <1>1, <2>9, <2>10
  <2>12. i \in 1..Len(s)
    BY <1>1, <2>7, <2>8, <2>11
  <2> QED
    BY <2>11, <2>12
<1>3. k \in 1..Len(s) /\ p[k] = s[k]
  BY <1>2
<1>4. t = IF k = Len(s) THEN Null ELSE s[k + 1]
  BY <1>3 DEF LinkedBy
<1> QED
  BY <1>1, <1>3, <1>4

\* QUEUE_REMOVE_HEAD.
LEMMA RemoveHeadLinks ==
    ASSUME NEW f, NEW l, NEW n, NEW s \in Seq(Threads), NEW t \in Threads,
           LinkedBy(f, l, n, s), Once(s), f = t
    PROVE  LinkedBy(n[f], IF n[f] = Null THEN Null ELSE l, n, Remove(s, t))
<1> DEFINE r == Remove(s, t)
<1>1. Null \notin Threads /\ Len(s) \in Nat /\ \A i \in 1..Len(s) : s[i] \in Threads
  BY RwAssumption
<1>2. s # <<>> /\ s[1] = t /\ 1 \in 1..Len(s)
  BY <1>1 DEF LinkedBy
<1>3. r = [i \in 1..(Len(s) - 1) |-> IF i < 1 THEN s[i] ELSE s[i + 1]]
  BY <1>2, RemovedAt, Zenon
<1>4. r \in Seq(Threads) /\ Len(r) = Len(s) - 1
  <2>1. In(t, s)
    BY <1>2 DEF In
  <2> QED
    BY <2>1, Removed
<1> HIDE DEF r
<1>5. ASSUME NEW i \in 1..Len(r)
      PROVE  r[i] = s[i + 1]
  <2>1. i \in 1..(Len(s) - 1) /\ ~ (i < 1)
    BY <1>1, <1>4
  <2> QED
    BY <1>3, <2>1, Zenon
<1>6. n[t] = IF Len(s) = 1 THEN Null ELSE s[2]
  <2>1. n[s[1]] = IF 1 = Len(s) THEN Null ELSE s[1 + 1]
    BY <1>2 DEF LinkedBy
  <2> QED
    BY <1>2, <2>1
<1>7. CASE Len(s) = 1
  <2>1. Len(r) = 0
    BY <1>4, <1>7
  <2>2. r = <<>>
    BY <1>4, <2>1
  <2>3. n[f] = Null /\ 1..Len(r) = {}
    BY <1>6, <1>7, <2>1
  <2> QED
    BY <2>2, <2>3 DEF LinkedBy, r
<1>8. CASE Len(s) # 1
  <2>1. Len(r) \in Nat \ {0} /\ r # <<>> /\ r[1] = s[2] /\ r[Len(r)] = s[Len(s)]
    <3>1. /\ Len(r) \in Nat \ {0} /\ 1 \in 1..Len(r) /\ Len(r) \in 1..Len(r)
          /\ 1 + 1 = 2 /\ Len(r) + 1 = Len(s)
      BY <1>1, <1>2, <1>4, <1>8
    <3>2. r[1] = s[1 + 1] /\ r[Len(r)] = s[Len(r) + 1]
      BY <1>5, <3>1, Zenon
    <3> QED
      BY <3>1, <3>2
  <2>2. n[f] = s[2] /\ s[2] \in Threads /\ l = s[Len(s)]
    <3>1. 2 \in 1..Len(s)
      <4>1. \A k \in Nat : 1 \in 1..k /\ k # 1 => 2 \in 1..k
        OBVIOUS
      <4> QED
        BY <1>1, <1>2, <1>8, <4>1, Zenon
    <3>2. l = s[Len(s)]
      BY <1>2 DEF LinkedBy
    <3> QED
      BY <1>1, <1>6, <1>8, <3>1, <3>2
  <2>3. ASSUME NEW i \in 1..Len(r)
        PROVE  n[r[i]] = IF i = Len(r) THEN Null ELSE r[i + 1]
    <3>1. i + 1 \in 1..Len(s) /\ r[i] = s[i + 1]
      BY <1>1, <1>4, <1>5
    <3>2. n[s[i + 1]] = IF i + 1 = Len(s) THEN Null ELSE s[i + 2]
      BY <3>1 DEF LinkedBy
    <3> QED
      BY <1>1, <1>4, <1>5, <3>1, <3>2
  <2>4. n[f] # Null
    BY <1>1, <2>2
  <2> QED
    BY <2>1, <2>2, <2>3, <2>4 DEF LinkedBy, r
<1> QED
  BY <1>7, <1>8

\* QUEUE_REMOVE of a thread t that is not the head: u is the thread before it.
LEMMA UnlinkLinks ==
    ASSUME NEW f, NEW l, NEW n \in [Threads -> Pointers], NEW m,
           NEW s \in Seq(Threads), NEW t \in Threads,
           LinkedBy(f, l, n, s), Once(s),
           NEW k \in Nat \ {0}, k + 1 \in 1..Len(s), s[k + 1] = t,
           m = [n EXCEPT ![s[k]] = n[t], ![t] = Null]
    PROVE  LinkedBy(f, IF l = t THEN s[k] ELSE l, m, Remove(s, t))
<1> DEFINE r == Remove(s, t)
<1>1. /\ Null \notin Threads /\ Len(s) \in Nat /\ k \in 1..Len(s)
      /\ \A i \in 1..Len(s) : s[i] \in Threads
  BY RwAssumption
<1>2. r = [i \in 1..(Len(s) - 1) |-> IF i < k + 1 THEN s[i] ELSE s[i + 1]]
  BY RemovedAt
<1>3. r \in Seq(Threads) /\ Len(r) = Len(s) - 1
  BY Removed DEF In
<1>4. \A i \in 1..Len(r) : r[i] = IF i <= k THEN s[i] ELSE s[i + 1]
  BY <1>1, <1>2, <1>3
<1> HIDE DEF r
<1>5. /\ m[s[k]] = n[t] /\ m[t] = Null
      /\ \A v \in Threads \ {s[k], t} : m[v] = n[v]
  BY <1>1 DEF Once
<1>6. n[t] = IF k + 1 = Len(s) THEN Null ELSE s[k + 2]
  BY DEF LinkedBy
<1>7. r # <<>> /\ r[1] = f
  BY <1>1, <1>3, <1>4 DEF LinkedBy
<1>8. r[Len(r)] = IF l = t THEN s[k] ELSE l
  <2>1. l = s[Len(s)]
    BY <1>1 DEF LinkedBy
  <2>2. l = t <=> k + 1 = Len(s)
    BY <1>1, <2>1 DEF Once
  <2> QED
    BY <1>1, <1>3, <1>4, <2>1, <2>2
<1>9. ASSUME NEW i \in 1..Len(r)
      PROVE  m[r[i]] = IF i = Len(r) THEN Null ELSE r[i + 1]
  <2>1. CASE i < k
    <3>1. r[i] = s[i] /\ r[i + 1] = s[i + 1] /\ i # Len(r) /\ i \in 1..Len(s)
      BY <1>1, <1>3, <1>4, <2>1
    <3>2. s[i] \in Threads \ {s[k], t} /\ i # Len(s)
      BY <1>1, <2>1, <3>1 DEF Once
    <3>3. n[s[i]] = s[i + 1]
      BY <3>1, <3>2 DEF LinkedBy
    <3> QED
      BY <1>5, <3>1, <3>2, <3>3
  <2>2. CASE i = k
    <3>1. r[i] = s[k] /\ (i # Len(r) => r[i + 1] = s[k + 2])
      BY <1>1, <1>3, <1>4, <2>2
    <3> QED
      BY <1>1, <1>3, <1>5, <1>6, <2>2, <3>1
  <2>3. CASE i > k
    <3>1. /\ i + 1 \in 1..Len(s) /\ r[i] = s[i + 1]
          /\ i # Len(r) => r[i + 1] = s[i + 2]
      <4>1. i + 1 \in 1..Len(s) /\ r[i] = s[i + 1]
        BY <1>1, <1>3, <1>4, <2>3
      <4>2. ASSUME i # Len(r) PROVE r[i + 1] = s[i + 2]
        <5>1. i + 1 \in 1..Len(r) /\ ~ (i + 1 <= k) /\ (i + 1) + 1 = i + 2
          <6>1. Len(r) \in Int /\ i \in Int /\ k \in Int /\ 1 <= i /\ i <= Len(r) /\ k < i
            BY <1>1, <1>3, <2>3
          <6> QED
            BY <4>2, <6>1
        <5>2. r[i + 1] = s[(i + 1) + 1]
          BY <1>4, <5>1, Zenon
        <5> QED
          BY <5>1, <5>2
      <4> QED
        BY <4>1, <4>2
    <3>2. s[i + 1] \in Threads \ {s[k], t}
      BY <1>1, <2>3, <3>1 DEF Once
    <3>3. n[s[i + 1]] = IF i + 1 = Len(s) THEN Null ELSE s[i + 2]
      BY <3>1 DEF LinkedBy
    <3> QED
      BY <1>1, <1>3, <1>5, <3>1, <3>2, <3>3
  <2> QED
    BY <1>1, <2>1, <2>2, <2>3
<1> QED
  BY <1>7, <1>8, <1>9 DEF LinkedBy, r

-----------------------------------------------------------------------------
(* The inductive invariant.                                                *)

\* Types of the queues, the calls and the pointers.
ListTypeOK ==
    /\ m_reader_queue \in Seq(Threads)
    /\ m_writer_queue \in Seq(Threads)
    /\ pc \in [Threads -> {"ready", "rwait", "wwait", "unlockr", "unlockw"}]
    /\ m_first \in [{"readers", "writers"} -> Pointers]
    /\ m_last \in [{"readers", "writers"} -> Pointers]
    /\ m_next \in [Threads -> Pointers]

ListInv == ListTypeOK /\ QueuesAreWaiters /\ ListsLinked

LEMMA ListInit == LinkedInit => ListInv
BY DEF LinkedInit, RwInit, ListInv, ListTypeOK, QueuesAreWaiters, ListsLinked, Once, In, Pointers,
       Lists!QueueInit, Lists!Linked

\* The two lists of the invariant, as values.
LEMMA ListsApart ==
    ASSUME ListInv
    PROVE  /\ LinkedBy(m_first["readers"], m_last["readers"], m_next, m_reader_queue)
           /\ LinkedBy(m_first["writers"], m_last["writers"], m_next, m_writer_queue)
           /\ Apart(m_reader_queue, m_writer_queue)
<1>1. Apart(m_reader_queue, m_writer_queue)
  BY DEF ListInv, QueuesAreWaiters, Apart
<1> QED
  BY <1>1 DEF ListInv, ListsLinked, Lists!Linked, LinkedBy

\* A thread outside both queues joins list q, which stands for s; the other
\* list stands for o.
LEMMA InsertTailStep ==
    ASSUME ListTypeOK, NEW s \in Seq(Threads), NEW o \in Seq(Threads),
           NEW q \in {"readers", "writers"}, NEW p \in {"readers", "writers"}, p # q,
           LinkedBy(m_first[q], m_last[q], m_next, s),
           LinkedBy(m_first[p], m_last[p], m_next, o),
           Once(s), Apart(s, o), NEW t \in Threads, ~ In(t, s), ~ In(t, o),
           Lists!InsertTail(q, t)
    PROVE  /\ LinkedBy(m_first'[q], m_last'[q], m_next', Append(s, t))
           /\ LinkedBy(m_first'[p], m_last'[p], m_next', o)
           /\ m_first' \in [{"readers", "writers"} -> Pointers]
           /\ m_last' \in [{"readers", "writers"} -> Pointers]
           /\ m_next' \in [Threads -> Pointers]
<1> DEFINE m == IF m_first[q] # Null
                THEN [[m_next EXCEPT ![t] = Null] EXCEPT ![m_last[q]] = t]
                ELSE [m_next EXCEPT ![t] = Null]
<1>1. /\ m_next' = m
      /\ m_first'[q] = IF m_first[q] # Null THEN m_first[q] ELSE t
      /\ m_first'[p] = m_first[p]
      /\ m_last'[q] = t /\ m_last'[p] = m_last[p]
      /\ m_first' \in [{"readers", "writers"} -> Pointers]
      /\ m_last' \in [{"readers", "writers"} -> Pointers]
  BY DEF ListTypeOK, Lists!InsertTail, Pointers
<1>2. m_next \in [Threads -> Pointers]
  BY DEF ListTypeOK
<1>3. LinkedBy(IF m_first[q] # Null THEN m_first[q] ELSE t, t, m, Append(s, t))
  BY <1>2, InsertLinks
<1>4. m_first[q] # Null => m_last[q] \in Threads /\ In(m_last[q], s)
  <2>1. ASSUME m_first[q] # Null
        PROVE  s # <<>> /\ m_last[q] = s[Len(s)]
    BY <2>1 DEF LinkedBy
  <2> QED
    BY <2>1 DEF In
<1>5. ASSUME NEW u \in Threads, In(u, o)
      PROVE  m[u] = m_next[u]
  <2>1. u # t /\ ~ In(u, s)
    BY <1>5 DEF Apart
  <2>2. m_first[q] # Null => u # m_last[q]
    BY <1>4, <2>1
  <2> QED
    BY <1>2, <1>4, <2>1, <2>2
<1>6. LinkedBy(m_first[p], m_last[p], m, o)
  <2> HIDE DEF m
  <2> QED
    BY <1>5, OtherLinks
<1>7. m \in [Threads -> Pointers]
  BY <1>2, <1>4 DEF Pointers
<1> HIDE DEF m
<1> QED
  BY <1>1, <1>3, <1>6, <1>7

\* A thread leaves list q, which stands for s, from wherever it is in it.
LEMMA RemoveStep ==
    ASSUME ListTypeOK, NEW s \in Seq(Threads), NEW o \in Seq(Threads),
           NEW q \in {"readers", "writers"}, NEW p \in {"readers", "writers"}, p # q,
           LinkedBy(m_first[q], m_last[q], m_next, s),
           LinkedBy(m_first[p], m_last[p], m_next, o),
           Once(s), Apart(s, o), NEW t \in Threads, In(t, s),
           Lists!Remove(q, t)
    PROVE  /\ LinkedBy(m_first'[q], m_last'[q], m_next', Remove(s, t))
           /\ LinkedBy(m_first'[p], m_last'[p], m_next', o)
           /\ m_first' \in [{"readers", "writers"} -> Pointers]
           /\ m_last' \in [{"readers", "writers"} -> Pointers]
           /\ m_next' \in [Threads -> Pointers]
<1>1. /\ m_first \in [{"readers", "writers"} -> Pointers]
      /\ m_last \in [{"readers", "writers"} -> Pointers]
      /\ m_next \in [Threads -> Pointers]
  BY DEF ListTypeOK
<1>2. CASE m_first[q] = t
  <2>1. Lists!RemoveHead(q)
    BY <1>2 DEF Lists!Remove
  <2>2. /\ m_next' = m_next
        /\ m_first'[q] = m_next[m_first[q]] /\ m_first'[p] = m_first[p]
        /\ m_last'[q] = IF m_next[m_first[q]] = Null THEN Null ELSE m_last[q]
        /\ m_last'[p] = m_last[p]
        /\ m_first' \in [{"readers", "writers"} -> Pointers]
        /\ m_last' \in [{"readers", "writers"} -> Pointers]
    BY <1>1, <1>2, <2>1 DEF Lists!RemoveHead, Pointers
  <2>3. LinkedBy(m_next[m_first[q]], IF m_next[m_first[q]] = Null THEN Null ELSE m_last[q],
                 m_next, Remove(s, t))
    BY <1>2, RemoveHeadLinks
  <2> QED
    BY <1>1, <2>2, <2>3
<1>3. CASE m_first[q] # t
  <2>1. PICK c \in Lists!Paths :
           /\ Lists!Path(q, c) /\ m_next[c[Len(c)]] = t
           /\ m_next' = [m_next EXCEPT ![c[Len(c)]] = m_next[t], ![t] = Null]
           /\ m_last' = [m_last EXCEPT ![q] = IF @ = t THEN c[Len(c)] ELSE @]
           /\ m_first' = m_first
    BY <1>3 DEF Lists!Remove, Lists!Unlink
  <2>2. PICK k \in 1..Cardinality(Threads) : c \in [1..k -> Threads]
    BY <2>1 DEF Lists!Paths
  <2>3. k \in Nat \ {0}
    BY <2>2, FS_CardinalityType, RwAssumption
  <2>4. Len(c) = k
    BY <2>2, <2>3
  <2>5. /\ c[1] = m_first[q] /\ \A i \in 1..(k - 1) : c[i + 1] = m_next[c[i]]
        /\ m_next[c[k]] = t
    BY <2>1, <2>4 DEF Lists!Path
  <2>6. k + 1 \in 1..Len(s) /\ c[k] = s[k] /\ s[k + 1] = t
    BY <2>2, <2>3, <2>5, PathIsQueue
  <2>7. k \in 1..Len(s) /\ s[k] \in Threads /\ In(s[k], s)
    BY <2>3, <2>6 DEF In
  <2> DEFINE m == [m_next EXCEPT ![s[k]] = m_next[t], ![t] = Null]
  <2>8. /\ m_next' = m /\ m_first' = m_first
        /\ m_last' = [m_last EXCEPT ![q] = IF @ = t THEN s[k] ELSE @]
    BY <2>1, <2>4, <2>6
  <2>9. LinkedBy(m_first[q], IF m_last[q] = t THEN s[k] ELSE m_last[q], m, Remove(s, t))
    BY <1>1, <2>3, <2>6, UnlinkLinks
  <2>10. ASSUME NEW u \in Threads, In(u, o)
         PROVE  m[u] = m_next[u]
    <3>1. u # t /\ u # s[k]
      BY <2>7, <2>10 DEF Apart
    <3> QED
      BY <1>1, <3>1
  <2>11. LinkedBy(m_first[p], m_last[p], m, o)
    <3> HIDE DEF m
    <3> QED
      BY <2>10, OtherLinks
  <2>12. m \in [Threads -> Pointers]
    BY <1>1 DEF Pointers
  <2>13. /\ m_last'[q] = IF m_last[q] = t THEN s[k] ELSE m_last[q]
         /\ m_last'[p] = m_last[p]
         /\ m_last' \in [{"readers", "writers"} -> Pointers]
    BY <1>1, <2>7, <2>8 DEF Pointers
  <2> HIDE DEF m
  <2> QED
    BY <1>1, <2>8, <2>9, <2>11, <2>12, <2>13
<1> QED
  BY <1>2, <1>3

-----------------------------------------------------------------------------
(* The steps of the lock.                                                  *)

\* A step that changes neither queue, nor who waits, nor a pointer.
LEMMA SameLists ==
    ASSUME ListInv, UNCHANGED <<m_reader_queue, m_writer_queue, listVars>>,
           pc' \in [Threads -> {"ready", "rwait", "wwait", "unlockr", "unlockw"}],
           \A t \in Threads : /\ pc'[t] = "rwait" <=> pc[t] = "rwait"
                              /\ pc'[t] = "wwait" <=> pc[t] = "wwait"
    PROVE  ListInv'
BY DEF ListInv, ListTypeOK, QueuesAreWaiters, ListsLinked, Lists!Linked, listVars, Once, In

LEMMA ReadersStep ==
    ASSUME ListInv, NEW t \in Threads,
           \/ RdlockBlock(t) /\ Lists!InsertTail("readers", t)
           \/ RdlockRetry(t) /\ RetryLinked(t, "readers")
    PROVE  ListInv'
<1> DEFINE s == m_reader_queue
           o == m_writer_queue
<1>1. /\ ListTypeOK /\ s \in Seq(Threads) /\ o \in Seq(Threads)
      /\ Once(s) /\ Once(o)
      /\ \A u \in Threads : (pc[u] = "rwait" <=> In(u, s)) /\ (pc[u] = "wwait" <=> In(u, o))
      /\ pc \in [Threads -> {"ready", "rwait", "wwait", "unlockr", "unlockw"}]
  BY DEF ListInv, ListTypeOK, QueuesAreWaiters
<1>2. /\ LinkedBy(m_first["readers"], m_last["readers"], m_next, s)
      /\ LinkedBy(m_first["writers"], m_last["writers"], m_next, o)
      /\ Apart(s, o)
  BY ListsApart
<1>3. CASE RdlockBlock(t) /\ Lists!InsertTail("readers", t)
  <2>1. /\ pc[t] = "ready" /\ pc' = [pc EXCEPT ![t] = "rwait"]
        /\ m_reader_queue' = Append(s, t) /\ m_writer_queue' = o
    BY <1>3 DEF RdlockBlock, Call
  <2>2. ~ In(t, s) /\ ~ In(t, o)
    BY <1>1, <2>1
  <2> HIDE DEF s, o
  <2>3. /\ Append(s, t) \in Seq(Threads) /\ Once(Append(s, t))
        /\ \A u \in Threads : In(u, Append(s, t)) <=> In(u, s) \/ u = t
    BY <1>1, <2>2, Appended
  <2>4. /\ LinkedBy(m_first'["readers"], m_last'["readers"], m_next', Append(s, t))
        /\ LinkedBy(m_first'["writers"], m_last'["writers"], m_next', o)
        /\ m_first' \in [{"readers", "writers"} -> Pointers]
        /\ m_last' \in [{"readers", "writers"} -> Pointers]
        /\ m_next' \in [Threads -> Pointers]
    BY <1>1, <1>2, <1>3, <2>2, InsertTailStep
  <2>5. ListTypeOK'
    BY <1>1, <2>1, <2>3, <2>4 DEF ListTypeOK
  <2>6. QueuesAreWaiters'
    BY <1>1, <2>1, <2>2, <2>3 DEF QueuesAreWaiters
  <2>7. ListsLinked'
    BY <2>1, <2>4 DEF ListsLinked, Lists!Linked, LinkedBy
  <2> QED
    BY <2>5, <2>6, <2>7 DEF ListInv
<1>4. CASE RdlockRetry(t) /\ RetryLinked(t, "readers") /\ ReadFree
  <2>1. /\ pc[t] = "rwait" /\ pc' = [pc EXCEPT ![t] = "ready"]
        /\ m_reader_queue' = Remove(s, t) /\ m_writer_queue' = o
    BY <1>4 DEF RdlockRetry
  <2>2. In(t, s) /\ Lists!Remove("readers", t)
    BY <1>1, <1>4, <2>1 DEF RetryLinked
  <2> HIDE DEF s, o
  <2>3. /\ Remove(s, t) \in Seq(Threads) /\ Once(Remove(s, t))
        /\ \A u \in Threads : In(u, Remove(s, t)) <=> In(u, s) /\ u # t
    BY <1>1, <2>2, Removed
  <2>4. /\ LinkedBy(m_first'["readers"], m_last'["readers"], m_next', Remove(s, t))
        /\ LinkedBy(m_first'["writers"], m_last'["writers"], m_next', o)
        /\ m_first' \in [{"readers", "writers"} -> Pointers]
        /\ m_last' \in [{"readers", "writers"} -> Pointers]
        /\ m_next' \in [Threads -> Pointers]
    BY <1>1, <1>2, <2>2, RemoveStep
  <2>5. ListTypeOK'
    BY <1>1, <2>1, <2>3, <2>4 DEF ListTypeOK
  <2>6. QueuesAreWaiters'
    BY <1>1, <2>1, <2>2, <2>3 DEF QueuesAreWaiters
  <2>7. ListsLinked'
    BY <2>1, <2>4 DEF ListsLinked, Lists!Linked, LinkedBy
  <2> QED
    BY <2>5, <2>6, <2>7 DEF ListInv
<1>5. CASE RdlockRetry(t) /\ RetryLinked(t, "readers") /\ ~ ReadFree
  <2>1. pc[t] = "rwait" /\ UNCHANGED <<m_reader_queue, m_writer_queue, pc>>
    BY <1>5 DEF RdlockRetry, lockVars
  <2>2. UNCHANGED listVars
    BY <1>1, <1>5, <2>1 DEF RetryLinked
  <2>3. UNCHANGED <<m_reader_queue, m_writer_queue, listVars>>
    BY <2>1, <2>2
  <2> QED
    BY <1>1, <2>1, <2>3, SameLists
<1> QED
  BY <1>3, <1>4, <1>5

LEMMA WritersStep ==
    ASSUME ListInv, NEW t \in Threads,
           \/ WrlockBlock(t) /\ Lists!InsertTail("writers", t)
           \/ WrlockRetry(t) /\ RetryLinked(t, "writers")
    PROVE  ListInv'
<1> DEFINE s == m_writer_queue
           o == m_reader_queue
<1>1. /\ ListTypeOK /\ s \in Seq(Threads) /\ o \in Seq(Threads)
      /\ Once(s) /\ Once(o)
      /\ \A u \in Threads : (pc[u] = "wwait" <=> In(u, s)) /\ (pc[u] = "rwait" <=> In(u, o))
      /\ pc \in [Threads -> {"ready", "rwait", "wwait", "unlockr", "unlockw"}]
  BY DEF ListInv, ListTypeOK, QueuesAreWaiters
<1>2. /\ LinkedBy(m_first["writers"], m_last["writers"], m_next, s)
      /\ LinkedBy(m_first["readers"], m_last["readers"], m_next, o)
      /\ Apart(s, o)
  BY ListsApart DEF Apart
<1>3. CASE WrlockBlock(t) /\ Lists!InsertTail("writers", t)
  <2>1. /\ pc[t] = "ready" /\ pc' = [pc EXCEPT ![t] = "wwait"]
        /\ m_writer_queue' = Append(s, t) /\ m_reader_queue' = o
    BY <1>3 DEF WrlockBlock, Call
  <2>2. ~ In(t, s) /\ ~ In(t, o)
    BY <1>1, <2>1
  <2> HIDE DEF s, o
  <2>3. /\ Append(s, t) \in Seq(Threads) /\ Once(Append(s, t))
        /\ \A u \in Threads : In(u, Append(s, t)) <=> In(u, s) \/ u = t
    BY <1>1, <2>2, Appended
  <2>4. /\ LinkedBy(m_first'["writers"], m_last'["writers"], m_next', Append(s, t))
        /\ LinkedBy(m_first'["readers"], m_last'["readers"], m_next', o)
        /\ m_first' \in [{"readers", "writers"} -> Pointers]
        /\ m_last' \in [{"readers", "writers"} -> Pointers]
        /\ m_next' \in [Threads -> Pointers]
    BY <1>1, <1>2, <1>3, <2>2, InsertTailStep
  <2>5. ListTypeOK'
    BY <1>1, <2>1, <2>3, <2>4 DEF ListTypeOK
  <2>6. QueuesAreWaiters'
    BY <1>1, <2>1, <2>2, <2>3 DEF QueuesAreWaiters
  <2>7. ListsLinked'
    BY <2>1, <2>4 DEF ListsLinked, Lists!Linked, LinkedBy
  <2> QED
    BY <2>5, <2>6, <2>7 DEF ListInv
<1>4. CASE WrlockRetry(t) /\ RetryLinked(t, "writers") /\ WriteFree
  <2>1. /\ pc[t] = "wwait" /\ pc' = [pc EXCEPT ![t] = "ready"]
        /\ m_writer_queue' = Remove(s, t) /\ m_reader_queue' = o
    BY <1>4 DEF WrlockRetry
  <2>2. In(t, s) /\ Lists!Remove("writers", t)
    BY <1>1, <1>4, <2>1 DEF RetryLinked
  <2> HIDE DEF s, o
  <2>3. /\ Remove(s, t) \in Seq(Threads) /\ Once(Remove(s, t))
        /\ \A u \in Threads : In(u, Remove(s, t)) <=> In(u, s) /\ u # t
    BY <1>1, <2>2, Removed
  <2>4. /\ LinkedBy(m_first'["writers"], m_last'["writers"], m_next', Remove(s, t))
        /\ LinkedBy(m_first'["readers"], m_last'["readers"], m_next', o)
        /\ m_first' \in [{"readers", "writers"} -> Pointers]
        /\ m_last' \in [{"readers", "writers"} -> Pointers]
        /\ m_next' \in [Threads -> Pointers]
    BY <1>1, <1>2, <2>2, RemoveStep
  <2>5. ListTypeOK'
    BY <1>1, <2>1, <2>3, <2>4 DEF ListTypeOK
  <2>6. QueuesAreWaiters'
    BY <1>1, <2>1, <2>2, <2>3 DEF QueuesAreWaiters
  <2>7. ListsLinked'
    BY <2>1, <2>4 DEF ListsLinked, Lists!Linked, LinkedBy
  <2> QED
    BY <2>5, <2>6, <2>7 DEF ListInv
<1>5. CASE WrlockRetry(t) /\ RetryLinked(t, "writers") /\ ~ WriteFree
  <2>1. pc[t] = "wwait" /\ UNCHANGED <<m_reader_queue, m_writer_queue, pc>>
    BY <1>5 DEF WrlockRetry, lockVars
  <2>2. UNCHANGED listVars
    BY <1>1, <1>5, <2>1 DEF RetryLinked
  <2>3. UNCHANGED <<m_reader_queue, m_writer_queue, listVars>>
    BY <2>1, <2>2
  <2> QED
    BY <1>1, <2>1, <2>3, SameLists
<1> QED
  BY <1>3, <1>4, <1>5

LEMMA UnlistedStep ==
    ASSUME ListInv, NEW t \in Threads, Unlisted(t), UNCHANGED listVars
    PROVE  ListInv'
<1>1. pc \in [Threads -> {"ready", "rwait", "wwait", "unlockr", "unlockw"}]
  BY DEF ListInv, ListTypeOK
<1>2. UNCHANGED <<m_reader_queue, m_writer_queue>>
  BY DEF Unlisted, RdlockFree, WrlockFree, Rdunlock, Wrunlock, Unlock, OcallStep, Interrupted,
         lockVars
<1>3. \/ pc' = pc
      \/ /\ pc[t] \in {"ready", "unlockr", "unlockw"}
         /\ \E c \in {"ready", "unlockr", "unlockw"} : pc' = [pc EXCEPT ![t] = c]
  BY DEF Unlisted, RdlockFree, WrlockFree, Rdunlock, Wrunlock, Unlock, OcallStep, Interrupted
<1>4. pc' \in [Threads -> {"ready", "rwait", "wwait", "unlockr", "unlockw"}]
  BY <1>1, <1>3
<1>5. ASSUME NEW u \in Threads
      PROVE  (pc'[u] = "rwait" <=> pc[u] = "rwait") /\ (pc'[u] = "wwait" <=> pc[u] = "wwait")
  <2>1. CASE pc'[u] = pc[u]
    BY <2>1
  <2>2. CASE pc'[u] # pc[u]
    <3>1. pc'[u] \in {"ready", "unlockr", "unlockw"} /\ pc[u] \in {"ready", "unlockr", "unlockw"}
      BY <1>1, <1>3, <2>2
    <3> QED
      BY <3>1
  <2> QED
    BY <2>1, <2>2
<1>6. UNCHANGED <<m_reader_queue, m_writer_queue, listVars>>
  BY <1>2
<1> QED
  BY <1>4, <1>5, <1>6, SameLists

LEMMA ListStep == ListInv /\ [LinkedNext]_<<rwVars, listVars>> => ListInv'
<1>1. ASSUME ListInv, LinkedNext PROVE ListInv'
  <2>1. PICK t \in Threads :
           \/ BlockLinked(t)
           \/ RdlockRetry(t) /\ RetryLinked(t, "readers")
           \/ WrlockRetry(t) /\ RetryLinked(t, "writers")
           \/ Unlisted(t) /\ UNCHANGED listVars
    BY <1>1 DEF LinkedNext
  <2> QED
    BY <1>1, <2>1, ReadersStep, WritersStep, UnlistedStep DEF BlockLinked
<1>2. ASSUME ListInv, UNCHANGED <<rwVars, listVars>> PROVE ListInv'
  <2>1. UNCHANGED <<m_reader_queue, m_writer_queue, listVars, pc>>
    BY <1>2 DEF rwVars, lockVars
  <2> QED
    BY <1>2, <2>1, SameLists DEF ListInv, ListTypeOK
<1> QED
  BY <1>1, <1>2

\* The lock over the pointer lists is the lock of SgxThreadRwlock, so that what is
\* proved there holds here.
LEMMA LinkedIsRwlock == LinkedSpec => RwSpec
<1>1. LinkedInit => RwInit
  BY DEF LinkedInit
<1>2. [LinkedNext]_<<rwVars, listVars>> => [RwNext]_rwVars
  BY DEF LinkedNext, BlockLinked, Unlisted, RwNext
<1> QED
  BY <1>1, <1>2, PTL DEF LinkedSpec, RwSpec

LEMMA ListAlways == LinkedSpec => []ListInv
BY ListInit, ListStep, PTL DEF LinkedSpec

\* Each queue of the lock holds exactly the threads blocked in rdlock or in
\* wrlock, once each, for any number of threads and any behaviour of the events.
THEOREM RwQueuesExact == LinkedSpec => []QueuesAreWaiters
<1>1. ListInv => QueuesAreWaiters
  BY DEF ListInv
<1> QED
  BY <1>1, ListAlways, PTL

\* The macros of sethread_internal.h keep the pointers of both lists in step with
\* the queues, for any number of threads, although all lists share the one link of
\* each thread and a removed head keeps its stale link.
THEOREM PointersAreQueues == LinkedSpec => []ListsLinked
<1>1. ListInv => ListsLinked
  BY DEF ListInv
<1> QED
  BY <1>1, ListAlways, PTL

-----------------------------------------------------------------------------
(* Wake-ups, where FUTEX_WAKE follows its atomic add at once.  A thread may *)
(* take the lock before its wake-up comes, so that events gather wake-ups  *)
(* that end a later wait early.  What must not happen is that one is       *)
(* missing.                                                                *)

\* What the event of a thread can be, by where its OCALL is; only a thread that
\* is in no lock call wakes others.
EventOf(u) ==
    /\ se_event[u] >= -1
    /\ se_event[u] = -1 => ostep[u] \in {"futexwait", "asleep"}
    /\ ostep[u] = "asleep" => se_event[u] = -1
    /\ ostep[u] # "wake" => otargets[u] = <<>>
    /\ ostep[u] # "futexwake" /\ owait[u] = FALSE
    /\ ostep[u] = "wake" => pc[u] = "ready" /\ otargets[u] # <<>>

ReadersAttended ==
    memory /\ prompt /\ m_owner = Null =>
        \A t \in Threads : In(t, m_reader_queue) => Progresses(t)

WritersAttended ==
    memory /\ prompt /\ m_owner = Null /\ m_reader_count = 0 /\ m_writer_queue # <<>> =>
        \E t \in Threads :
            /\ In(t, m_reader_queue) \/ In(t, m_writer_queue)
            /\ Progresses(t)

\* The inductive invariant, on top of AccessInv and ListInv.
RwWakeInv ==
    /\ EventTypeOK /\ memory \in BOOLEAN /\ calls \in Nat
    /\ prompt => \A u \in Threads : EventOf(u)
    /\ ReadersAttended /\ WritersAttended

\* What a critical section of t may do about events.
Wakes(t, q) == OcallSet(t, q) /\ q # <<>> /\ pc'[t] = "ready"
Quiet(t) ==
    \/ UNCHANGED eventVars
    \/ OcallWait(t)
    \/ \E q \in Seq(Threads) : Wakes(t, q)

LEMMA FirstIsIn ==
    ASSUME NEW q \in Seq(Threads), q # <<>>
    PROVE  /\ <<q[1]>> \in Seq(Threads) /\ <<q[1]>> # <<>>
           /\ q[1] \in Threads /\ In(q[1], q) /\ In(q[1], <<q[1]>>)
<1>1. 1 \in 1..Len(q) /\ q[1] \in Threads
  OBVIOUS
<1>2. PICK w \in Threads : w = q[1]
  BY <1>1
<1>3. <<w>> \in Seq(Threads) /\ <<w>> # <<>> /\ Len(<<w>>) = 1 /\ <<w>>[1] = w
  OBVIOUS
<1> QED
  BY <1>1, <1>2, <1>3 DEF In

LEMMA TailFacts ==
    ASSUME NEW q \in Seq(Threads), q # <<>>
    PROVE  /\ Head(q) \in Threads /\ Tail(q) \in Seq(Threads)
           /\ Len(q) \in Nat \ {0} /\ (Tail(q) = <<>> <=> Len(q) = 1)
           /\ \A u : In(u, q) => u = Head(q) \/ In(u, Tail(q))
<1>1. /\ Head(q) \in Threads /\ Tail(q) \in Seq(Threads)
      /\ Len(q) \in Nat \ {0} /\ Len(Tail(q)) = Len(q) - 1
      /\ \A i \in 1..(Len(q) - 1) : Tail(q)[i] = q[i + 1]
  OBVIOUS
<1>2. Tail(q) = <<>> <=> Len(q) = 1
  <2>1. \A r \in Seq(Threads) : r = <<>> <=> Len(r) = 0
    OBVIOUS
  <2>2. Tail(q) = <<>> <=> Len(q) - 1 = 0
    BY <1>1, <2>1
  <2> QED
    BY <1>1, <2>2
<1>3. ASSUME NEW u, In(u, q), u # Head(q) PROVE In(u, Tail(q))
  <2>1. PICK i \in 1..Len(q) : q[i] = u
    BY <1>3 DEF In
  <2>2. i # 1
    BY <1>3, <2>1
  <2>3. i - 1 \in 1..(Len(q) - 1) /\ (i - 1) + 1 = i
    BY <1>1, <2>2
  <2>4. Tail(q)[i - 1] = u
    BY <1>1, <2>1, <2>3
  <2> QED
    BY <1>1, <2>3, <2>4 DEF In
<1> QED
  BY <1>1, <1>2, <1>3

\* Starting an OCALL leaves the other threads' wake-ups alone.
LEMMA QuietFacts ==
    ASSUME EventTypeOK, NEW t \in Threads, Quiet(t)
    PROVE  /\ EventTypeOK'
           /\ prompt' = prompt /\ se_event' = se_event /\ owait' = owait
           /\ \A u \in Threads \ {t} : ostep'[u] = ostep[u] /\ otargets'[u] = otargets[u]
<1>1. CASE UNCHANGED eventVars
  BY <1>1 DEF eventVars, EventTypeOK
<1>2. CASE OcallWait(t)
  BY <1>2 DEF OcallWait, EventTypeOK, OSteps
<1>3. ASSUME NEW q \in Seq(Threads), OcallSet(t, q)
      PROVE  /\ EventTypeOK'
             /\ prompt' = prompt /\ se_event' = se_event /\ owait' = owait
             /\ \A u \in Threads \ {t} : ostep'[u] = ostep[u] /\ otargets'[u] = otargets[u]
  BY <1>3 DEF OcallSet, EventTypeOK, OSteps
<1> QED
  BY <1>1, <1>2, <1>3 DEF Quiet, Wakes

\* The steps of an OCALL keep the types of the event variables.
LEMMA OcallTypes ==
    ASSUME EventTypeOK, NEW t \in Threads, EventStep(t) \/ FutexInterrupted(t)
    PROVE  EventTypeOK' /\ prompt' = prompt
<1>1. prompt' = prompt
  BY Zenon DEF EventStep, EventDec, FutexWait, EventInc, FutexWake, EventWakePrompt,
         FutexInterrupted
<1>2. AfterWake(t) \in OSteps
  BY Zenon DEF AfterWake, OSteps
<1>3. otargets[t] # <<>> => /\ Head(otargets[t]) \in Threads
                            /\ Tail(otargets[t]) \in Seq(Threads)
  BY DEF EventTypeOK
<1>4. se_event' \in [Threads -> Int]
  <2>1. CASE EventDec(t)
    BY <2>1 DEF EventTypeOK, EventDec
  <2>2. CASE EventInc(t)
    BY <1>3, <2>2 DEF EventTypeOK, EventInc
  <2>3. CASE EventWakePrompt(t)
    BY <1>3, <2>3 DEF EventTypeOK, EventWakePrompt
  <2> QED
    BY <2>1, <2>2, <2>3, Zenon DEF EventTypeOK, EventStep, FutexWait, FutexWake,
           FutexInterrupted
<1>5. ostep' \in [Threads -> OSteps]
  <2>1. CASE EventInc(t)
    BY <1>2, <1>3, <2>1, Zenon DEF EventTypeOK, EventInc, OSteps
  <2>2. CASE FutexWake(t)
    BY <1>2, <1>3, <2>2, Zenon DEF EventTypeOK, FutexWake, OSteps
  <2>3. CASE EventWakePrompt(t)
    BY <1>2, <1>3, <2>3, Zenon DEF EventTypeOK, EventWakePrompt, OSteps
  <2> QED
    BY <2>1, <2>2, <2>3, Zenon DEF EventTypeOK, EventStep, EventDec, FutexWait,
           FutexInterrupted, OSteps
<1>6. otargets' \in [Threads -> Seq(Threads)]
  BY <1>3, Zenon DEF EventTypeOK, EventStep, EventDec, FutexWait, EventInc, FutexWake,
         EventWakePrompt, FutexInterrupted
<1>7. owait' \in [Threads -> BOOLEAN]
  BY Zenon DEF EventTypeOK, EventStep, EventDec, FutexWait, EventInc, FutexWake,
         EventWakePrompt, FutexInterrupted
<1> QED
  BY <1>1, <1>4, <1>5, <1>6, <1>7, Zenon DEF EventTypeOK

\* A prompt wake-up, thread by thread: w is woken, t goes on to the next.
WokenBy(t, w) ==
    /\ otargets[t] # <<>> /\ w = Head(otargets[t])
    /\ ostep[t] = "wake"
    /\ se_event'[w] = se_event[w] + 1
    /\ \A u \in Threads \ {w} : se_event'[u] = se_event[u]
    /\ \A u \in Threads \ {t} : otargets'[u] = otargets[u]
    /\ otargets'[t] = Tail(otargets[t])
    /\ ostep'[t] = IF Tail(otargets[t]) = <<>> THEN "none" ELSE "wake"
    /\ \A u \in Threads \ {t} :
          ostep'[u] = IF u = w /\ ostep[u] = "asleep" /\ se_event[u] # 0
                      THEN "none" ELSE ostep[u]
    /\ owait' = owait

LEMMA PromptWake ==
    ASSUME EventTypeOK, NEW t \in Threads, EventOf(t), EventWakePrompt(t)
    PROVE  \E w \in Threads : WokenBy(t, w)
<1> DEFINE w == Head(otargets[t])
<1>1. /\ otargets[t] \in Seq(Threads) /\ otargets[t] # <<>>
      /\ ostep[t] = "wake" /\ owait[t] = FALSE
  BY Zenon DEF EventTypeOK, EventWakePrompt, EventOf
<1>2. /\ w \in Threads /\ Len(otargets[t]) \in Nat \ {0}
      /\ Tail(otargets[t]) = <<>> <=> Len(otargets[t]) = 1
  BY <1>1, TailFacts
<1>3. AfterWake(t) = IF Tail(otargets[t]) = <<>> THEN "none" ELSE "wake"
  <2>1. AfterWake(t) = IF Len(otargets[t]) > 1 THEN "wake" ELSE "none"
    BY <1>1, Zenon DEF AfterWake
  <2>2. Tail(otargets[t]) = <<>> <=> ~ (Len(otargets[t]) > 1)
    <3>1. \A n \in Nat \ {0} : n = 1 <=> ~ (n > 1)
      OBVIOUS
    <3> QED
      BY <1>2, <3>1, Zenon
  <2> QED
    BY <2>1, <2>2, Zenon
<1>4. /\ se_event' = [se_event EXCEPT ![w] = @ + 1]
      /\ ostep' = [ostep EXCEPT ![t] = AfterWake(t),
                                ![w] = IF @ = "asleep" /\ se_event[w] # 0 THEN "none" ELSE @]
      /\ otargets' = [otargets EXCEPT ![t] = Tail(@)]
      /\ owait' = owait
  BY Zenon DEF EventWakePrompt
<1> HIDE DEF w
<1>5. /\ se_event'[w] = se_event[w] + 1
      /\ \A u \in Threads \ {w} : se_event'[u] = se_event[u]
      /\ \A u \in Threads \ {t} : otargets'[u] = otargets[u]
      /\ otargets'[t] = Tail(otargets[t])
  BY <1>2, <1>4, Zenon DEF EventTypeOK
<1>6. AfterWake(t) # "asleep"
  BY <1>3
<1>7. ostep'[t] = AfterWake(t)
  BY <1>2, <1>4, <1>6 DEF EventTypeOK
<1>8. \A u \in Threads \ {t} :
          ostep'[u] = IF u = w /\ ostep[u] = "asleep" /\ se_event[u] # 0
                      THEN "none" ELSE ostep[u]
  BY <1>2, <1>4 DEF EventTypeOK
<1> QED
  BY <1>1, <1>2, <1>3, <1>4, <1>5, <1>7, <1>8, Zenon DEF WokenBy, w

\* A wait step of t, thread by thread.
LEMMA WaitStep ==
    ASSUME EventTypeOK, NEW t \in Threads, EventDec(t) \/ FutexWait(t)
    PROVE  /\ \A u \in Threads \ {t} : /\ se_event'[u] = se_event[u]
                                       /\ ostep'[u] = ostep[u]
                                       /\ owait'[u] = owait[u]
           /\ otargets' = otargets
           /\ \/ /\ ostep[t] = "wait" /\ se_event'[t] = se_event[t] - 1
                 /\ owait'[t] = FALSE
                 /\ ostep'[t] = IF se_event[t] = 0 THEN "futexwait" ELSE "none"
              \/ /\ ostep[t] = "futexwait" /\ se_event'[t] = se_event[t]
                 /\ owait'[t] = owait[t]
                 /\ ostep'[t] = IF se_event[t] = -1 THEN "asleep" ELSE "none"
<1>1. CASE EventDec(t)
  BY <1>1 DEF EventTypeOK, EventDec
<1>2. CASE FutexWait(t)
  BY <1>2 DEF EventTypeOK, FutexWait
<1> QED
  BY <1>1, <1>2, Zenon

-----------------------------------------------------------------------------
(* The events stay as EventOf says.                                        *)

LEMMA SectionEvents ==
    ASSUME EventTypeOK, NEW t \in Threads, Runs(t), Quiet(t),
           \A u \in Threads : EventOf(u),
           \A u \in Threads \ {t} : pc'[u] = pc[u]
    PROVE  \A u \in Threads : EventOf(u)'
<1>1. /\ se_event' = se_event /\ owait' = owait
      /\ \A u \in Threads \ {t} : ostep'[u] = ostep[u] /\ otargets'[u] = otargets[u]
  BY QuietFacts, Zenon
<1>2. ASSUME NEW u \in Threads, u # t PROVE EventOf(u)'
  <2>1. /\ se_event'[u] = se_event[u] /\ owait'[u] = owait[u] /\ pc'[u] = pc[u]
        /\ ostep'[u] = ostep[u] /\ otargets'[u] = otargets[u]
    BY <1>1, <1>2, Zenon
  <2> QED
    BY <2>1, Zenon DEF EventOf
<1>3. EventOf(t)'
  <2>1. /\ se_event[t] >= -1 /\ se_event[t] # -1 /\ owait[t] = FALSE
        /\ otargets[t] = <<>> /\ ostep[t] = "none"
    BY DEF EventOf, Runs, OcallDone
  <2>2. \/ ostep'[t] = "none" /\ otargets'[t] = <<>>
        \/ ostep'[t] = "wait" /\ otargets'[t] = <<>>
        \/ ostep'[t] = "wake" /\ otargets'[t] # <<>> /\ pc'[t] = "ready"
    <3>1. CASE UNCHANGED eventVars
      BY <2>1, <3>1 DEF eventVars
    <3>2. CASE OcallWait(t)
      BY <2>1, <3>2 DEF OcallWait, EventTypeOK
    <3>3. ASSUME NEW q \in Seq(Threads), Wakes(t, q)
          PROVE  ostep'[t] = "wake" /\ otargets'[t] # <<>> /\ pc'[t] = "ready"
      BY <3>3, Zenon DEF Wakes, OcallSet, EventTypeOK
    <3> QED
      BY <3>1, <3>2, <3>3, Zenon DEF Quiet
  <2>3. se_event'[t] = se_event[t] /\ owait'[t] = FALSE
    BY <1>1, <2>1, Zenon
  <2> QED
    BY <2>1, <2>2, <2>3 DEF EventOf
<1> QED
  BY <1>2, <1>3, Zenon

LEMMA OcallEvents ==
    ASSUME EventTypeOK, NEW t \in Threads, prompt, EventStep(t), pc' = pc,
           \A u \in Threads : EventOf(u)
    PROVE  \A u \in Threads : EventOf(u)'
<1>1. se_event \in [Threads -> Int]
  BY DEF EventTypeOK
<1>2. ASSUME EventDec(t) \/ FutexWait(t), NEW u \in Threads PROVE EventOf(u)'
  <2>1. CASE u # t
    <3>1. /\ se_event'[u] = se_event[u] /\ owait'[u] = owait[u] /\ pc'[u] = pc[u]
          /\ ostep'[u] = ostep[u] /\ otargets'[u] = otargets[u]
      BY <1>2, <2>1, WaitStep, Zenon
    <3> QED
      BY <3>1, Zenon DEF EventOf
  <2>2. CASE u = t
    <3>1. /\ ostep[t] \in {"wait", "futexwait"} /\ se_event[t] \in Int /\ otargets' = otargets
          /\ \/ /\ ostep[t] = "wait" /\ se_event'[t] = se_event[t] - 1
                /\ owait'[t] = FALSE
                /\ ostep'[t] = IF se_event[t] = 0 THEN "futexwait" ELSE "none"
             \/ /\ ostep[t] = "futexwait" /\ se_event'[t] = se_event[t]
                /\ owait'[t] = owait[t]
                /\ ostep'[t] = IF se_event[t] = -1 THEN "asleep" ELSE "none"
      BY <1>1, <1>2, WaitStep, Zenon
    <3>2. /\ se_event[t] >= -1 /\ owait[t] = FALSE /\ otargets[t] = <<>>
          /\ se_event[t] = -1 => ostep[t] # "wait"
      BY <3>1 DEF EventOf
    <3>3. otargets'[t] = <<>> /\ owait'[t] = FALSE
      BY <3>1, <3>2, Zenon
    <3>4. /\ se_event'[t] >= -1
          /\ ostep'[t] \in {"none", "futexwait", "asleep"}
          /\ se_event'[t] = -1 => ostep'[t] # "none"
          /\ ostep'[t] = "asleep" => se_event'[t] = -1
      BY <3>1, <3>2
    <3> QED
      BY <2>2, <3>3, <3>4 DEF EventOf
  <2> QED
    BY <2>1, <2>2, Zenon
<1>3. ASSUME EventWakePrompt(t), NEW u \in Threads PROVE EventOf(u)'
  <2>1. PICK w \in Threads : WokenBy(t, w)
    BY <1>3, PromptWake, Zenon
  <2>2. /\ se_event[u] \in Int
        /\ se_event'[u] = IF u = w THEN se_event[u] + 1 ELSE se_event[u]
        /\ owait'[u] = owait[u] /\ pc'[u] = pc[u]
    BY <1>1, <2>1, Zenon DEF WokenBy
  <2>3. CASE u # t
    <3>1. /\ otargets'[u] = otargets[u]
          /\ ostep'[u] = IF u = w /\ ostep[u] = "asleep" /\ se_event[u] # 0
                         THEN "none" ELSE ostep[u]
      BY <2>1, <2>3, Zenon DEF WokenBy
    <3>2. EventOf(u)
      OBVIOUS
    <3>3. /\ se_event'[u] >= -1
          /\ se_event'[u] = -1 => ostep'[u] \in {"futexwait", "asleep"}
          /\ ostep'[u] = "asleep" => se_event'[u] = -1
      BY <2>2, <3>1, <3>2 DEF EventOf
    <3>4. ostep'[u] = ostep[u] \/ (ostep[u] = "asleep" /\ ostep'[u] = "none")
      BY <3>1, Zenon
    <3>5. /\ ostep'[u] # "wake" => otargets'[u] = <<>>
          /\ ostep'[u] # "futexwake" /\ owait'[u] = FALSE
          /\ ostep'[u] = "wake" => pc'[u] = "ready" /\ otargets'[u] # <<>>
      BY <2>2, <3>1, <3>2, <3>4 DEF EventOf
    <3> QED
      BY <3>3, <3>5, Zenon DEF EventOf
  <2>4. CASE u = t
    <3>1. /\ ostep[u] = "wake" /\ otargets'[u] = Tail(otargets[u])
          /\ ostep'[u] = IF otargets'[u] = <<>> THEN "none" ELSE "wake"
      BY <2>1, <2>4, Zenon DEF WokenBy
    <3>2. EventOf(u)
      OBVIOUS
    <3>3. se_event[u] >= 0 /\ owait[u] = FALSE /\ pc[u] = "ready"
      BY <2>2, <3>1, <3>2 DEF EventOf
    <3> QED
      BY <2>2, <3>1, <3>3 DEF EventOf
  <2> QED
    BY <2>3, <2>4, Zenon
<1>4. ~ EventInc(t) /\ ~ FutexWake(t)
  BY DEF EventInc, FutexWake, EventOf
<1> QED
  BY <1>2, <1>3, <1>4, Zenon DEF EventStep

-----------------------------------------------------------------------------
(* What ends a wait stays under way until the wait is over.                *)

LEMMA SectionProgress ==
    ASSUME EventTypeOK, NEW t \in Threads, Runs(t), Quiet(t),
           \A u \in Threads : EventOf(u),
           NEW u \in Threads, u # t \/ UNCHANGED eventVars, Progresses(u)
    PROVE  Progresses(u)'
<1>1. CASE UNCHANGED eventVars
  BY <1>1, Zenon DEF eventVars, Progresses
<1>2. CASE u # t
  <2>1. /\ se_event' = se_event
        /\ \A v \in Threads \ {t} : ostep'[v] = ostep[v] /\ otargets'[v] = otargets[v]
    BY QuietFacts, Zenon
  <2>2. se_event'[u] = se_event[u] /\ ostep'[u] = ostep[u]
    BY <1>2, <2>1, Zenon
  <2>3. otargets[t] = <<>>
    BY DEF EventOf, Runs, OcallDone
  <2>4. ~ In(u, otargets[t])
    BY <2>3 DEF In
  <2>5. (\E v \in Threads : In(u, otargets[v])) => \E v \in Threads : In(u, otargets'[v])
    BY <2>1, <2>4, Zenon
  <2> QED
    BY <2>2, <2>5, Zenon DEF Progresses
<1> QED
  BY <1>1, <1>2, Zenon

\* A thread that is a target of t, or becomes one.
LEMMA TargetProgresses ==
    ASSUME EventTypeOK, NEW t \in Threads, NEW q \in Seq(Threads), OcallSet(t, q),
           NEW u \in Threads, In(u, q)
    PROVE  Progresses(u)'
<1>1. otargets'[t] = q
  BY DEF OcallSet, EventTypeOK
<1> QED
  BY <1>1, Zenon DEF Progresses

LEMMA OcallProgress ==
    ASSUME EventTypeOK, NEW t \in Threads, prompt, EventStep(t),
           \A u \in Threads : EventOf(u),
           NEW u \in Threads, pc[u] # "ready", Progresses(u)
    PROVE  Progresses(u)'
<1>1. /\ se_event[u] \in Int /\ ostep[u] \in OSteps /\ EventOf(u)
      /\ ostep[u] # "wake" /\ ostep[u] # "futexwake"
  BY DEF EventTypeOK, EventOf
<1>2. CASE EventDec(t) \/ FutexWait(t)
  <2>1. otargets' = otargets
    BY <1>2, WaitStep, Zenon
  <2>2. CASE \E v \in Threads : In(u, otargets[v])
    BY <2>1, <2>2, Zenon DEF Progresses
  <2>3. CASE u # t
    <3>1. se_event'[u] = se_event[u] /\ ostep'[u] = ostep[u]
      BY <1>2, <2>3, WaitStep, Zenon
    <3> QED
      BY <2>1, <3>1, Zenon DEF Progresses
  <2>4. CASE u = t /\ ~ (\E v \in Threads : In(u, otargets[v]))
    <3>1. \/ ostep[u] = "none"
          \/ ostep[u] = "wait" /\ se_event[u] # 0
          \/ ostep[u] = "futexwait" /\ se_event[u] # -1
      BY <2>4, Zenon DEF Progresses
    <3>2. \/ /\ ostep[u] = "wait"
             /\ ostep'[u] = IF se_event[u] = 0 THEN "futexwait" ELSE "none"
          \/ /\ ostep[u] = "futexwait"
             /\ ostep'[u] = IF se_event[u] = -1 THEN "asleep" ELSE "none"
      BY <1>2, <2>4, WaitStep, Zenon
    <3>3. ostep'[u] = "none"
      BY <3>1, <3>2
    <3> QED
      BY <3>3, Zenon DEF Progresses
  <2> QED
    BY <2>2, <2>3, <2>4, Zenon
<1>3. CASE EventWakePrompt(t)
  <2>1. PICK w \in Threads : WokenBy(t, w)
    BY <1>3, PromptWake, Zenon
  <2>2. u # t /\ ostep[t] = "wake" /\ w = Head(otargets[t])
    BY <1>1, <2>1, Zenon DEF WokenBy
  <2>3. /\ ostep'[u] = IF u = w /\ ostep[u] = "asleep" /\ se_event[u] # 0
                       THEN "none" ELSE ostep[u]
        /\ se_event'[u] = IF u = w THEN se_event[u] + 1 ELSE se_event[u]
    BY <2>1, <2>2, Zenon DEF WokenBy
  <2>4. CASE u = w
    <3>1. \/ ostep'[u] = "none"
          \/ ostep'[u] = "wait" /\ se_event'[u] # 0
          \/ ostep'[u] = "futexwait" /\ se_event'[u] # -1
      <4>1. /\ se_event[u] >= -1 /\ se_event'[u] = se_event[u] + 1
            /\ se_event[u] = -1 => ostep[u] \in {"futexwait", "asleep"}
            /\ ostep[u] = "asleep" => se_event[u] = -1
        BY <1>1, <2>3, <2>4, Zenon DEF EventOf
      <4>2. ostep[u] \in {"none", "wait", "futexwait", "asleep"}
        BY <1>1, Zenon DEF OSteps
      <4>3. CASE ostep[u] = "asleep"
        BY <2>3, <2>4, <4>1, <4>3
      <4>4. CASE ostep[u] # "asleep"
        <5>1. ostep'[u] = ostep[u]
          BY <2>3, <4>4, Zenon
        <5>2. ostep[u] = "wait" => se_event'[u] # 0
          BY <1>1, <4>1
        <5>3. se_event'[u] # -1
          BY <1>1, <4>1
        <5> QED
          BY <4>2, <4>4, <5>1, <5>2, <5>3, Zenon
      <4> QED
        BY <4>3, <4>4, Zenon
    <3> QED
      BY <3>1, Zenon DEF Progresses
  <2>5. CASE u # w
    <3>1. ostep'[u] = ostep[u] /\ se_event'[u] = se_event[u]
      BY <2>3, <2>5, Zenon
    <3>2. ASSUME NEW v \in Threads, In(u, otargets[v]) PROVE In(u, otargets'[v])
      <4>1. CASE v # t
        BY <2>1, <3>2, <4>1, Zenon DEF WokenBy
      <4>2. CASE v = t
        <5>1. /\ otargets[t] \in Seq(Threads) /\ otargets[t] # <<>>
              /\ otargets'[t] = Tail(otargets[t])
          BY <2>1, Zenon DEF WokenBy, EventTypeOK
        <5>2. In(u, Tail(otargets[t]))
          BY <2>2, <2>5, <3>2, <4>2, <5>1, TailFacts, Zenon
        <5> QED
          BY <4>2, <5>1, <5>2, Zenon
      <4> QED
        BY <4>1, <4>2, Zenon
    <3> QED
      BY <3>1, <3>2, Zenon DEF Progresses
  <2> QED
    BY <2>4, <2>5, Zenon
<1>4. ~ EventInc(t) /\ ~ FutexWake(t)
  BY DEF EventInc, FutexWake, EventOf
<1> QED
  BY <1>2, <1>3, <1>4, Zenon DEF EventStep

-----------------------------------------------------------------------------
(* The inductive steps.  First what the critical sections have in common.  *)

LEMMA WakeFacts ==
    ASSUME NEW q \in Seq(Threads), NEW t \in Threads, WakeAfter(t, q), pc'[t] = "ready"
    PROVE  Quiet(t) /\ (q # <<>> => OcallSet(t, q))
BY Zenon DEF WakeAfter, Quiet, Wakes

LEMMA FirstOfType ==
    ASSUME NEW q \in Seq(Threads)
    PROVE  /\ FirstOf(q) \in Seq(Threads)
           /\ q # <<>> => /\ FirstOf(q) # <<>>
                          /\ q[1] \in Threads /\ In(q[1], q) /\ In(q[1], FirstOf(q))
<1>1. CASE q = <<>>
  BY <1>1 DEF FirstOf
<1>2. CASE q # <<>>
  <2>1. FirstOf(q) = <<q[1]>>
    BY <1>2, Zenon DEF FirstOf
  <2> QED
    BY <1>2, <2>1, FirstIsIn, Zenon
<1> QED
  BY <1>1, <1>2, Zenon

\* The critical sections of the lock.
Section(t) ==
    \/ RdlockFree(t) \/ RdlockBlock(t) \/ RdlockRetry(t)
    \/ WrlockFree(t) \/ WrlockBlock(t) \/ WrlockRetry(t)
    \/ Rdunlock(t) \/ Wrunlock(t) \/ Unlock(t)

LEMMA SectionFacts ==
    ASSUME ListTypeOK, calls \in Nat, NEW t \in Threads, Section(t)
    PROVE  /\ Runs(t) /\ Quiet(t)
           /\ \A u \in Threads \ {t} : pc'[u] = pc[u]
           /\ memory' = memory /\ calls' \in Nat
<1>1. pc \in [Threads -> {"ready", "rwait", "wwait", "unlockr", "unlockw"}]
  BY DEF ListTypeOK
<1>2. Runs(t)
  BY Zenon DEF Section, RdlockFree, RdlockBlock, RdlockRetry, WrlockFree, WrlockBlock,
         WrlockRetry, Rdunlock, Wrunlock, Unlock, Call
<1>3. \/ pc' = pc
      \/ \E c \in {"ready", "rwait", "wwait", "unlockr", "unlockw"} :
            pc' = [pc EXCEPT ![t] = c]
  BY Zenon DEF Section, RdlockFree, RdlockBlock, RdlockRetry, WrlockFree, WrlockBlock,
         WrlockRetry, Rdunlock, Wrunlock, Unlock
<1>4. \A u \in Threads \ {t} : pc'[u] = pc[u]
  BY <1>1, <1>3, Zenon
<1>5. memory' = memory
  BY Zenon DEF Section, RdlockFree, RdlockBlock, RdlockRetry, WrlockFree, WrlockBlock,
         WrlockRetry, Rdunlock, Wrunlock, Unlock
<1>6. calls' = calls \/ calls' = calls + 1
  BY Zenon DEF Section, RdlockFree, RdlockBlock, RdlockRetry, WrlockFree, WrlockBlock,
         WrlockRetry, Rdunlock, Wrunlock, Unlock, Call
<1>7. Quiet(t)
  <2>1. m_reader_queue \in Seq(Threads) /\ m_writer_queue \in Seq(Threads)
    BY DEF ListTypeOK
  <2>2. CASE Rdunlock(t)
    <3>1. pc'[t] = "ready"
      BY <1>1, <2>2, Zenon DEF Rdunlock
    <3>2. PICK q \in Seq(Threads) : WakeAfter(t, q)
      <4>1. <<>> \in Seq(Threads)
        OBVIOUS
      <4> QED
        BY <2>1, <2>2, <4>1, FirstOfType, Zenon DEF Rdunlock
    <3> QED
      BY <3>1, <3>2, WakeFacts, Zenon
  <2>3. CASE Wrunlock(t)
    <3>1. pc'[t] = "ready"
      BY <1>1, <2>3, Zenon DEF Wrunlock
    <3>2. UNCHANGED eventVars \/ \E q \in Seq(Threads) : WakeAfter(t, q)
      BY <2>1, <2>3, FirstOfType, Zenon DEF Wrunlock
    <3> QED
      BY <3>1, <3>2, WakeFacts, Zenon DEF Quiet
  <2> QED
    BY <2>2, <2>3, Zenon DEF Section, RdlockFree, RdlockBlock, RdlockRetry, WrlockFree,
           WrlockBlock, WrlockRetry, Unlock, Quiet
<1> QED
  BY <1>2, <1>4, <1>5, <1>6, <1>7

\* The first part of the invariant.
LEMMA SectionWake ==
    ASSUME ListTypeOK, RwWakeInv, NEW t \in Threads, Section(t)
    PROVE  /\ EventTypeOK' /\ memory' \in BOOLEAN /\ calls' \in Nat
           /\ prompt' => \A u \in Threads : EventOf(u)'
<1>1. /\ EventTypeOK /\ memory \in BOOLEAN /\ calls \in Nat
      /\ prompt => \A u \in Threads : EventOf(u)
  BY Zenon DEF RwWakeInv
<1>2. /\ Runs(t) /\ Quiet(t) /\ memory' = memory /\ calls' \in Nat
      /\ \A u \in Threads \ {t} : pc'[u] = pc[u]
  BY <1>1, SectionFacts, Zenon
<1>3. EventTypeOK' /\ prompt' = prompt
  BY <1>1, <1>2, QuietFacts, Zenon
<1>4. prompt => \A u \in Threads : EventOf(u)'
  BY <1>1, <1>2, SectionEvents, Zenon
<1> QED
  BY <1>1, <1>2, <1>3, <1>4, Zenon

\* A section that leaves the lock without an owner and queues no reader.
LEMMA ReadersKept ==
    ASSUME ListInv, RwWakeInv, NEW t \in Threads, Section(t), m_owner = Null,
           pc[t] # "rwait" \/ UNCHANGED eventVars,
           \A u \in Threads : In(u, m_reader_queue') => In(u, m_reader_queue)
    PROVE  ReadersAttended'
<1> SUFFICES ASSUME memory', prompt', NEW u \in Threads, In(u, m_reader_queue')
             PROVE  Progresses(u)'
  BY Zenon DEF ReadersAttended
<1>1. /\ EventTypeOK /\ calls \in Nat
      /\ prompt => \A v \in Threads : EventOf(v)
      /\ ReadersAttended
  BY Zenon DEF RwWakeInv
<1>2. Runs(t) /\ Quiet(t) /\ memory' = memory
  BY <1>1, SectionFacts, Zenon DEF ListInv
<1>3. prompt' = prompt
  BY <1>1, <1>2, QuietFacts, Zenon
<1>4. In(u, m_reader_queue) /\ Progresses(u)
  BY <1>1, <1>2, <1>3, Zenon DEF ReadersAttended
<1>5. u # t \/ UNCHANGED eventVars
  BY <1>4, Zenon DEF ListInv, QueuesAreWaiters
<1> QED
  BY <1>1, <1>2, <1>3, <1>4, <1>5, SectionProgress, Zenon

\* Readers: one that is let in leaves the others as they are, and one that
\* queues up does so behind an owner.
LEMMA RdlockAttended ==
    ASSUME AccessInv, ListInv, RwWakeInv, NEW t \in Threads,
           RdlockFree(t) \/ RdlockBlock(t) \/ RdlockRetry(t)
    PROVE  ReadersAttended' /\ WritersAttended'
<1>1. Section(t)
  BY Zenon DEF Section
<1>2. CASE m_owner' # Null
  BY <1>2, Zenon DEF ReadersAttended, WritersAttended
<1>3. CASE m_owner' = Null
  <2>1. m_owner = Null /\ ReadFree
    BY <1>3, Zenon DEF RdlockFree, RdlockBlock, RdlockRetry, GrantRead, ReadFree, lockVars
  <2>2. /\ GrantRead(t) /\ UNCHANGED eventVars
        /\ \/ m_reader_queue' = m_reader_queue
           \/ pc[t] = "rwait" /\ m_reader_queue' = Remove(m_reader_queue, t)
    BY <2>1, Zenon DEF RdlockFree, RdlockBlock, RdlockRetry
  <2>3. \A u \in Threads : In(u, m_reader_queue') => In(u, m_reader_queue)
    <3>1. /\ m_reader_queue \in Seq(Threads) /\ Once(m_reader_queue)
          /\ pc[t] = "rwait" => In(t, m_reader_queue)
      BY Zenon DEF ListInv, ListTypeOK, QueuesAreWaiters
    <3> QED
      BY <2>2, <3>1, Removed, Zenon
  <2>4. ReadersAttended'
    BY <1>1, <2>1, <2>2, <2>3, ReadersKept, Zenon
  <2>5. m_reader_count' # 0
    BY <2>2 DEF GrantRead, AccessInv, AccessTypeOK
  <2> QED
    BY <2>4, <2>5, Zenon DEF WritersAttended
<1> QED
  BY <1>2, <1>3, Zenon

\* Writers: one that is let in owns the lock, and one that waits finds it taken.
LEMMA WrlockAttended ==
    ASSUME AccessInv, ListInv, RwWakeInv, NEW t \in Threads,
           WrlockFree(t) \/ WrlockBlock(t) \/ WrlockRetry(t)
    PROVE  ReadersAttended' /\ WritersAttended'
<1>1. Section(t)
  BY Zenon DEF Section
<1>2. CASE m_owner' # Null
  BY <1>2, Zenon DEF ReadersAttended, WritersAttended
<1>3. CASE m_owner' = Null
  <2>1. t # Null
    BY RwAssumption
  <2>2. ~ GrantWrite(t)
    BY <1>3, <2>1, Zenon DEF GrantWrite
  <2>3. /\ ~ WriteFree /\ pc[t] \in {"ready", "wwait"}
        /\ m_owner' = m_owner /\ m_reader_count' = m_reader_count
        /\ m_reader_queue' = m_reader_queue
    BY <2>2, Zenon DEF WrlockFree, WrlockBlock, WrlockRetry, Call, lockVars
  <2>4. pc[t] # "rwait"
    BY <2>3
  <2>5. ReadersAttended'
    BY <1>1, <1>3, <2>3, <2>4, ReadersKept, Zenon
  <2>6. m_reader_count' # 0
    BY <1>3, <2>3, Zenon DEF WriteFree
  <2> QED
    BY <2>5, <2>6, Zenon DEF WritersAttended
<1> QED
  BY <1>2, <1>3, Zenon

\* The last reader wakes the first writer.
LEMMA RdunlockAttended ==
    ASSUME AccessInv, ListInv, RwWakeInv, NEW t \in Threads, Rdunlock(t)
    PROVE  ReadersAttended' /\ WritersAttended'
<1>1. Section(t)
  BY Zenon DEF Section
<1>2. /\ m_owner' = m_owner /\ m_reader_count' = m_reader_count - 1
      /\ m_reader_queue' = m_reader_queue /\ m_writer_queue' = m_writer_queue
      /\ pc[t] \in {"ready", "unlockr"} /\ pc' = [pc EXCEPT ![t] = "ready"]
  BY Zenon DEF Rdunlock
<1>3. pc[t] # "rwait"
  BY <1>2
<1>4. ReadersAttended'
  <2>1. CASE m_owner = Null
    BY <1>1, <1>2, <1>3, <2>1, ReadersKept, Zenon
  <2>2. CASE m_owner # Null
    BY <1>2, <2>2, Zenon DEF ReadersAttended
  <2> QED
    BY <2>1, <2>2, Zenon
<1>5. ASSUME m_reader_count' = 0, m_writer_queue # <<>>
      PROVE  \E u \in Threads : In(u, m_writer_queue) /\ Progresses(u)'
  <2>1. m_reader_count = 1
    BY <1>2, <1>5 DEF AccessInv, AccessTypeOK
  <2>2. m_writer_queue \in Seq(Threads) /\ EventTypeOK
    BY DEF ListInv, ListTypeOK, RwWakeInv
  <2>3. WakeAfter(t, FirstOf(m_writer_queue))
    BY <2>1, Zenon DEF Rdunlock
  <2>4. PICK q \in Seq(Threads) : q = FirstOf(m_writer_queue)
    BY <2>2, FirstOfType, Zenon
  <2>5. PICK u \in Threads : u = m_writer_queue[1]
    BY <1>5, <2>2, FirstOfType, Zenon
  <2>6. q # <<>> /\ In(u, m_writer_queue) /\ In(u, q)
    BY <1>5, <2>2, <2>4, <2>5, FirstOfType, Zenon
  <2>7. OcallSet(t, q)
    BY <2>3, <2>4, <2>6, Zenon DEF WakeAfter
  <2> QED
    BY <2>2, <2>6, <2>7, TargetProgresses, Zenon
<1> QED
  BY <1>2, <1>4, <1>5, Zenon DEF WritersAttended

\* The writer wakes all queued readers, or the first writer.
LEMMA WrunlockAttended ==
    ASSUME AccessInv, ListInv, RwWakeInv, NEW t \in Threads, Wrunlock(t)
    PROVE  ReadersAttended' /\ WritersAttended'
<1>1. /\ m_reader_queue \in Seq(Threads) /\ m_writer_queue \in Seq(Threads) /\ EventTypeOK
  BY DEF ListInv, ListTypeOK, RwWakeInv
<1>2. /\ m_reader_queue' = m_reader_queue /\ m_writer_queue' = m_writer_queue
      /\ memory' = memory
  BY Zenon DEF Wrunlock
<1>3. CASE ~ memory
  BY <1>2, <1>3, Zenon DEF ReadersAttended, WritersAttended
<1>4. CASE memory /\ m_reader_queue # <<>>
  <2>1. OcallSet(t, m_reader_queue)
    BY <1>4, Zenon DEF Wrunlock, WakeAfter
  <2>2. \A u \in Threads : In(u, m_reader_queue) => Progresses(u)'
    BY <1>1, <2>1, TargetProgresses, Zenon
  <2>3. PICK u \in Threads : In(u, m_reader_queue)
    BY <1>1, <1>4, FirstIsIn, Zenon
  <2>4. Progresses(u)'
    BY <2>2, <2>3, Zenon
  <2> QED
    BY <1>2, <2>2, <2>3, <2>4, Zenon DEF ReadersAttended, WritersAttended
<1>5. CASE memory /\ m_reader_queue = <<>>
  <2>1. \A u \in Threads : ~ In(u, m_reader_queue)
    BY <1>5 DEF In
  <2>2. ReadersAttended'
    BY <1>2, <2>1, Zenon DEF ReadersAttended
  <2>3. CASE m_writer_queue = <<>>
    BY <1>2, <2>2, <2>3, Zenon DEF WritersAttended
  <2>4. CASE m_writer_queue # <<>>
    <3>1. WakeAfter(t, FirstOf(m_writer_queue))
      BY <1>5, Zenon DEF Wrunlock
    <3>2. PICK q \in Seq(Threads) : q = FirstOf(m_writer_queue)
      BY <1>1, FirstOfType, Zenon
    <3>3. PICK u \in Threads : u = m_writer_queue[1]
      BY <1>1, <2>4, FirstOfType, Zenon
    <3>4. q # <<>> /\ In(u, m_writer_queue) /\ In(u, q)
      BY <1>1, <2>4, <3>2, <3>3, FirstOfType, Zenon
    <3>5. OcallSet(t, q)
      BY <3>1, <3>2, <3>4, Zenon DEF WakeAfter
    <3>6. Progresses(u)'
      BY <1>1, <3>4, <3>5, TargetProgresses, Zenon
    <3> QED
      BY <1>2, <2>2, <3>4, <3>6, Zenon DEF WritersAttended
  <2> QED
    BY <2>3, <2>4, Zenon
<1> QED
  BY <1>3, <1>4, <1>5, Zenon

LEMMA UnlockAttended ==
    ASSUME RwWakeInv, NEW t \in Threads, Unlock(t)
    PROVE  ReadersAttended' /\ WritersAttended'
<1>1. ReadersAttended /\ WritersAttended
  BY Zenon DEF RwWakeInv
<1>2. UNCHANGED <<lockVars, memory, eventVars>>
  BY Zenon DEF Unlock
<1> QED
  BY <1>1, <1>2, Zenon DEF lockVars, eventVars, ReadersAttended, WritersAttended, Progresses

\* The OCALLs themselves.
LEMMA OcallWake ==
    ASSUME ListInv, RwWakeInv, NEW t \in Threads, OcallStep(t) \/ Interrupted(t)
    PROVE  RwWakeInv'
<1>1. /\ EventTypeOK /\ memory \in BOOLEAN /\ calls \in Nat
      /\ prompt => \A u \in Threads : EventOf(u)
      /\ ReadersAttended /\ WritersAttended
  BY Zenon DEF RwWakeInv
<1>2. /\ EventStep(t) \/ FutexInterrupted(t)
      /\ UNCHANGED <<lockVars, pc, memory, calls>>
  BY Zenon DEF OcallStep, Interrupted
<1>3. /\ m_owner' = m_owner /\ m_reader_count' = m_reader_count
      /\ m_reader_queue' = m_reader_queue /\ m_writer_queue' = m_writer_queue
      /\ pc' = pc /\ memory' = memory /\ calls' = calls
  BY <1>2, Zenon DEF lockVars
<1>4. EventTypeOK' /\ prompt' = prompt
  BY <1>1, <1>2, OcallTypes, Zenon
<1>5. CASE ~ prompt
  BY <1>1, <1>3, <1>4, <1>5, Zenon DEF RwWakeInv, ReadersAttended, WritersAttended
<1>6. CASE prompt
  <2>1. EventStep(t)
    BY <1>2, <1>6, Zenon DEF FutexInterrupted
  <2>2. \A u \in Threads : EventOf(u)'
    BY <1>1, <1>3, <1>6, <2>1, OcallEvents, Zenon
  <2>3. ASSUME NEW u \in Threads, In(u, m_reader_queue) \/ In(u, m_writer_queue),
               Progresses(u)
        PROVE  Progresses(u)'
    <3>1. pc[u] = "rwait" \/ pc[u] = "wwait"
      BY <2>3, Zenon DEF ListInv, QueuesAreWaiters
    <3>2. pc[u] # "ready"
      BY <3>1
    <3> QED
      BY <1>1, <1>6, <2>1, <2>3, <3>2, OcallProgress, Zenon
  <2>4. ReadersAttended'
    BY <1>1, <1>3, <1>4, <2>3, Zenon DEF ReadersAttended
  <2>5. WritersAttended'
    BY <1>1, <1>3, <1>4, <2>3, Zenon DEF WritersAttended
  <2> QED
    BY <1>1, <1>3, <1>4, <2>2, <2>4, <2>5, Zenon DEF RwWakeInv
<1> QED
  BY <1>5, <1>6, Zenon

LEMMA RwWakeInit == RwInit => RwWakeInv
<1> SUFFICES ASSUME RwInit PROVE RwWakeInv
  OBVIOUS
<1>1. EventTypeOK /\ memory \in BOOLEAN /\ calls \in Nat
  BY EventAssumption, RwAssumption DEF RwInit, EventInit, EventTypeOK, OSteps
<1>2. ASSUME NEW u \in Threads PROVE EventOf(u)
  BY DEF RwInit, EventInit, EventOf
<1>3. ReadersAttended /\ WritersAttended
  BY DEF RwInit, ReadersAttended, WritersAttended, In
<1> QED
  BY <1>1, <1>2, <1>3, Zenon DEF RwWakeInv

LEMMA RwWakeStep ==
    AccessInv /\ ListInv /\ RwWakeInv /\ [RwNext]_rwVars => RwWakeInv'
<1> SUFFICES ASSUME AccessInv, ListInv, RwWakeInv, [RwNext]_rwVars
             PROVE  RwWakeInv'
  OBVIOUS
<1>1. CASE UNCHANGED rwVars
  BY <1>1, Zenon DEF rwVars, lockVars, eventVars, RwWakeInv, EventTypeOK, EventOf,
         ReadersAttended, WritersAttended, Progresses
<1>2. ASSUME NEW t \in Threads, Section(t) PROVE RwWakeInv'
  <2>1. ReadersAttended' /\ WritersAttended'
    BY <1>2, RdlockAttended, WrlockAttended, RdunlockAttended, WrunlockAttended,
       UnlockAttended, Zenon DEF Section
  <2>2. /\ EventTypeOK' /\ memory' \in BOOLEAN /\ calls' \in Nat
        /\ prompt' => \A u \in Threads : EventOf(u)'
    BY <1>2, SectionWake, Zenon DEF ListInv
  <2> QED
    BY <2>1, <2>2, Zenon DEF RwWakeInv
<1>3. ASSUME NEW t \in Threads, OcallStep(t) \/ Interrupted(t) PROVE RwWakeInv'
  BY <1>3, OcallWake, Zenon
<1> QED
  BY <1>1, <1>2, <1>3, Zenon DEF RwNext, Section

\* wrunlock wakes every queued reader, or else it and the last rdunlock wake the
\* first queued writer, and no such wake-up is lost on its way: while the
\* allocation in wrunlock succeeds and wakers are not descheduled inside
\* se_event_wake, no reader is left asleep beside a lock without an owner, nor are
\* all waiters beside a free lock.  For any number of threads, although waiters
\* may be overtaken and events gather wake-ups that come late.
THEOREM RwWakeupsArrive == LinkedSpec => []NoLostRwWakeup
<1>1. AccessInv /\ ListInv /\ RwWakeInv => NoLostRwWakeup
  <2> SUFFICES ASSUME AccessInv, ListInv, RwWakeInv
               PROVE  NoLostRwWakeup
    OBVIOUS
  <2>1. writer \subseteq Threads
    BY Zenon DEF AccessInv, AccessTypeOK, CountAgrees
  <2>2. RwTypeOK
    BY <2>1, Zenon DEF AccessInv, AccessTypeOK, ListInv, ListTypeOK, RwWakeInv, RwTypeOK
  <2> QED
    BY <2>2, Zenon DEF RwWakeInv, ReadersAttended, WritersAttended, NoLostRwWakeup
<1>2. LinkedSpec => RwInit /\ [][RwNext]_rwVars
  BY LinkedIsRwlock, PTL DEF RwSpec
<1>3. LinkedSpec => []AccessInv /\ []ListInv
  BY LinkedIsRwlock, AccessAlways, ListAlways, PTL
<1> QED
  BY <1>1, <1>2, <1>3, RwWakeInit, RwWakeStep, PTL

=============================================================================
