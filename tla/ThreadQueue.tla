---------------------------- MODULE ThreadQueue -----------------------------
(***************************************************************************)
(* The waiting lists of sdk/tlibthread/sethread_internal.h, pointer by     *)
(* pointer.  A list is a first and a last pointer in the lock object; the  *)
(* links are the one field m_next of each thread's thread_data, shared by  *)
(* all lists.  The lock modules use sequences instead: Linked says what it *)
(* means that the pointers of a list stand for a sequence.                 *)
(***************************************************************************)
EXTENDS Naturals, Sequences

CONSTANTS
    Threads,
    Queues,           \* the lists: one or two per lock object
    Lengths,          \* how many threads a loop over a list may visit
    Null              \* SGX_THREAD_T_NULL

VARIABLES m_first, m_last, m_next

queueVars == <<m_first, m_last, m_next>>

Pointers == Threads \cup {Null}

QueueTypeOK ==
    /\ m_first \in [Queues -> Pointers]
    /\ m_last \in [Queues -> Pointers]
    /\ m_next \in [Threads -> Pointers]

QueueInit ==
    /\ m_first = [q \in Queues |-> Null]
    /\ m_last = [q \in Queues |-> Null]
    /\ m_next = [t \in Threads |-> Null]

\* QUEUE_INSERT_TAIL; nothing looks whether t is linked already.
InsertTail(q, t) ==
    /\ IF m_first[q] # Null
       THEN /\ m_next' = [[m_next EXCEPT ![t] = Null] EXCEPT ![m_last[q]] = t]
            /\ UNCHANGED m_first
       ELSE /\ m_next' = [m_next EXCEPT ![t] = Null]
            /\ m_first' = [m_first EXCEPT ![q] = t]
    /\ m_last' = [m_last EXCEPT ![q] = t]

\* QUEUE_REMOVE_HEAD; m_next of the old head keeps its value.
RemoveHead(q) ==
    /\ m_first[q] # Null
    /\ m_first' = [m_first EXCEPT ![q] = m_next[m_first[q]]]
    /\ m_last' = [m_last EXCEPT ![q] = IF m_next[m_first[q]] = Null THEN Null ELSE @]
    /\ UNCHANGED m_next

\* The threads that the loop of QUEUE_REMOVE visits on its way to the end of p.
Path(q, p) ==
    /\ p[1] = m_first[q]
    /\ \A i \in 1..(Len(p) - 1) : p[i + 1] = m_next[p[i]]

Paths == UNION {[1..n -> Threads] : n \in Lengths}

\* Mutation: m_last is left at the thread that goes.
Unlink_KeepLast(q, t) ==
    \E p \in Paths : LET u == p[Len(p)] IN
        /\ Path(q, p) /\ m_next[u] = t
        /\ m_next' = [m_next EXCEPT ![u] = m_next[t], ![t] = Null]
        /\ UNCHANGED <<m_first, m_last>>

\* QUEUE_REMOVE of a thread that is not the head: unlink it from the thread
\* before it.
Unlink(q, t) ==
    \E p \in Paths : LET u == p[Len(p)] IN
        /\ Path(q, p) /\ m_next[u] = t
        /\ m_next' = [m_next EXCEPT ![u] = m_next[t], ![t] = Null]
        /\ m_last' = [m_last EXCEPT ![q] = IF @ = t THEN u ELSE @]
        /\ UNCHANGED m_first

\* QUEUE_REMOVE of a thread in the list.
Remove(q, t) == IF m_first[q] = t THEN RemoveHead(q) ELSE Unlink(q, t)

-----------------------------------------------------------------------------

\* The pointers of list q stand for the sequence s: QUEUE_FIRST is its head,
\* QUEUE_FOREACH visits its elements in order and stops, and QUEUE_INSERT_TAIL
\* would append to its end.
Linked(q, s) ==
    /\ m_first[q] = IF s = <<>> THEN Null ELSE s[1]
    /\ m_last[q] = IF s = <<>> THEN Null ELSE s[Len(s)]
    /\ \A i \in 1..Len(s) : m_next[s[i]] = IF i = Len(s) THEN Null ELSE s[i + 1]

=============================================================================
