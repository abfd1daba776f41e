---------------------------- MODULE RwlockQueues ----------------------------
(***************************************************************************)
(* The reader/writer lock of SgxThreadRwlock over the pointer lists of     *)
(* ThreadQueue: each critical section that changes one of the two queues   *)
(* runs the macro that the code uses there.                                *)
(***************************************************************************)
EXTENDS SgxThreadRwlock

VARIABLES m_first, m_last, m_next

Lists == INSTANCE ThreadQueue WITH
    Queues <- {"readers", "writers"}, Lengths <- 1..Cardinality(Threads)

listVars == <<m_first, m_last, m_next>>

LinkedInit == RwInit /\ Lists!QueueInit

\* rdlock and wrlock queue up at the tail.
BlockLinked(t) ==
    \/ RdlockBlock(t) /\ Lists!InsertTail("readers", t)
    \/ WrlockBlock(t) /\ Lists!InsertTail("writers", t)

\* A waiter that gets the lock takes itself off its list; one that goes on
\* waiting leaves the list alone.
RetryLinked(t, q) ==
    IF pc'[t] = "ready" THEN Lists!Remove(q, t) ELSE UNCHANGED listVars

\* The sections that leave both lists alone.
Unlisted(t) ==
    \/ RdlockFree(t) \/ WrlockFree(t)
    \/ Rdunlock(t) \/ Wrunlock(t) \/ Unlock(t)
    \/ OcallStep(t) \/ Interrupted(t)

LinkedNext == \E t \in Threads :
    \/ BlockLinked(t)
    \/ RdlockRetry(t) /\ RetryLinked(t, "readers")
    \/ WrlockRetry(t) /\ RetryLinked(t, "writers")
    \/ Unlisted(t) /\ UNCHANGED listVars

LinkedSpec == LinkedInit /\ [][LinkedNext]_<<rwVars, listVars>>

LinkedFairSpec == LinkedSpec /\ RwFairness

-----------------------------------------------------------------------------

\* The pointers of both lists always stand for the sequences that the lock is
\* modelled with, although the lists share the one link of each thread, waiters
\* leave from the middle, and removed threads keep stale links.
ListsLinked ==
    /\ Lists!Linked("readers", m_reader_queue)
    /\ Lists!Linked("writers", m_writer_queue)

=============================================================================
