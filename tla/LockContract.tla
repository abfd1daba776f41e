---------------------------- MODULE LockContract ----------------------------
(***************************************************************************)
(* What a blocking lock promises its callers, with nothing of how it does  *)
(* so: calls that return with the lock, calls that block, and releases.    *)
(* A blocked call returns only with the lock, the lock has one holder, and *)
(* calls are served in the order in which they blocked.                    *)
(***************************************************************************)
EXTENDS Naturals, Sequences

CONSTANT Threads

VARIABLES
    holds,            \* how many unreleased grants each thread has
    pending           \* the threads whose call blocks, in order of arrival

contractVars == <<holds, pending>>

Free == \A t \in Threads : holds[t] = 0

ContractInit ==
    /\ holds = [t \in Threads |-> 0]
    /\ pending = <<>>

Block(t) ==
    /\ \A i \in 1..Len(pending) : pending[i] # t
    /\ ~ Free \/ pending # <<>>
    /\ pending' = Append(pending, t)
    /\ UNCHANGED holds

Grant(t) ==
    /\ Free
    /\ \/ pending = <<>> /\ UNCHANGED pending
       \/ pending # <<>> /\ Head(pending) = t /\ pending' = Tail(pending)
    /\ holds' = [holds EXCEPT ![t] = 1]

GrantAgain(t) ==
    /\ holds[t] > 0
    /\ holds' = [holds EXCEPT ![t] = @ + 1]
    /\ UNCHANGED pending

GiveBack(t) ==
    /\ holds[t] > 0
    /\ holds' = [holds EXCEPT ![t] = @ - 1]
    /\ UNCHANGED pending

ContractNext == \E t \in Threads :
    Block(t) \/ Grant(t) \/ GrantAgain(t) \/ GiveBack(t)

ContractSpec == ContractInit /\ [][ContractNext]_contractVars

=============================================================================
