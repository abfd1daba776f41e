----------------------------- MODULE AtomicFile -----------------------------
(***************************************************************************)
(* What a protected file promises to the enclave that uses it, whatever    *)
(* happens between two calls or in the middle of one: what is stored is    *)
(* always one whole version of the file, and it changes only to the        *)
(* version that the open handle holds at that moment.  A failure of the  *)
(* two kinds that Endanger stands for puts that version at risk: until a   *)
(* version is stored again, openers find it unchanged or find nothing.     *)
(*                                                                         *)
(* A version is the first block (the part of the file kept in the          *)
(* meta-data node, "head") and the sequence of the other blocks.           *)
(***************************************************************************)
EXTENDS Naturals, Sequences

CONSTANTS Nothing,      \* no version can be read: never stored, or removed
          Closed,       \* no handle is open
          Unwritten,    \* the first block of a file just created
          Unhurt        \* the stored version is not at risk

VARIABLES stored,       \* the version that an opener would get
          view,         \* the version that the open handle holds
          kept          \* the stored version that a failure has put at risk

Empty == [head |-> Unwritten, blocks |-> <<>>]

AtomicInit == view = Closed /\ kept = Unhurt

\* sgx_fopen of an existing file: the handle starts with what is stored.
Open ==
    /\ view = Closed
    /\ \/ stored # Nothing /\ view' = stored /\ kept' = Unhurt
       \/ stored = Nothing /\ view' = Empty /\ UNCHANGED kept
    /\ UNCHANGED stored

\* sgx_fopen with mode "w", which removes the file first.
Truncate ==
    /\ view = Closed
    /\ view' = Empty
    /\ stored' = Nothing
    /\ kept' = Unhurt

\* sgx_fwrite of one block: only the handle sees it, and only that block changes.
Write ==
    /\ view # Closed /\ view' # Closed
    /\ \/ view'.blocks = view.blocks
       \/ /\ view'.head = view.head
          /\ \E i \in 1..Len(view.blocks) :
                view'.blocks = [view.blocks EXCEPT ![i] = view'.blocks[i]]
       \/ /\ view'.head = view.head
          /\ Len(view'.blocks) = Len(view.blocks) + 1
          /\ SubSeq(view'.blocks, 1, Len(view.blocks)) = view.blocks
    /\ UNCHANGED <<stored, kept>>

\* The handle's version becomes the stored one, in one step.
Store ==
    /\ view # Closed
    /\ stored' = view
    /\ kept' = Unhurt
    /\ UNCHANGED view

\* sgx_fclose, or a crash.
Leave ==
    /\ view # Closed
    /\ view' = Closed
    /\ UNCHANGED <<stored, kept>>

\* A flush fails in one of the two ways that can cost the stored version.
Endanger ==
    /\ view # Closed
    /\ kept' = stored
    /\ UNCHANGED <<stored, view>>

\* A version at risk cannot be opened for a while or for ever, or is safe again.
Vanish ==
    /\ kept # Unhurt
    /\ \/ stored' \in {Nothing, kept} /\ UNCHANGED kept
       \/ stored' = kept /\ kept' = Unhurt
    /\ UNCHANGED view

AtomicNext == Open \/ Truncate \/ Write \/ Store \/ Leave \/ Endanger \/ Vanish

AtomicSpec == AtomicInit /\ [][AtomicNext]_<<stored, view, kept>>
=============================================================================
