---------------------------- MODULE ProtectedFile ----------------------------
(***************************************************************************)
(* One protected file (src/sdk/protected_fs): the tree of encrypted nodes, *)
(* the cache of nodes, the flush through the recovery file, the repair of  *)
(* a failed flush, and recovery when the file is opened.                   *)
(*                                                                         *)
(* Every write of a node that leaves the enclave is one step, so a crash   *)
(* may come between any two of them.  The calls of one handle exclude each *)
(* other by its mutex.                                                     *)
(*                                                                         *)
(* A key stands for a key and the MAC made with it: a node on disk can be  *)
(* decrypted exactly when its key is the one that its parent holds.  All   *)
(* nodes encrypted by one flush share the number of that flush.  A user    *)
(* block is one value, and every write has a value of its own, its number; *)
(* "size" counts the blocks after the first, which lives in the meta-data  *)
(* node, so size > 0 is size > MD_USER_DATA_SIZE.                          *)
(***************************************************************************)
EXTENDS FileLayout, Sequences, FiniteSets, SequencesExt

CONSTANTS None,
          Unhurt,           \* no failure has put the stored version at risk
          MAX_PAGES,        \* MAX_PAGES_IN_CACHE
          Faults,           \* the failures that may happen (see Fault)
          InitialSizes,     \* the sizes that the file may have at first
          MaxBlocks, MaxWrites,
          MaxFaults         \* bounds: blocks, writes, failures and crashes together

VARIABLES
    disk,                   \* the file: what each node holds
    recov,                  \* the recovery file: the sequence of its nodes
    file_status, last_error, need_writing,
    file_meta_data,         \* the meta-data node: flag, key id and cipher
    encrypted_part_plain,   \* its decrypted part
    node,                   \* the nodes in memory: root_mht and the map of the cache
    cache,                  \* the list of the cache, latest use first
    pc, op,                 \* the call in progress and where it is
    repair,                 \* the part of clear_error that it is in
    content,                \* history: what the calls have read and written
    kept,                   \* history: the version that a failure has put at risk
    halves,                 \* history: nodes in the cache whose append failed
    strays,                 \* history: nodes in the cache above one that was not reached
    keys, writes, faults

memory == <<file_status, last_error, need_writing, file_meta_data,
            encrypted_part_plain, node, cache>>
files == <<disk, recov>>
counts == <<keys, writes, faults>>
call == <<pc, op, repair>>
left == <<halves, strays>>
vars == <<files, memory, call, content, kept, left, counts>>

-----------------------------------------------------------------------------
(* The tree, over the layout of FileLayout.                                *)

Root == MhtNode(0)
DataNodes == {DataNode(i) : i \in 0..MaxBlocks - 1}
MhtNodes == {MhtNode(j) : j \in 0..MhtNumber(MaxBlocks - 1)}
Nodes == DataNodes \cup MhtNodes

\* The number of the mht node that n is, or is attached to.
MhtAt(n) == (n - 1) \div (1 + ATTACHED)
Parent(n) == IF n \in MhtNodes THEN MhtNode(ParentMht(MhtAt(n))) ELSE MhtNode(MhtAt(n))
ChildrenOf(n) == {c \in Nodes \ {Root} : Parent(c) = n}

\* The nodes from the child of the root down to n.
Path[n \in Nodes] == IF n = Root THEN <<>> ELSE Append(Path[Parent(n)], n)

-----------------------------------------------------------------------------
NewMeta == [update_flag |-> 0, key_id |-> 0, cipher |-> None]
NewPart == [size |-> 0, mht_key |-> 0, data |-> None]

NewNode(n) ==
    [cipher |-> None, need_writing |-> FALSE, new_node |-> TRUE,
     plain |-> IF n \in MhtNodes THEN [c \in ChildrenOf(n) |-> 0] ELSE None]

FromDisk(d, n) ==
    [cipher |-> d[n], need_writing |-> FALSE, new_node |-> FALSE, plain |-> d[n].plain]

NoNodes == [n \in Nodes |-> IF n = Root THEN NewNode(Root) ELSE None]
EmptyDisk == [n \in Nodes \cup {0} |-> None]

InitFields ==
    /\ file_status' = "OK" /\ last_error' = FALSE
    /\ cache' = <<>>

\* A file of the given size as a first flush leaves it.
FlushedFile(size) ==
    LET has == {Root} \cup UNION {ToSet(Path[DataNode(i)]) : i \in 0..size - 1}
        plain(n) == IF n \in DataNodes THEN 0
                    ELSE [c \in ChildrenOf(n) |-> IF c \in has THEN 1 ELSE 0]
        part == [size |-> size, mht_key |-> IF size > 0 THEN 1 ELSE 0, data |-> 0]
    IN [n \in DOMAIN EmptyDisk |->
            IF n = 0 THEN [update_flag |-> 0, key_id |-> 1, cipher |-> [key |-> 1, plain |-> part]]
            ELSE IF size > 0 /\ n \in has THEN [key |-> 1, plain |-> plain(n)] ELSE None]

Init ==
    /\ disk \in {EmptyDisk} \cup {FlushedFile(size) : size \in InitialSizes}
    /\ recov = None
    /\ file_status = "CLOSED" /\ last_error = FALSE /\ need_writing = FALSE
    /\ file_meta_data = NewMeta /\ encrypted_part_plain = NewPart
    /\ node = NoNodes /\ cache = <<>>
    /\ pc = "closed" /\ op = [kind |-> "none"] /\ repair = "no" /\ content = None
    /\ kept = Unhurt /\ halves = {} /\ strays = {}
    /\ keys = 1 /\ writes = 0 /\ faults = 0

\* The handle is deleted, or its enclave is gone: nothing of it remains.
Forget ==
    /\ file_status' = "CLOSED" /\ last_error' = FALSE /\ need_writing' = FALSE
    /\ file_meta_data' = NewMeta /\ encrypted_part_plain' = NewPart
    /\ node' = NoNodes /\ cache' = <<>>
    /\ pc' = "closed" /\ op' = [kind |-> "none"] /\ repair' = "no" /\ content' = None
    /\ halves' = {} /\ strays' = {}

\* Failures of the given kind: "write" of a node or of the recovery file or
\* "fflush", "crypto" before and "encrypt" after the new key id is in the
\* meta-data, "path" of a read or an allocation on the way to a node.
FaultTimes(kind, times) ==
    /\ kind \in Faults /\ faults + times <= MaxFaults
    /\ faults' = faults + times
    /\ UNCHANGED <<keys, writes>>

Fault(kind) == FaultTimes(kind, 1)

-----------------------------------------------------------------------------
(* Opening.                                                                *)

\* do_file_recovery after k nodes of the recovery file.
Replayed(k) ==
    [n \in DOMAIN disk |->
        LET hits == {i \in 1..k : recov[i].n = n}
        IN IF hits = {} THEN disk[n] ELSE recov[CHOOSE i \in hits : \A j \in hits : j <= i].cipher]

UpdateFlagSet(d) == d[0] # None /\ d[0].update_flag = 1

\* What init_existing_file can decrypt: the meta-data, and the root if there is one.
MetaReadable(d) ==
    /\ d[0] # None /\ d[0].update_flag = 0
    /\ d[0].cipher # None /\ d[0].key_id = d[0].cipher.key

RootReadable(d) ==
    LET part == d[0].cipher.plain
    IN part.size > 0 => d[Root] # None /\ d[Root].key = part.mht_key

\* The file as init_existing_file finds it once file_recovery is through.
AfterRecovery ==
    IF UpdateFlagSet(disk) /\ recov # None THEN Replayed(Len(recov)) ELSE disk

\* The nodes of a file as its readers would decrypt them, from the root down;
\* None where that fails.
Decrypted(d, part, held) ==
    LET f[n \in Nodes] ==
          IF held[n] # None THEN held[n].plain
          ELSE IF d[n] = None THEN None
          ELSE IF n = Root THEN (IF d[n].key = part.mht_key THEN d[n].plain ELSE None)
          ELSE LET above == f[Parent(n)]
               IN IF above = None THEN None
                  ELSE IF above[n] = d[n].key THEN d[n].plain ELSE None
    IN f

Version(d, part, held) ==
    LET f == Decrypted(d, part, held)
    IN [head |-> part.data, blocks |-> [i \in 1..part.size |-> f[DataNode(i - 1)]]]

\* The version that would be found by opening the file now.
Stored ==
    LET d == AfterRecovery
    IN IF MetaReadable(d) /\ RootReadable(d)
       THEN Version(d, d[0].cipher.plain, [n \in Nodes |-> None]) ELSE None

NewHandle ==
    /\ InitFields
    /\ need_writing' = TRUE
    /\ file_meta_data' = NewMeta /\ encrypted_part_plain' = NewPart
    /\ node' = NoNodes
    /\ pc' = "idle"
    /\ content' = [head |-> None, blocks |-> <<>>]
    /\ UNCHANGED <<op, repair, left>>

ExistingHandle(d) ==
    /\ InitFields
    /\ need_writing' = FALSE
    /\ file_meta_data' = d[0] /\ encrypted_part_plain' = d[0].cipher.plain
    /\ node' = IF d[0].cipher.plain.size > 0
               THEN [NoNodes EXCEPT ![Root] = FromDisk(d, Root)] ELSE NoNodes
    /\ pc' = "idle"
    /\ content' = Stored
    /\ UNCHANGED <<op, repair, left>>

\* sgx_fopen of a file that exists, or with a mode that creates it.
Open ==
    /\ pc = "closed"
    /\ disk' = AfterRecovery
    /\ recov' = IF UpdateFlagSet(disk) THEN None ELSE recov
    /\ IF disk[0] = None THEN NewHandle
       ELSE IF MetaReadable(AfterRecovery) /\ RootReadable(AfterRecovery)
       THEN ExistingHandle(AfterRecovery)
       ELSE UNCHANGED <<memory, call, content, left>>
    /\ kept' = IF Stored = None THEN kept ELSE Unhurt
    /\ UNCHANGED counts

\* sgx_fopen with mode "w": the file is removed first, its recovery file is not.
OpenTruncate ==
    /\ pc = "closed" /\ writes < MaxWrites
    /\ disk' = EmptyDisk
    /\ NewHandle
    /\ writes' = writes + 1
    /\ kept' = Unhurt
    /\ UNCHANGED <<recov, keys, faults>>

\* The process dies; what was written is in the file.
Crash ==
    /\ pc # "closed" /\ faults < MaxFaults
    /\ faults' = faults + 1
    /\ Forget
    /\ UNCHANGED <<files, kept, keys, writes>>

\* The cache is no longer a tree.  A debug build stops the enclave if it is the
\* assertion of lru_cache::add that fails; what a release build goes on to do
\* with such a cache is not followed.
Abort ==
    /\ pc = "lost"
    /\ Forget
    /\ UNCHANGED <<files, kept, counts>>

\* It dies in do_file_recovery, after any number of nodes.
CrashInRecovery ==
    /\ pc = "closed" /\ faults < MaxFaults
    /\ UpdateFlagSet(disk) /\ recov # None
    /\ \E k \in 0..Len(recov) : disk' = Replayed(k)
    /\ faults' = faults + 1
    /\ UNCHANGED <<recov, memory, call, content, kept, left, keys, writes>>

-----------------------------------------------------------------------------
(* The cache and the way to a data node.                                   *)

Cached(n) == node[n] # None

\* lru_cache::get and lru_cache::add on the list.
Bump(c, n) == <<n>> \o RemoveFirst(c, n)
AddAll(c, s) == Reverse(s) \o c

\* get_data_node and get_mht_node make the nodes of the first block past the
\* end of the file; all others exist.
Appended(i) ==
    IF i # encrypted_part_plain.size THEN {}
    ELSE {DataNode(i)} \cup
         (IF i % ATTACHED = 0 THEN {MhtNode(MhtNumber(i))} \ {Root} ELSE {})

\* The nodes that are added to the cache on the way, in this order.
ToAdd(i) ==
    SelectSeq(Path[DataNode(i)], LAMBDA n : n \in Appended(i) \/ ~Cached(n))

PlainInMemory(n) == IF Cached(n) THEN node[n].plain ELSE disk[n].plain

\* The MAC of n on disk is the one that its parent holds.
Decrypts(n) == disk[n] # None /\ disk[n].key = PlainInMemory(Parent(n))[n]

Added(i, s) ==
    [n \in Nodes |->
        IF n \notin ToSet(s) THEN node[n]
        ELSE IF n \in Appended(i) THEN NewNode(n) ELSE FromDisk(disk, n)]

\* Mutant: the parents stay where they are in the list.
BumpParents_None(c, i) == c

\* The list once the data node is found: its parents before it.
BumpParents(c, i) == FoldLeft(Bump, c, Reverse(Front(Path[DataNode(i)])))

\* get_data_node up to the loop that shrinks the cache.  k is the node of the
\* way that cannot be read or allocated, if there is one: what was read before
\* it stays in the cache.  A node that an append adds although it is there
\* fails the assertion of lru_cache::add.
GetDataNode(kind, i, v) ==
    LET s == ToAdd(i)
        bad == {k \in 1..Len(s) : s[k] \notin Appended(i) /\ ~Decrypts(s[k])}
        all == Len(s) + 1
        failing == IF "path" \in Faults /\ faults < MaxFaults THEN 1..Len(s) ELSE {}
    IN \E k \in IF bad # {} THEN {Min(bad)} ELSE {all} \cup failing :
        LET got == SubSeq(s, 1, k - 1)
            c == IF s = <<>> THEN Bump(cache, DataNode(i)) ELSE AddAll(cache, got)
        IN /\ node' = Added(i, got)
           /\ cache' = IF k = all THEN BumpParents(c, i) ELSE c
           /\ file_status' = IF bad # {} THEN "CORRUPTED" ELSE file_status
           /\ last_error' = (k # all \/ last_error)
           /\ faults' = IF bad = {} /\ k # all THEN faults + 1 ELSE faults
           /\ op' = [kind |-> kind, i |-> i, v |-> v, found |-> (k = all)]
           /\ pc' = IF \E n \in ToSet(got) : Cached(n) THEN "lost" ELSE "shrink"
           /\ halves' = IF k = all THEN halves ELSE halves \cup (ToSet(got) \cap Appended(i))
           /\ strays' = IF k = all THEN strays \ ToSet(Path[DataNode(i)])
                        ELSE strays \cup ToSet(got)
           /\ UNCHANGED <<files, need_writing, file_meta_data, encrypted_part_plain,
                          repair, content, kept, keys>>

\* A node is gone; the pointers that its children have to it are not.
Dropped(n) ==
    /\ pc' = IF \E c \in ChildrenOf(n) : Cached(c) THEN "lost" ELSE pc
    /\ halves' = halves \ {n} /\ strays' = strays \ {n}

\* Mutant: the last node is dropped without a look at need_writing.
Evict_Unchecked ==
    /\ pc = "shrink" /\ Len(cache) > MAX_PAGES
    /\ cache' = Front(cache)
    /\ node' = [node EXCEPT ![Last(cache)] = None]
    /\ Dropped(Last(cache))
    /\ UNCHANGED <<files, file_status, last_error, need_writing, file_meta_data,
                   encrypted_part_plain, op, repair, content, kept, counts>>

\* The loop that shrinks the cache, on an unchanged last node.
Evict ==
    /\ pc = "shrink" /\ Len(cache) > MAX_PAGES
    /\ ~node[Last(cache)].need_writing
    /\ cache' = Front(cache)
    /\ node' = [node EXCEPT ![Last(cache)] = None]
    /\ Dropped(Last(cache))
    /\ UNCHANGED <<files, file_status, last_error, need_writing, file_meta_data,
                   encrypted_part_plain, op, repair, content, kept, counts>>

\* Where internal_flush starts: nothing to do, the whole update, or one write.
FlushStart ==
    IF ~need_writing THEN "done"
    ELSE IF encrypted_part_plain.size > 0 /\ node[Root].need_writing THEN "recovery"
    ELSE "meta"

\* The same loop on a changed node: internal_flush(false).
EvictFlush ==
    /\ pc = "shrink" /\ Len(cache) > MAX_PAGES
    /\ node[Last(cache)].need_writing
    /\ pc' = FlushStart
    /\ UNCHANGED <<files, memory, op, repair, content, kept, left, counts>>

\* write: the block is changed, and if it was not before, every node above it.
Modify(i, v) ==
    LET n == DataNode(i)
        dirty == ToSet(Path[n]) \cup {Root}
    IN /\ node' = [m \in Nodes |->
                    IF m = n THEN [node[m] EXCEPT !.plain = v, !.need_writing = TRUE]
                    ELSE IF m \in dirty /\ ~node[n].need_writing
                         THEN [node[m] EXCEPT !.need_writing = TRUE] ELSE node[m]]
       /\ encrypted_part_plain' =
            IF i = encrypted_part_plain.size
            THEN [encrypted_part_plain EXCEPT !.size = i + 1] ELSE encrypted_part_plain
       /\ need_writing' = (need_writing \/ ~node[n].need_writing)
       /\ content' = [content EXCEPT !.blocks =
                        IF i = Len(@) THEN Append(@, v) ELSE [@ EXCEPT ![i + 1] = v]]

\* The data node is there, and read or write uses it; or it is not.
UseNode ==
    /\ pc = "shrink" /\ Len(cache) <= MAX_PAGES
    /\ IF op.kind = "write" /\ op.found THEN Modify(op.i, op.v) /\ writes' = op.v
       ELSE UNCHANGED <<node, encrypted_part_plain, need_writing, content, writes>>
    /\ pc' = "idle" /\ op' = [kind |-> "none"]
    /\ UNCHANGED <<files, file_status, last_error, file_meta_data, cache, repair, kept, left,
                   keys, faults>>

-----------------------------------------------------------------------------
(* The calls of an open handle.  Each one but sgx_clearerr and sgx_fclose  *)
(* is refused unless the status is OK.                                     *)

Ready == pc = "idle" /\ file_status = "OK"

\* sgx_fwrite of the first block, which lives in the meta-data node.
WriteHead ==
    /\ Ready /\ writes < MaxWrites
    /\ encrypted_part_plain' = [encrypted_part_plain EXCEPT !.data = writes + 1]
    /\ content' = [content EXCEPT !.head = writes + 1]
    /\ need_writing' = TRUE
    /\ writes' = writes + 1
    /\ UNCHANGED <<files, file_status, last_error, file_meta_data, node, cache,
                   call, kept, left, keys, faults>>

\* sgx_fseek and sgx_fwrite of another block; there are no sparse files.
WriteBlock ==
    /\ Ready /\ writes < MaxWrites
    /\ encrypted_part_plain.data # None
    /\ \E i \in 0..encrypted_part_plain.size :
        /\ i < MaxBlocks
        /\ GetDataNode("write", i, writes + 1)
    /\ UNCHANGED writes

\* sgx_fread of a block that is not in the meta-data node.
ReadBlock ==
    /\ Ready
    /\ \E i \in 0..encrypted_part_plain.size - 1 : GetDataNode("read", i, None)
    /\ UNCHANGED writes

\* sgx_fflush.
Flush ==
    /\ Ready
    /\ pc' = FlushStart
    /\ op' = [kind |-> "flush"]
    /\ UNCHANGED <<files, memory, repair, content, kept, left, counts>>

\* Mutant: every failed flush is repaired by repeating the writes.
RepairStart_WritesOnly == <<"write", "write">>

\* What clear_error does first: a whole flush, the writes alone, or nothing.
RepairStart ==
    CASE file_status = "FLUSH_ERROR" -> <<"flush", FlushStart>>
      [] file_status = "WRITE_TO_DISK_FAILED" -> <<"write", "write">>

\* Mutant: a failed write is not repaired.
Repairable_FlushOnly == file_status = "FLUSH_ERROR"

Repairable == file_status \in {"FLUSH_ERROR", "WRITE_TO_DISK_FAILED"}

StartRepair ==
    /\ repair' = RepairStart[1]
    /\ pc' = RepairStart[2]

\* sgx_clearerr.
ClearError ==
    /\ pc = "idle"
    /\ op' = [kind |-> "clear"]
    /\ Repairable /\ StartRepair
    /\ UNCHANGED <<files, memory, content, kept, left, counts>>

\* sgx_clearerr when the status is good.
ForgetError ==
    /\ Ready
    /\ last_error' = FALSE
    /\ UNCHANGED <<files, file_status, need_writing, file_meta_data, encrypted_part_plain,
                   node, cache, call, content, kept, left, counts>>

\* sgx_fclear_cache: a flush, or a repair, before the cache is emptied.
ClearCache ==
    /\ pc = "idle"
    /\ op' = [kind |-> "drop"]
    /\ \/ file_status = "OK" /\ pc' = FlushStart /\ UNCHANGED repair
       \/ Repairable /\ StartRepair
    /\ UNCHANGED <<files, memory, content, kept, left, counts>>

\* sgx_fclose, the same way; what cannot be repaired is closed as it is.
Close ==
    /\ pc = "idle"
    /\ op' = [kind |-> "close"]
    /\ \/ file_status = "OK" /\ pc' = FlushStart /\ UNCHANGED repair
       \/ Repairable /\ StartRepair
       \/ file_status # "OK" /\ ~Repairable /\ pc' = "close" /\ UNCHANGED repair
    /\ UNCHANGED <<files, memory, content, kept, left, counts>>

-----------------------------------------------------------------------------
(* internal_flush.                                                         *)

\* The flush that makes room for a new block leaves the block's nodes there if
\* it fails.
LeftBehind == IF op.kind = "write" /\ op.found THEN Appended(op.i) ELSE {}

\* It fails with a status.  clear_error goes on to repeat the writes if it is
\* they that failed in its own flush; close goes on to close the file.
FlushFails(status) ==
    /\ file_status' = status
    /\ last_error' = TRUE
    /\ halves' = halves \cup {n \in LeftBehind : Cached(n)}
    /\ UNCHANGED strays
    /\ IF repair = "flush" /\ status = "WRITE_TO_DISK_FAILED"
       THEN repair' = "write" /\ pc' = "write" /\ UNCHANGED op
       ELSE /\ repair' = "no"
            /\ pc' = IF op.kind = "close" THEN "close" ELSE "idle"
            /\ op' = IF op.kind = "close" THEN op ELSE [kind |-> "none"]

Unmoved ==
    UNCHANGED <<need_writing, file_meta_data, encrypted_part_plain, node, cache, content>>

\* It succeeds: the call that it was for goes on.
FlushDone ==
    /\ pc = "done"
    /\ need_writing' = FALSE
    /\ file_status' = IF repair = "no" THEN file_status ELSE "OK"
    /\ last_error' = (last_error /\ repair = "no")
    /\ repair' = "no"
    /\ pc' = CASE op.kind \in {"read", "write"} -> "shrink"
               [] op.kind = "close" -> "close"
               [] OTHER -> "idle"
    /\ op' = IF op.kind \in {"read", "write", "close"} THEN op ELSE [kind |-> "none"]
    /\ cache' = IF op.kind = "drop" THEN <<>> ELSE cache
    /\ node' = IF op.kind = "drop" THEN [NoNodes EXCEPT ![Root] = node[Root]] ELSE node
    /\ IF op.kind = "drop" THEN halves' = {} /\ strays' = {} ELSE UNCHANGED left
    /\ UNCHANGED <<files, file_meta_data, encrypted_part_plain, content, kept, counts>>

\* write_recovery_file: the changed nodes that the file already has, then the
\* root if it has one, then the meta-data, each as the last flush left it.
Changed(n) == node[n].need_writing

RecoveryNodes ==
    SelectSeq(cache, LAMBDA n : Changed(n) /\ ~node[n].new_node)
        \o (IF Changed(Root) /\ ~node[Root].new_node THEN <<Root>> ELSE <<>>)
        \o <<0>>

CipherOf(n) == IF n = 0 THEN file_meta_data ELSE node[n].cipher

OpenRecovery ==
    /\ pc = "recovery"
    /\ \/ /\ recov' = <<>>
          /\ pc' = "copy"
          /\ UNCHANGED <<file_status, last_error, op, repair, left, counts>>
       \/ /\ Fault("write") /\ FlushFails("FLUSH_ERROR")
          /\ UNCHANGED recov
    /\ Unmoved /\ UNCHANGED <<disk, kept>>

\* A node that cannot be written takes the recovery file with it.
CopyNode ==
    /\ pc = "copy"
    /\ LET n == RecoveryNodes[Len(recov) + 1]
       IN \/ /\ recov' = Append(recov, [n |-> n, cipher |-> CipherOf(n)])
             /\ pc' = IF Len(recov) + 1 = Len(RecoveryNodes) THEN "flag" ELSE "copy"
             /\ UNCHANGED <<file_status, last_error, op, repair, left, counts>>
          \/ /\ Fault("write") /\ FlushFails("FLUSH_ERROR")
             /\ recov' = None
    /\ Unmoved /\ UNCHANGED <<disk, kept>>

\* The calls that flush to the disk; an eviction does not.
FlushToDisk == op.kind \notin {"read", "write"}

\* set_update_flag: the flag is set on disk and not in memory.  When fflush
\* fails the node is written again without the flag, and nobody looks whether
\* that succeeds: if not, the flag stays behind, and the stored version with it
\* depends on a recovery file that the next flush begins by emptying.
SetUpdateFlag ==
    /\ pc = "flag"
    /\ LET flagged == [disk EXCEPT ![0] = [file_meta_data EXCEPT !.update_flag = 1]]
       IN \/ /\ disk' = flagged
             /\ pc' = "nodes"
             /\ kept' = Unhurt
             /\ UNCHANGED <<file_status, last_error, op, repair, left, counts>>
          \/ /\ Fault("write") /\ FlushFails("FLUSH_ERROR")
             /\ UNCHANGED <<disk, kept>>
          \/ /\ FlushToDisk /\ Fault("fflush") /\ FlushFails("FLUSH_ERROR")
             /\ disk' = [disk EXCEPT ![0] = file_meta_data]
             /\ kept' = Unhurt
          \/ /\ FlushToDisk /\ FaultTimes("fflush", 2) /\ FlushFails("FLUSH_ERROR")
             /\ disk' = flagged
             /\ kept' = Stored
    /\ Unmoved /\ UNCHANGED recov

\* update_all_data_and_mht_nodes: every changed node gets a new key, which its
\* parent holds, children before parents, and the root's is in the meta-data.
\* What a failure has changed in memory is never used again.
NewKey == keys + 1
Encrypted(n) == n = Root \/ Changed(n)

NewPlain(n) ==
    IF n \in DataNodes THEN node[n].plain
    ELSE [c \in ChildrenOf(n) |->
            IF Cached(c) /\ Encrypted(c) THEN NewKey ELSE node[n].plain[c]]

UpdateNodes ==
    /\ pc = "nodes"
    /\ \/ /\ node' = [n \in Nodes |->
                        IF Cached(n) /\ Encrypted(n)
                        THEN [node[n] EXCEPT !.plain = NewPlain(n),
                                             !.cipher = [key |-> NewKey, plain |-> NewPlain(n)]]
                        ELSE node[n]]
          /\ encrypted_part_plain' = [encrypted_part_plain EXCEPT !.mht_key = NewKey]
          /\ pc' = "meta"
          /\ UNCHANGED counts
       \/ /\ Fault("crypto")
          /\ pc' = "clear"
          /\ UNCHANGED <<node, encrypted_part_plain>>
    /\ UNCHANGED <<files, file_status, last_error, need_writing, file_meta_data, cache,
                   op, repair, content, kept, left>>

\* update_meta_data_node: a new key id, then the cipher.  An error between the
\* two leaves the new id with the old cipher.
UpdateMeta ==
    /\ pc = "meta"
    /\ \/ /\ file_meta_data' = [update_flag |-> 0, key_id |-> NewKey,
                                cipher |-> [key |-> NewKey, plain |-> encrypted_part_plain]]
          /\ pc' = "write"
          /\ keys' = NewKey
          /\ UNCHANGED <<kept, writes, faults>>
       \/ /\ Fault("crypto")
          /\ pc' = "clear"
          /\ UNCHANGED <<file_meta_data, kept>>
       \/ /\ Fault("encrypt")
          /\ file_meta_data' = [file_meta_data EXCEPT !.key_id = NewKey]
          /\ kept' = Stored
          /\ pc' = "clear"
    /\ UNCHANGED <<files, file_status, last_error, need_writing, encrypted_part_plain, node,
                   cache, op, repair, content, left>>

\* clear_update_flag, whose result nobody looks at.
ClearUpdateFlag ==
    /\ pc = "clear"
    /\ FlushFails("CRYPTO_ERROR")
    /\ \/ disk' = [disk EXCEPT ![0] = file_meta_data] /\ UNCHANGED counts
       \/ Fault("write") /\ UNCHANGED disk
    /\ Unmoved /\ UNCHANGED <<recov, kept>>

\* write_all_changes_to_disk: the changed nodes as the cache has them, the
\* root, and the meta-data last, which ends the update.
NextToWrite ==
    LET dirty == SelectSeq(cache, Changed)
    IN IF encrypted_part_plain.size > 0 /\ Changed(Root)
       THEN IF dirty # <<>> THEN Head(dirty) ELSE Root
       ELSE 0

\* Mutant: a node that was written still counts as new.
Written_StillNew(n) == IF n = 0 THEN node ELSE [node EXCEPT ![n].need_writing = FALSE]

Written(n) ==
    IF n = 0 THEN node
    ELSE [node EXCEPT ![n].need_writing = FALSE, ![n].new_node = FALSE]

WriteNode ==
    /\ pc = "write"
    /\ LET n == NextToWrite
           write == /\ disk' = [disk EXCEPT ![n] = CipherOf(n)]
                    /\ node' = Written(n)
                    /\ kept' = IF n = 0 THEN Unhurt ELSE kept
       IN \/ /\ write
             /\ pc' = IF n = 0 THEN "done" ELSE "write"
             /\ UNCHANGED <<file_status, last_error, op, repair, left, counts>>
          \/ /\ Fault("write") /\ FlushFails("WRITE_TO_DISK_FAILED")
             /\ UNCHANGED <<disk, node, kept>>
          \/ /\ n = 0 /\ FlushToDisk /\ write
             /\ Fault("fflush") /\ FlushFails("WRITE_TO_DISK_FAILED")
    /\ UNCHANGED <<recov, need_writing, file_meta_data, encrypted_part_plain, cache,
                   content>>

\* The end of pre_close; the recovery file stays if anything went wrong.
FinishClose ==
    /\ pc = "close"
    /\ recov' = IF file_status = "OK" /\ ~last_error THEN None ELSE recov
    /\ Forget
    /\ UNCHANGED <<disk, kept, counts>>

-----------------------------------------------------------------------------
Step == \/ Evict \/ EvictFlush \/ UseNode
        \/ OpenRecovery \/ CopyNode \/ SetUpdateFlag \/ UpdateNodes \/ UpdateMeta
        \/ ClearUpdateFlag \/ WriteNode \/ FlushDone \/ FinishClose

Call == \/ Open \/ OpenTruncate
        \/ WriteHead \/ WriteBlock \/ ReadBlock \/ Flush
        \/ ClearError \/ ForgetError \/ ClearCache \/ Close

Next == Step \/ Call \/ Crash \/ CrashInRecovery \/ Abort

\* A call goes on until it returns, and the application clears errors.
Spec == Init /\ [][Next]_vars /\ WF_vars(Step) /\ WF_vars(ClearError)

-----------------------------------------------------------------------------
(* Properties.                                                             *)

\* The version that the handle would read, from memory and disk.
View == Version(disk, encrypted_part_plain, node)

File == INSTANCE AtomicFile WITH
            stored <- Stored, view <- content,
            Nothing <- None, Closed <- None, Unwritten <- None

\* Through crashes between any two writes, failed writes and their repair,
\* evictions and recovery, the file implements AtomicFile: what is stored is
\* one whole version, and changes only to the one that the handle holds
\* (internal_flush, write_recovery_file, file_recovery).  Two failures put it
\* at risk: an fflush after which the update flag cannot be taken back
\* (set_update_flag), and an encryption of the meta-data that fails after its
\* key id was changed (update_meta_data_node).  From then until a flush
\* succeeds, what is stored is still that version or cannot be opened.
ImplementsAtomicFile == File!AtomicSpec

\* A block reads as it was last written, whether its node is in the cache or
\* has been flushed and evicted (get_data_node, update_all_data_and_mht_nodes).
ReadsBack == pc # "closed" => View = content

\* When no call is in progress and the handle has nothing to write, its
\* version is the stored one: a flush, a repair or an eviction has lost no
\* changed node (need_writing in file_flush.cpp and clear_error).
CleanIsStored == pc = "idle" /\ ~need_writing => Stored = content

\* A cached node has its parents in the cache, so that their pointers to it
\* and its pointer to them are good (the bumping in get_data_node), unless a
\* call stopped between reading a node on its way and bumping the parents; and
\* the file's own writes never make a node fail its MAC.
ParentsCached ==
    /\ \A n \in Nodes : Cached(n) =>
            \/ \A m \in ToSet(Path[n]) : Cached(m)
            \/ ToSet(Path[n]) \cap strays # {}
    /\ file_status # "CORRUPTED"

\* While the status is good, a changed node has changed parents up to the root
\* and the handle knows: otherwise update_all_data_and_mht_nodes would leave a
\* key of it out (write, internal_flush).
ChangedUpToRoot ==
    pc = "idle" /\ file_status \in {"OK", "FLUSH_ERROR"} =>
        \A n \in Nodes : Cached(n) /\ node[n].need_writing =>
            /\ \A m \in ToSet(Path[n]) \cup {Root} : node[m].need_writing
            /\ need_writing

\* lru_cache::add asserts that the key it adds is not in the cache.  The list
\* of the cache has no node twice, except one that an append made, failed and
\* was repeated for.
AddedOnce ==
    \A k, l \in DOMAIN cache : k # l /\ cache[k] = cache[l] => cache[k] \in halves

\* What makes the cached nodes a tree that a flush can write out: a node is
\* there once and with its parents, and its changes are known up to the root
\* (lru_cache::add, get_data_node, write).  The first two can fail, after a
\* call that failed half-way and for the nodes that it left behind only.
CacheIsTree == AddedOnce /\ ParentsCached /\ ChangedUpToRoot

\* A failed flush is repaired by clearing the error, once writes succeed again
\* (clear_error).
RetryRepairs ==
    file_status \in {"FLUSH_ERROR", "WRITE_TO_DISK_FAILED"} ~>
        file_status \in {"OK", "CRYPTO_ERROR", "CLOSED"}
=============================================================================
