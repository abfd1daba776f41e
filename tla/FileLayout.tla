----------------------------- MODULE FileLayout -----------------------------
(***************************************************************************)
(* Where the nodes of a protected file stand on disk                       *)
(* (file_read_write.cpp, get_node_numbers).  Node 0 is the meta-data, node *)
(* 1 the root of the tree, and every inner node ("mht" in the code) stands *)
(* just before the ATTACHED data nodes that it authenticates.              *)
(***************************************************************************)
EXTENDS Integers

CONSTANTS ATTACHED,     \* ATTACHED_DATA_NODES_COUNT, 96 in the code
          CHILDREN      \* CHILD_MHT_NODES_COUNT, 32 in the code

ASSUME LayoutAssumption ==
    /\ ATTACHED \in Nat \ {0}
    /\ CHILDREN \in Nat \ {0}

\* The inner node that data node number i is attached to.
MhtNumber(i) == i \div ATTACHED

\* The place of data node number i, and the place of its inner node as
\* get_node_numbers derives it from that.
DataNode(i) == i + 1 + 1 + MhtNumber(i)
MhtNodeOf(i) == DataNode(i) - (i % ATTACHED) - 1

\* The place of inner node number j as append_mht_node and read_mht_node have it.
MhtNode(j) == 1 + j * (1 + ATTACHED)

\* The inner node that inner node j hangs from, and the slot of its key there.
ParentMht(j) == (j - 1) \div CHILDREN
MhtSlot(j) == (j - 1) % CHILDREN
DataSlot(i) == i % ATTACHED
=============================================================================
