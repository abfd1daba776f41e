--------------------------- MODULE FileLayoutProofs ---------------------------
(* The places of FileLayout are sound for every fan-out of the tree. *)
EXTENDS FileLayout, TLAPS

\* Division with remainder, the only arithmetic the layout rests on.
LEMMA DivMod ==
    ASSUME NEW a \in Nat, NEW b \in Nat \ {0}
    PROVE  /\ a \div b \in Nat /\ a % b \in 0..b - 1
           /\ a = b * (a \div b) + (a % b)
  BY SMT

\* A quotient and a remainder determine each other.
LEMMA DivUnique ==
    ASSUME NEW b \in Nat \ {0}, NEW q \in Nat, NEW r \in 0..b - 1,
           NEW p \in Nat, NEW s \in 0..b - 1, b * q + r = b * p + s
    PROVE  q = p /\ r = s
  <1>1. b * (q - p) = s - r
    BY SMT
  <1>2. ~(q > p)
    <2>1. SUFFICES ASSUME q - p >= 1 PROVE FALSE
      BY SMT
    <2>2. b * (q - p) >= b
      BY <2>1, SMT
    <2>. QED  BY <1>1, <2>2, SMT
  <1>3. ~(p > q)
    <2>1. SUFFICES ASSUME p - q >= 1 PROVE FALSE
      BY SMT
    <2>2. b * (p - q) >= b
      BY <2>1, SMT
    <2>. QED  BY <1>1, <2>2, SMT
  <1>. QED  BY <1>1, <1>2, <1>3, SMT

\* A place is a block of 1 + ATTACHED nodes and a position in it: 0 for the
\* inner node, 1 and up for its data nodes.
LEMMA PlaceOfData ==
    ASSUME NEW i \in Nat
    PROVE  /\ MhtNumber(i) \in Nat /\ DataSlot(i) \in 0..ATTACHED - 1
           /\ i = ATTACHED * MhtNumber(i) + DataSlot(i)
           /\ DataNode(i) - 1 = (1 + ATTACHED) * MhtNumber(i) + (DataSlot(i) + 1)
           /\ DataSlot(i) + 1 \in 0..(1 + ATTACHED) - 1
  <1>1. /\ MhtNumber(i) \in Nat /\ DataSlot(i) \in 0..ATTACHED - 1
        /\ i = ATTACHED * MhtNumber(i) + DataSlot(i)
    BY DivMod, LayoutAssumption DEF MhtNumber, DataSlot
  <1>2. DataNode(i) = i + 2 + MhtNumber(i)
    BY <1>1 DEF DataNode
  <1>3. ASSUME NEW q \in Nat PROVE (1 + ATTACHED) * q = ATTACHED * q + q
    BY LayoutAssumption, SMT
  <1>. QED  BY <1>1, <1>2, <1>3, LayoutAssumption, SMT

LEMMA PlaceOfMht ==
    ASSUME NEW j \in Nat
    PROVE  MhtNode(j) - 1 = (1 + ATTACHED) * j + 0
  BY LayoutAssumption DEF MhtNode

\* get_node_numbers and append_mht_node compute the place of an inner node in
\* two ways; both give the same place, the one before its first data node.
THEOREM MhtPlacesAgree ==
    \A i \in Nat : MhtNodeOf(i) = MhtNode(MhtNumber(i))
  <1>1. SUFFICES ASSUME NEW i \in Nat PROVE MhtNodeOf(i) = MhtNode(MhtNumber(i))
    OBVIOUS
  <1>2. MhtNodeOf(i) = DataNode(i) - DataSlot(i) - 1
    BY DEF MhtNodeOf, DataSlot
  <1>3. MhtNode(MhtNumber(i)) - 1 = (1 + ATTACHED) * MhtNumber(i) + 0
    BY PlaceOfData, PlaceOfMht
  <1>4. MhtNumber(i) \in Nat /\ DataSlot(i) \in Int /\ ATTACHED \in Nat
    BY PlaceOfData, LayoutAssumption
  <1>5. DataNode(i) \in Int
    BY <1>4 DEF DataNode
  <1>6. MhtNumber(i) * (1 + ATTACHED) \in Int /\ (1 + ATTACHED) * MhtNumber(i) \in Int
    BY <1>4, SMT
  <1>7. MhtNode(MhtNumber(i)) \in Int
    BY <1>6 DEF MhtNode
  <1>8. DataNode(i) - 1 = (1 + ATTACHED) * MhtNumber(i) + (DataSlot(i) + 1)
    BY PlaceOfData
  <1> DEFINE m == (1 + ATTACHED) * MhtNumber(i)
  <1>9. /\ m \in Int
        /\ MhtNode(MhtNumber(i)) - 1 = m + 0
        /\ DataNode(i) - 1 = m + (DataSlot(i) + 1)
    BY <1>3, <1>6, <1>8
  <1> HIDE DEF m
  <1>. QED  BY <1>2, <1>4, <1>5, <1>7, <1>9

\* No two nodes of a file share a place, and none takes that of the meta-data:
\* a node can be overwritten or copied to the recovery file by its number.
THEOREM PlacesDistinct ==
    /\ \A i, k \in Nat : DataNode(i) = DataNode(k) => i = k
    /\ \A j, k \in Nat : MhtNode(j) = MhtNode(k) => j = k
    /\ \A i, j \in Nat : DataNode(i) # MhtNode(j)
    /\ \A i \in Nat : DataNode(i) > 0 /\ MhtNode(i) > 0
  <1>b. 1 + ATTACHED \in Nat \ {0} /\ 0 \in 0..(1 + ATTACHED) - 1
    BY LayoutAssumption
  <1>1. ASSUME NEW i \in Nat, NEW k \in Nat, DataNode(i) = DataNode(k) PROVE i = k
    <2>1. MhtNumber(i) = MhtNumber(k) /\ DataSlot(i) + 1 = DataSlot(k) + 1
      <3> DEFINE w == 1 + ATTACHED
                 at(x) == DataSlot(x) + 1
      <3>1. w * MhtNumber(i) + at(i) = w * MhtNumber(k) + at(k)
        BY <1>1, PlaceOfData
      <3>2. /\ w \in Nat \ {0} /\ MhtNumber(i) \in Nat /\ MhtNumber(k) \in Nat
            /\ at(i) \in 0..w - 1 /\ at(k) \in 0..w - 1
        BY <1>b, PlaceOfData
      <3>3. MhtNumber(i) = MhtNumber(k) /\ at(i) = at(k)
        <4> HIDE DEF w, at
        <4>. QED  BY <3>1, <3>2, DivUnique
      <3>. QED  BY <3>3
    <2>2. DataSlot(i) = DataSlot(k)
      BY <2>1, PlaceOfData, LayoutAssumption
    <2>. QED  BY <2>1, <2>2, PlaceOfData
  <1>2. ASSUME NEW j \in Nat, NEW k \in Nat, MhtNode(j) = MhtNode(k) PROVE j = k
    BY <1>2, <1>b, PlaceOfMht, DivUnique
  <1>3. ASSUME NEW i \in Nat, NEW j \in Nat, DataNode(i) = MhtNode(j) PROVE FALSE
    <2>1. DataSlot(i) + 1 = 0
      <3> DEFINE w == 1 + ATTACHED
                 at == DataSlot(i) + 1
      <3>1. w * MhtNumber(i) + at = w * j + 0
        BY <1>3, PlaceOfData, PlaceOfMht
      <3>2. /\ w \in Nat \ {0} /\ MhtNumber(i) \in Nat
            /\ at \in 0..w - 1 /\ 0 \in 0..w - 1
        BY <1>b, PlaceOfData
      <3>3. at = 0
        <4> HIDE DEF w, at
        <4>. QED  BY <3>1, <3>2, DivUnique
      <3>. QED  BY <3>3
    <2>. QED  BY <2>1, PlaceOfData, LayoutAssumption
  <1>4. ASSUME NEW i \in Nat PROVE DataNode(i) > 0 /\ MhtNode(i) > 0
    <2>1. MhtNumber(i) \in Nat
      BY PlaceOfData
    <2>2. i * (1 + ATTACHED) \in Nat
      BY LayoutAssumption
    <2>. QED  BY <2>1, <2>2 DEF DataNode, MhtNode
  <1>. QED  BY <1>1, <1>2, <1>3, <1>4

\* There is no hole: the places from 1 on are exactly those of the nodes, so
\* a file that is written up to its last node has a meaning at every place.
THEOREM PlacesDense ==
    \A n \in Nat \ {0} : \E i \in Nat : n = DataNode(i) \/ n = MhtNode(i)
  <1>1. SUFFICES ASSUME NEW n \in Nat \ {0}
                 PROVE  \E i \in Nat : n = DataNode(i) \/ n = MhtNode(i)
    OBVIOUS
  <1> DEFINE q == (n - 1) \div (1 + ATTACHED)
             r == (n - 1) % (1 + ATTACHED)
  <1>2. /\ q \in Nat /\ r \in 0..ATTACHED
        /\ n - 1 = (1 + ATTACHED) * q + r
    <2>1. n - 1 \in Nat /\ 1 + ATTACHED \in Nat \ {0}
      BY LayoutAssumption
    <2>2. /\ q \in Nat /\ r \in 0..(1 + ATTACHED) - 1
          /\ n - 1 = (1 + ATTACHED) * q + r
      BY <2>1, DivMod
    <2>3. (1 + ATTACHED) - 1 = ATTACHED
      BY LayoutAssumption
    <2>. QED  BY <2>2, <2>3
  <1> HIDE DEF q, r
  <1>3. CASE r = 0
    <2>1. n = MhtNode(q)
      BY <1>2, <1>3, LayoutAssumption DEF MhtNode
    <2>. QED  BY <1>2, <2>1
  <1>4. CASE r # 0
    <2> DEFINE i == ATTACHED * q + (r - 1)
    <2>1. i \in Nat /\ r - 1 \in 0..ATTACHED - 1
      BY <1>2, <1>4, LayoutAssumption
    <2>2. MhtNumber(i) = q /\ DataSlot(i) = r - 1
      <3>1. ATTACHED * MhtNumber(i) + DataSlot(i) = ATTACHED * q + (r - 1)
        BY <2>1, PlaceOfData
      <3>2. MhtNumber(i) \in Nat /\ DataSlot(i) \in 0..ATTACHED - 1
        BY <2>1, PlaceOfData
      <3>3. q \in Nat /\ r - 1 \in 0..ATTACHED - 1 /\ ATTACHED \in Nat \ {0}
        BY <1>2, <2>1, LayoutAssumption
      <3> HIDE DEF i
      <3>. QED  BY <3>1, <3>2, <3>3, DivUnique
    <2>3. n = DataNode(i)
      <3>1. DataNode(i) - 1 = (1 + ATTACHED) * q + r
        BY <1>2, <2>1, <2>2, PlaceOfData
      <3>2. DataNode(i) \in Int
        BY <1>2, <2>1, <2>2 DEF DataNode
      <3>. QED  BY <1>2, <3>1, <3>2
    <2>. QED  BY <2>1, <2>3
  <1>. QED  BY <1>3, <1>4

\* The keys of two nodes never share a slot of the inner node above them, and
\* the way up from an inner node ends at the root.
THEOREM SlotsDistinct ==
    /\ \A i, k \in Nat : MhtNumber(i) = MhtNumber(k) /\ DataSlot(i) = DataSlot(k) => i = k
    /\ \A j, k \in Nat \ {0} :
            ParentMht(j) = ParentMht(k) /\ MhtSlot(j) = MhtSlot(k) => j = k
    /\ \A j \in Nat \ {0} : ParentMht(j) \in 0..j - 1
  <1>1. \A i, k \in Nat : MhtNumber(i) = MhtNumber(k) /\ DataSlot(i) = DataSlot(k) => i = k
    BY PlaceOfData
  <1>2. ASSUME NEW j \in Nat \ {0}
        PROVE  /\ ParentMht(j) \in Nat /\ MhtSlot(j) \in 0..CHILDREN - 1
               /\ j - 1 = CHILDREN * ParentMht(j) + MhtSlot(j)
    <2>1. j - 1 \in Nat
      OBVIOUS
    <2>. QED  BY <2>1, DivMod, LayoutAssumption DEF ParentMht, MhtSlot
  <1>3. \A j, k \in Nat \ {0} :
            ParentMht(j) = ParentMht(k) /\ MhtSlot(j) = MhtSlot(k) => j = k
    BY <1>2
  <1>4. ASSUME NEW j \in Nat \ {0} PROVE ParentMht(j) \in 0..j - 1
    <2>1. CHILDREN * ParentMht(j) >= ParentMht(j)
      <3>1. ASSUME NEW p \in Nat, NEW c \in Nat \ {0} PROVE c * p >= p
        BY SMT
      <3>. QED  BY <1>2, <3>1, LayoutAssumption
    <2>. QED  BY <1>2, <2>1, LayoutAssumption
  <1>. QED  BY <1>1, <1>3, <1>4
===============================================================================
