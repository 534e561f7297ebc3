------------------------ MODULE ProofGenerator_proofs ------------------------
(***************************************************************************)
(* Theorems about MerkleTree and ProofGenerator, for every depth, hash and *)
(* number of leaves: an insertion that hashes again only the path above    *)
(* the new leaf leaves no stale node behind, the root commits to the list  *)
(* of the leaves, and a proof leads from its leaf to the root that it is   *)
(* handed out with.                                                        *)
(*                                                                         *)
(* Consistent is almost inductive as it stands, because between two turns  *)
(* of updateTree's loop the one node that may be stale is the parent of    *)
(* the one just written: the nodes above it still agree with each other.   *)
(* It needs the ranges of the loops' locals (LoopOK) and, for the proofs,  *)
(* that there is a root once there is a leaf (Rooted) and where the loop   *)
(* of getProof has come to (OnPath).                                       *)
(*                                                                         *)
(* What Climb and RootOf compute is given by recursion on the levels.  The *)
(* climb of a proof is kept by the invariant ClimbOK while it is made, and *)
(* the consistent tree itself is what RootOf builds; that a recursion has  *)
(* no other solution is an induction on the levels.                        *)
(*                                                                         *)
(* The steps of the generator are steps of the tree, so that all of this   *)
(* holds of the generator's; and the proof that it makes for a wallet is   *)
(* of a leaf that names the wallet, because no leaf is inserted while a    *)
(* proof is collected.                                                     *)
(***************************************************************************)
EXTENDS ProofGenerator, FiniteSetTheorems, SequenceTheorems, WellFoundedInduction, TLAPS

(* A family of subsets of a finite set has a member that includes no other. *)
LEMMA SmallestMember ==
    ASSUME NEW S, IsFiniteSet(S), NEW F \in SUBSET SUBSET S, F # {}
    PROVE  \E A \in F : \A B \in F : B \subseteq A => B = A
<1> DEFINE R == StrictSubsetOrdering(S)
<1>1. IsWellFoundedOn(R, SUBSET S)
  BY FS_StrictSubsetOrderingWellFounded, FS_FiniteSubsetsOfFinite
<1>2. \E A \in F : \A B \in F : ~ (<<B, A>> \in R)
  <2> HIDE DEF R
  <2>1. F \subseteq SUBSET S
    OBVIOUS
  <2> QED BY <1>1, <2>1, WFMin
<1>3. PICK A \in F : \A B \in F : ~ (<<B, A>> \in R)
  BY <1>2
<1>4. ASSUME NEW B \in F, B \subseteq A, B # A PROVE FALSE
  <2>1. <<B, A>> \in (SUBSET S) \X (SUBSET S)
    OBVIOUS
  <2>2. <<B, A>> \in R
    BY <1>4, <2>1 DEF StrictSubsetOrdering
  <2> QED BY <2>2, <1>3
<1> QED BY <1>4

(* A set of numbers up to n that has 0, and with k < n also k + 1, is full. *)
LEMMA UpToInduction ==
    ASSUME NEW n \in Nat, NEW G, 0 \in G,
           \A k \in 0..n : k < n /\ k \in G => k + 1 \in G
    PROVE  n \in G
<1> DEFINE Full == 0..n
           F == {0..k : k \in Full \ G}
<1>1. SUFFICES ASSUME n \notin G PROVE FALSE
  OBVIOUS
<1>2. IsFiniteSet(Full)
  BY FS_Interval
<1>3. F \in SUBSET SUBSET Full /\ F # {}
  BY <1>1
<1>4. PICK A \in F : \A B \in F : B \subseteq A => B = A
  <2> HIDE DEF F, Full
  <2> QED BY <1>2, <1>3, SmallestMember
<1>5. PICK k \in Full \ G : A = 0..k
  OBVIOUS
<1>6. k # 0 /\ k - 1 \in Full /\ k - 1 \notin G
  BY <1>5
<1>7. 0..(k - 1) \in F /\ 0..(k - 1) \subseteq A
  BY <1>5, <1>6
<1>8. 0..(k - 1) = 0..k
  BY <1>4, <1>5, <1>7
<1>9. k \in 0..k /\ k \notin 0..(k - 1)
  BY <1>5
<1> QED BY <1>8, <1>9

-----------------------------------------------------------------------------
(* The arithmetic of the indices: a node and its sibling are the children  *)
(* of their parent, in the order in which Combine hashes them.             *)
LEMMA Indices ==
    ASSUME NEW i \in Nat
    PROVE  /\ parent(i) \in Nat
           /\ siblingIndex(i) \in Nat
           /\ i % 2 = 0 => i = 2 * parent(i) /\ siblingIndex(i) = 2 * parent(i) + 1
           /\ i % 2 # 0 => i = 2 * parent(i) + 1 /\ siblingIndex(i) = 2 * parent(i)
  BY DEF parent, siblingIndex

LEMMA IsParent ==
    ASSUME NEW i \in Nat, NEW j \in Nat, j = 2 * i \/ j = 2 * i + 1
    PROVE  i = parent(j)
  BY DEF parent

(* Width halves from level to level.                                       *)
LEMMA Widths2 ==
    ASSUME NEW l \in 1..Depth
    PROVE  /\ l \in Level /\ l - 1 \in Level /\ l - 1 \in 0..(Depth - 1)
           /\ Width[l] \in Nat \ {0}
           /\ Width[l - 1] \in Nat \ {0}
           /\ Width[l - 1] = 2 * Width[l]
  BY DepthAssumption, WidthAssumption DEF Level

LEMMA Halves ==
    ASSUME NEW w \in Nat
    PROVE  /\ \A i \in 0..(2 * w - 1) : /\ i \in Nat
                                        /\ parent(i) \in 0..(w - 1)
                                        /\ siblingIndex(i) \in 0..(2 * w - 1)
           /\ \A i \in 0..(w - 1) : /\ i \in Nat
                                    /\ 2 * i \in 0..(2 * w - 1)
                                    /\ 2 * i + 1 \in 0..(2 * w - 1)
  <1>1. ASSUME NEW i \in 0..(2 * w - 1)
        PROVE  i \in Nat /\ parent(i) \in 0..(w - 1) /\ siblingIndex(i) \in 0..(2 * w - 1)
    <2>1. i \in Nat /\ i < 2 * w
      OBVIOUS
    <2>2. parent(i) \in Nat /\ siblingIndex(i) \in Nat
      BY <2>1, Indices
    <2>3. \/ i = 2 * parent(i) /\ siblingIndex(i) = 2 * parent(i) + 1
          \/ i = 2 * parent(i) + 1 /\ siblingIndex(i) = 2 * parent(i)
      BY <2>1, Indices
    <2>4. ASSUME NEW q \in Nat, NEW s \in Nat,
                 (i = 2 * q /\ s = 2 * q + 1) \/ (i = 2 * q + 1 /\ s = 2 * q)
          PROVE  q \in 0..(w - 1) /\ s \in 0..(2 * w - 1)
      BY <2>1, <2>4
    <2> QED
      BY <2>1, <2>2, <2>3, <2>4
  <1>2. ASSUME NEW i \in 0..(w - 1)
        PROVE  i \in Nat /\ 2 * i \in 0..(2 * w - 1) /\ 2 * i + 1 \in 0..(2 * w - 1)
    OBVIOUS
  <1> QED
    BY <1>1, <1>2

LEMMA Family ==
    ASSUME NEW l \in 1..Depth
    PROVE  /\ \A i \in Nodes(l - 1) : /\ i \in Nat
                                      /\ parent(i) \in Nodes(l)
                                      /\ siblingIndex(i) \in Nodes(l - 1)
           /\ \A i \in Nodes(l) : /\ i \in Nat
                                  /\ 2 * i \in Nodes(l - 1)
                                  /\ 2 * i + 1 \in Nodes(l - 1)
  <1>1. /\ Width[l] \in Nat
        /\ Nodes(l) = 0..(Width[l] - 1)
        /\ Nodes(l - 1) = 0..(2 * Width[l] - 1)
    BY Widths2 DEF Nodes
  <1> QED
    BY <1>1, Halves

LEMMA Domains ==
    ASSUME Shape, NEW l \in Level
    PROVE  /\ DOMAIN tree[l] \subseteq Nodes(l)
           /\ l # Depth => DOMAIN tree[l] = Nodes(l)
  BY DEF Shape

(* What Set does: one node of one level changes, and the tree keeps its    *)
(* shape.                                                                  *)
LEMMA SetNode ==
    ASSUME Shape, NEW l \in Level, NEW i \in Nodes(l), NEW value,
           Set(l, i, value)
    PROVE  /\ Shape'
           /\ \A k \in Level : k # l => tree'[k] = tree[k]
           /\ DOMAIN tree'[l] = DOMAIN tree[l] \cup {i}
           /\ tree'[l][i] = value
           /\ \A j \in DOMAIN tree[l] : j # i => tree'[l][j] = tree[l][j]
  <1> DEFINE new == [j \in DOMAIN tree[l] \cup {i} |->
                        IF j = i THEN value ELSE tree[l][j]]
  <1>1. tree = [k \in Level |-> tree[k]] /\ tree' = [tree EXCEPT ![l] = new]
    BY DEF Shape, Set
  <1>2. new = [j \in DOMAIN new |-> new[j]] /\ DOMAIN new = DOMAIN tree[l] \cup {i}
    OBVIOUS
  <1>3. new[i] = value /\ \A j \in DOMAIN tree[l] : j # i => new[j] = tree[l][j]
    OBVIOUS
  <1> HIDE DEF new
  <1>4. /\ DOMAIN tree = Level
        /\ tree'[l] = new
        /\ \A k \in Level : k # l => tree'[k] = tree[k]
        /\ tree' = [k \in Level |-> tree'[k]]
    BY <1>1
  <1>5. ASSUME NEW k \in Level
        PROVE  /\ tree'[k] = [j \in DOMAIN tree'[k] |-> tree'[k][j]]
               /\ DOMAIN tree'[k] \subseteq Nodes(k)
               /\ k # Depth => DOMAIN tree'[k] = Nodes(k)
    <2>0. /\ tree[k] = [j \in DOMAIN tree[k] |-> tree[k][j]]
          /\ DOMAIN tree[k] \subseteq Nodes(k)
          /\ k # Depth => DOMAIN tree[k] = Nodes(k)
      BY DEF Shape
    <2>1. CASE k = l
      BY <2>0, <2>1, <1>2, <1>4
    <2>2. CASE k # l
      BY <2>0, <2>2, <1>4
    <2> QED
      BY <2>1, <2>2
  <1>6. Shape'
    BY <1>4, <1>5 DEF Shape, Nodes
  <1> QED
    BY <1>2, <1>3, <1>4, <1>6

(* With the children in place, hashing a node with its sibling gives the   *)
(* hash of the parent's two children.                                      *)
LEMMA Hashes ==
    ASSUME Shape, NEW l \in 1..Depth, NEW i \in Nodes(l - 1)
    PROVE  Combine(i, tree[l - 1][i], Node(l - 1, siblingIndex(i))) =
             Hash(tree[l - 1][2 * parent(i)], tree[l - 1][2 * parent(i) + 1])
  <1>1. l - 1 \in Level /\ l - 1 # Depth
    BY Widths2, DepthAssumption
  <1>2. i \in Nat /\ siblingIndex(i) \in DOMAIN tree[l - 1]
    BY <1>1, Domains, Family
  <1>3. Node(l - 1, siblingIndex(i)) = tree[l - 1][siblingIndex(i)]
    BY <1>2 DEF Node
  <1>4. CASE i % 2 = 0
    <2>1. i = 2 * parent(i) /\ siblingIndex(i) = 2 * parent(i) + 1
      BY <1>2, <1>4, Indices
    <2> QED
      BY <1>3, <1>4, <2>1 DEF Combine
  <1>5. CASE i % 2 # 0
    <2>1. i = 2 * parent(i) + 1 /\ siblingIndex(i) = 2 * parent(i)
      BY <1>2, <1>5, Indices
    <2> QED
      BY <1>3, <1>5, <2>1 DEF Combine
  <1> QED
    BY <1>4, <1>5

-----------------------------------------------------------------------------
LEMMA InitOK == Init => IInv
  <1> SUFFICES ASSUME Init PROVE IInv
    OBVIOUS
  <1> USE DepthAssumption
  <1>1. /\ tree = [l \in Level |-> tree[l]]
        /\ \A l \in Level : tree[l] = [i \in (IF l = Depth THEN {} ELSE Nodes(l)) |->
                                          zeroValues[l]]
    BY DEF Init, EmptyTree
  <1>2. ASSUME NEW l \in 0..(Depth - 1)
        PROVE  /\ l \in Level /\ tree[l] = [i \in Nodes(l) |-> zeroValues[l]]
               /\ DOMAIN tree[l] = Nodes(l)
               /\ \A i \in Nodes(l) : tree[l][i] = zeroValues[l]
    <2>1. l \in Level /\ l # Depth
      BY DEF Level
    <2>2. tree[l] = [i \in Nodes(l) |-> zeroValues[l]]
      BY <1>1, <2>1
    <2> QED
      BY <2>1, <2>2
  <1>3. DOMAIN tree[Depth] = {} /\ Depth \in Level
    <2>1. Depth \in Level
      BY DEF Level
    <2>2. tree[Depth] = [i \in {} |-> zeroValues[Depth]]
      BY <1>1, <2>1
    <2> QED
      BY <2>1, <2>2
  <1>4. TypeOK
    <2>1. ASSUME NEW l \in Level
          PROVE  /\ tree[l] = [i \in DOMAIN tree[l] |-> tree[l][i]]
                 /\ DOMAIN tree[l] \subseteq Nodes(l)
                 /\ l # Depth => DOMAIN tree[l] = Nodes(l)
      BY <1>1
    <2>2. /\ leaves = <<>> /\ leaves \in Seq(Leaf) /\ Len(leaves) = 0
          /\ pc = "idle" /\ level = 0 /\ currentIndex = 0 /\ asked = 0
      BY DEF Init
    <2>3. Width[0] \in Nat
      BY WidthAssumption DEF Level
    <2>4. Shape
      BY <1>1, <2>1 DEF Shape
    <2> QED
      BY <2>2, <2>3, <2>4 DEF TypeOK
  <1>5. LeavesInPlace
    <2>0. 0 \in 0..(Depth - 1)
      OBVIOUS
    <2>1. \A i \in Nodes(0) : tree[0][i] = zeroValues[0]
      BY <1>2, <2>0
    <2>2. Len(leaves) = 0 /\ \A i \in Nodes(0) : ~(i < 0)
      BY DEF Init, Nodes
    <2> QED
      BY <2>1, <2>2 DEF LeavesInPlace
  <1>6. ASSUME NEW l \in 1..Depth, NEW i \in DOMAIN tree[l]
        PROVE  IsHash(l, i)
    <2>1. l \in 1..(Depth - 1) /\ l \in 0..(Depth - 1) /\ l - 1 \in 0..(Depth - 1)
      BY <1>3
    <2>2. 2 * i \in Nodes(l - 1) /\ 2 * i + 1 \in Nodes(l - 1) /\ i \in Nodes(l)
      BY <1>2, <2>1, Family
    <2>3. /\ tree[l][i] = zeroValues[l]
          /\ tree[l - 1][2 * i] = zeroValues[l - 1]
          /\ tree[l - 1][2 * i + 1] = zeroValues[l - 1]
      BY <1>2, <2>1, <2>2
    <2> QED
      BY <2>1, <2>3, ZeroAssumption DEF IsHash
  <1>7. PathOnly
    BY <1>6 DEF PathOnly
  <1> QED
    BY <1>4, <1>5, <1>7 DEF Init, IInv, LoopOK, Updating, Consistent, Rooted, OnPath

-----------------------------------------------------------------------------
LEMMA InsertOK ==
    ASSUME IInv, NEW leaf \in Leaf, insertLeaf(leaf)
    PROVE  IInv'
  <1> DEFINE n == Len(leaves)
  <1>0. /\ TypeOK /\ Shape /\ LeavesInPlace /\ PathOnly
        /\ pc = "idle" /\ pc' = "update" /\ level' = 1
        /\ currentIndex' = n /\ currentValue' = leaf /\ asked' = asked
        /\ leaves' = Append(leaves, leaf)
        /\ Set(0, n, leaf)
    BY DEF IInv, TypeOK, Consistent, insertLeaf
  <1>1. /\ n \in Nat /\ leaves' \in Seq(Leaf) /\ Len(leaves') = n + 1
        /\ leaves'[n + 1] = leaf
        /\ \A i \in 0..(n - 1) : leaves'[i + 1] = leaves[i + 1]
    BY <1>0 DEF TypeOK
  <1>2. /\ Width[0] \in Nat \ {0} /\ n \in Nodes(0) /\ 0 \in Level /\ 0 # Depth
    BY <1>1, DepthAssumption, WidthAssumption DEF insertLeaf, Nodes, Level
  <1> HIDE DEF n
  <1>3. /\ Shape'
        /\ \A k \in Level : k # 0 => tree'[k] = tree[k]
        /\ DOMAIN tree'[0] = DOMAIN tree[0] \cup {n}
        /\ tree'[0][n] = leaf
        /\ \A j \in DOMAIN tree[0] : j # n => tree'[0][j] = tree[0][j]
    BY <1>0, <1>2, SetNode
  <1>4. DOMAIN tree[0] = Nodes(0)
    BY <1>0, <1>2, Domains
  <1>5. TypeOK'
    <2>1. Len(leaves') <= Width[0]
      BY <1>1, <1>2 DEF Nodes
    <2>2. level' \in 0..(Depth + 1)
      BY <1>0, DepthAssumption
    <2> QED
      BY <1>0, <1>1, <1>3, <2>1, <2>2 DEF TypeOK
  <1>6. LoopOK'
    <2>1. leaves' # <<>>
      BY <1>1
    <2> QED
      BY <1>0, <1>1, <1>2, <1>3, <2>1 DEF LoopOK, Updating, Nodes
  <1>7. LeavesInPlace'
    <2> SUFFICES ASSUME NEW i \in Nodes(0)
                 PROVE  tree'[0][i] = IF i < Len(leaves') THEN leaves'[i + 1]
                                      ELSE zeroValues[0]
      BY DEF LeavesInPlace
    <2>0. i \in Nat
      BY <1>2 DEF Nodes
    <2>1. CASE i = n
      BY <2>0, <2>1, <1>1, <1>3
    <2>2. CASE i # n
      <3>1. tree'[0][i] = IF i < n THEN leaves[i + 1] ELSE zeroValues[0]
        BY <2>2, <1>0, <1>3, <1>4 DEF LeavesInPlace, n
      <3>2. i < n => leaves'[i + 1] = leaves[i + 1]
        BY <2>0, <1>1
      <3>3. i < Len(leaves') <=> i < n
        BY <2>0, <2>2, <1>1
      <3> QED
        BY <3>1, <3>2, <3>3
    <2> QED
      BY <2>1, <2>2
  <1>8. PathOnly'
    <2> SUFFICES ASSUME NEW l \in 1..Depth, NEW i \in DOMAIN tree'[l]
                 PROVE  IsHash(l, i)' \/ (Updating' /\ l = level' /\ i = parent(currentIndex)')
      BY DEF PathOnly
    <2>0. l \in Level /\ l # 0 /\ l - 1 \in Level /\ i \in DOMAIN tree[l]
          /\ tree'[l] = tree[l]
      BY <1>3, Widths2, DepthAssumption
    <2>1. IsHash(l, i)
      BY <1>0, <2>0 DEF PathOnly, Updating
    <2>2. i \in Nat /\ 2 * i \in Nodes(l - 1) /\ 2 * i + 1 \in Nodes(l - 1)
      BY <1>0, <2>0, Domains, Family
    <2>3. CASE l # 1
      <3>1. tree'[l - 1] = tree[l - 1]
        BY <1>3, <2>0, <2>3
      <3> QED
        BY <2>0, <2>1, <3>1 DEF IsHash
    <2>4. CASE l = 1 /\ (n = 2 * i \/ n = 2 * i + 1)
      <3>1. i = parent(n)
        BY <1>1, <2>2, <2>4, IsParent
      <3>2. Updating' /\ l = level'
        BY <1>0, <2>4, DepthAssumption DEF Updating
      <3>3. parent(currentIndex)' = parent(n)
        BY <1>0 DEF parent
      <3> QED
        BY <3>1, <3>2, <3>3
    <2>5. CASE l = 1 /\ n # 2 * i /\ n # 2 * i + 1
      <3>1. tree'[l - 1][2 * i] = tree[l - 1][2 * i]
            /\ tree'[l - 1][2 * i + 1] = tree[l - 1][2 * i + 1]
        BY <1>3, <1>4, <2>2, <2>5
      <3> QED
        BY <2>0, <2>1, <3>1 DEF IsHash
    <2> QED
      BY <2>3, <2>4, <2>5
  <1> QED
    BY <1>0, <1>5, <1>6, <1>7, <1>8, DepthAssumption
    DEF IInv, Consistent, Rooted, OnPath, Updating

(* A turn of updateTree's loop: the parent of the node just written gets    *)
(* the hash of its two children, and only its own parent may now be stale. *)
LEMMA UpOK ==
    ASSUME IInv, updateTree, level <= Depth
    PROVE  IInv'
  <1> DEFINE j == parent(currentIndex)
             node == Hash(tree[level - 1][2 * j], tree[level - 1][2 * j + 1])
  <1>0. /\ TypeOK /\ Shape /\ LeavesInPlace /\ PathOnly /\ LoopOK /\ Updating
        /\ level \in 1..Depth
        /\ leaves # <<>> /\ leaves' = leaves
        /\ pc = "update" /\ pc' = pc /\ asked' = asked
    BY DepthAssumption DEF IInv, TypeOK, Consistent, updateTree, LoopOK, Updating
  <1>1. /\ level \in Level /\ level - 1 \in Level /\ level - 1 # Depth /\ level # 0
        /\ level - 1 # level
        /\ Width[level - 1] \in Nat
    BY <1>0, Widths2, DepthAssumption
  <1>2. currentIndex \in Nodes(level - 1) /\ j \in Nodes(level) /\ j \in Nat
    <2>1. currentIndex \in Nodes(level - 1)
      BY <1>0, <1>1 DEF TypeOK, LoopOK, Nodes
    <2> QED
      BY <1>0, <2>1, Family
  <1>3. Combine(currentIndex, currentValue,
                Node(level - 1, siblingIndex(currentIndex))) = node
    <2>1. currentValue = tree[level - 1][currentIndex]
      BY <1>0 DEF LoopOK
    <2> QED
      BY <1>0, <1>2, <2>1, Hashes
  <1>4. /\ Set(level, j, node) /\ currentValue' = node
        /\ currentIndex' = j /\ level' = level + 1
    <2>1. Up(Combine(currentIndex, currentValue,
                     Node(level - 1, siblingIndex(currentIndex))))
      BY <1>0 DEF updateTree, TypeOK
    <2>2. Up(node)
      BY <1>3, <2>1
    <2> QED
      BY <2>2 DEF Up
  <1> HIDE DEF j, node
  <1>5. /\ Shape'
        /\ \A k \in Level : k # level => tree'[k] = tree[k]
        /\ DOMAIN tree'[level] = DOMAIN tree[level] \cup {j}
        /\ tree'[level][j] = node
        /\ \A i \in DOMAIN tree[level] : i # j => tree'[level][i] = tree[level][i]
    BY <1>0, <1>1, <1>2, <1>4, SetNode
  <1>6. TypeOK'
    BY <1>0, <1>2, <1>4, <1>5, DepthAssumption DEF TypeOK
  <1>7. LoopOK'
    <2>1. level' - 1 = level /\ level' >= 1
      BY <1>0, <1>4
    <2>2. currentIndex' < Width[level]
      <3>1. Width[level] \in Nat
        BY <1>0, Widths2
      <3> QED
        BY <1>2, <1>4, <3>1 DEF Nodes
    <2>3. currentValue' = tree'[level][currentIndex']
      BY <1>4, <1>5
    <2> QED
      BY <1>0, <2>1, <2>2, <2>3 DEF LoopOK
  <1>8. LeavesInPlace'
    <2>1. 0 \in Level
      BY DepthAssumption DEF Level
    <2>2. tree'[0] = tree[0]
      BY <1>1, <1>5, <2>1
    <2> QED
      BY <1>0, <2>2 DEF LeavesInPlace, Nodes
  <1>9. PathOnly'
    <2> SUFFICES ASSUME NEW l \in 1..Depth, NEW i \in DOMAIN tree'[l]
                 PROVE  \/ IsHash(l, i)'
                        \/ Updating' /\ l = level' /\ i = parent(currentIndex)'
      BY DEF PathOnly
    <2>0. l \in Level /\ l - 1 \in Level /\ l - 1 # l
      BY Widths2
    <2>1. i \in Nodes(l)
      BY <1>5, <2>0 DEF Shape, Nodes
    <2>2. i \in Nat /\ 2 * i \in Nodes(l - 1) /\ 2 * i + 1 \in Nodes(l - 1)
      BY <2>1, Family
    <2>3. CASE l = level /\ i = j
      <3>1. tree'[l - 1] = tree[l - 1]
        BY <1>1, <1>5, <2>3
      <3>2. tree'[l][i] = node
        BY <1>5, <2>3
      <3> QED
        BY <2>3, <3>1, <3>2 DEF IsHash, node
    <2>4. CASE ~(l = level /\ i = j)
      <3>1. i \in DOMAIN tree[l] /\ tree'[l][i] = tree[l][i]
        BY <1>5, <2>0, <2>4
      <3>2. IsHash(l, i)
        BY <1>0, <2>4, <3>1 DEF PathOnly, j
      <3>3. CASE l - 1 # level
        <4>1. tree'[l - 1] = tree[l - 1]
          BY <1>5, <2>0, <3>3
        <4> QED
          BY <3>1, <3>2, <4>1 DEF IsHash
      <3>4. CASE l - 1 = level /\ (j = 2 * i \/ j = 2 * i + 1)
        <4>1. i = parent(j)
          BY <1>2, <2>2, <3>4, IsParent
        <4>2. Updating' /\ l = level'
          BY <1>0, <1>4, <3>4 DEF Updating
        <4>3. parent(currentIndex)' = parent(j)
          BY <1>4 DEF parent
        <4> QED
          BY <4>1, <4>2, <4>3
      <3>5. CASE l - 1 = level /\ j # 2 * i /\ j # 2 * i + 1
        <4>1. DOMAIN tree[l - 1] = Nodes(l - 1)
          <5>1. l - 1 # Depth
            BY DepthAssumption
          <5> QED
            BY <1>0, <2>0, <5>1, Domains
        <4>2. tree'[l - 1][2 * i] = tree[l - 1][2 * i]
              /\ tree'[l - 1][2 * i + 1] = tree[l - 1][2 * i + 1]
          BY <1>5, <2>2, <3>5, <4>1
        <4> QED
          BY <3>1, <3>2, <4>2 DEF IsHash
      <3> QED
        BY <3>3, <3>4, <3>5
    <2> QED
      BY <2>3, <2>4
  <1>10. Rooted'
    <2> SUFFICES ASSUME ~Updating' PROVE 0 \in DOMAIN tree'[Depth]
      BY DEF Rooted
    <2>1. level = Depth
      BY <1>0, <1>4, DepthAssumption DEF Updating
    <2>2. j = 0
      BY <1>2, <2>1, WidthAssumption DEF Nodes
    <2> QED
      BY <1>5, <2>1, <2>2
  <1>11. OnPath'
    BY <1>0 DEF OnPath
  <1> QED
    BY <1>6, <1>7, <1>8, <1>9, <1>10, <1>11 DEF IInv, Consistent

(* The tree is left alone by everything else.                              *)
LEMMA SameTree ==
    ASSUME IInv, UNCHANGED <<leaves, tree>>, ~Updating, ~Updating'
    PROVE  Shape' /\ Consistent' /\ Rooted'
  <1>1. /\ Shape' = Shape
        /\ LeavesInPlace' = LeavesInPlace
    BY DEF Shape, LeavesInPlace, Nodes
  <1>2. PathOnly'
    BY DEF IInv, Consistent, PathOnly, IsHash
  <1>3. Rooted'
    BY DEF IInv, Rooted
  <1> QED
    BY <1>1, <1>2, <1>3 DEF IInv, TypeOK, Consistent

LEMMA UpdateOK ==
    ASSUME IInv, updateTree
    PROVE  IInv'
  <1>1. CASE level <= Depth
    BY <1>1, UpOK
  <1>2. CASE ~(level <= Depth)
    <2>1. /\ pc' = "idle" /\ UNCHANGED <<leaves, tree, level, currentIndex, asked>>
      BY <1>2 DEF updateTree
    <2>2. ~Updating /\ ~Updating'
      BY <1>2, <2>1 DEF Updating
    <2>3. Shape' /\ Consistent' /\ Rooted'
      BY <2>1, <2>2, SameTree
    <2> QED
      BY <2>1, <2>2, <2>3 DEF IInv, TypeOK, LoopOK, OnPath
  <1> QED
    BY <1>1, <1>2

LEMMA GetProofOK ==
    ASSUME IInv, NEW index \in Nodes(0), getProof(index)
    PROVE  IInv'
  <1>0. /\ TypeOK /\ LeavesInPlace
        /\ pc = "idle" /\ pc' = "proof" /\ level' = 0
        /\ index < Len(leaves) /\ currentIndex' = index /\ asked' = index
        /\ climbed' = leaves[index + 1]
        /\ UNCHANGED <<leaves, tree>>
    BY DEF IInv, Consistent, getProof
  <1>1. ~Updating /\ ~Updating'
    BY <1>0 DEF Updating
  <1>2. Shape' /\ Consistent' /\ Rooted'
    BY <1>0, <1>1, SameTree
  <1>3. index \in Nat /\ index < Width[0] /\ 0 \in Level
    BY DepthAssumption, WidthAssumption DEF Nodes, Level
  <1>4. TypeOK'
    BY <1>0, <1>2, <1>3, DepthAssumption DEF TypeOK
  <1>5. LoopOK'
    BY <1>0, <1>1, <1>3, DepthAssumption DEF LoopOK
  <1>6. OnPath'
    BY <1>0, <1>3 DEF OnPath, LeavesInPlace
  <1> QED
    BY <1>2, <1>4, <1>5, <1>6 DEF IInv

(* A turn of getProof's loop climbs from a node to its parent.             *)
LEMMA CollectOK ==
    ASSUME IInv, CollectProof
    PROVE  IInv'
  <1>0. /\ TypeOK /\ Shape /\ PathOnly /\ Rooted /\ LoopOK /\ OnPath
        /\ pc = "proof" /\ UNCHANGED <<leaves, tree, asked>>
    BY DEF IInv, TypeOK, Consistent, CollectProof
  <1>1. ~Updating /\ ~Updating'
    BY <1>0 DEF Updating, CollectProof
  <1>2. Shape' /\ Consistent' /\ Rooted'
    BY <1>0, <1>1, SameTree
  <1>3. CASE level < Depth
    <2> DEFINE l == level + 1
               i == parent(currentIndex)
    <2>0. /\ pc' = "proof" /\ level' = l /\ currentIndex' = i
          /\ climbed' = Combine(currentIndex, climbed,
                                Node(level, siblingIndex(currentIndex)))
      BY <1>0, <1>3 DEF CollectProof, Push, TypeOK
    <2>1. l \in 1..Depth /\ l \in Level /\ l - 1 = level
      BY <1>0, <1>3, DepthAssumption DEF TypeOK, Level
    <2>2. Width[level] \in Nat /\ Width[l] \in Nat
      BY <2>1, Widths2
    <2>3. currentIndex \in Nodes(level)
      BY <1>0, <2>2 DEF TypeOK, LoopOK, Nodes
    <2>4. i \in Nodes(l) /\ i \in Nat
      BY <2>1, <2>3, Family
    <2>5. climbed = tree[l - 1][currentIndex]
      BY <1>0, <2>1 DEF OnPath
    <2>6. climbed' = Hash(tree[l - 1][2 * i], tree[l - 1][2 * i + 1])
      BY <1>0, <2>0, <2>1, <2>3, <2>5, Hashes
    <2>7. i \in DOMAIN tree[l]
      <3>1. CASE l = Depth
        <4>1. i = 0
          BY <2>4, <3>1, WidthAssumption DEF Nodes
        <4>2. leaves # <<>>
          BY <1>0 DEF TypeOK, LoopOK
        <4> QED
          BY <1>0, <1>1, <3>1, <4>1, <4>2 DEF Rooted
      <3>2. CASE l # Depth
        BY <1>0, <2>1, <2>4, <3>2, Domains
      <3> QED
        BY <3>1, <3>2
    <2>8. tree[l][i] = climbed'
      BY <1>0, <1>1, <2>1, <2>6, <2>7 DEF PathOnly, IsHash
    <2>9. i < Width[l]
      BY <2>2, <2>4 DEF Nodes
    <2> HIDE DEF l, i
    <2>10. TypeOK'
      <3>1. level' \in 0..(Depth + 1)
        BY <2>0, <2>1, DepthAssumption
      <3> QED
        BY <1>0, <1>2, <2>0, <2>4, <3>1 DEF TypeOK
    <2>11. LoopOK'
      BY <1>0, <1>1, <2>0, <2>1, <2>9, DepthAssumption DEF LoopOK
    <2>12. OnPath'
      BY <1>0, <2>0, <2>1, <2>8 DEF OnPath
    <2> QED
      BY <1>2, <2>10, <2>11, <2>12 DEF IInv
  <1>4. CASE ~(level < Depth)
    <2>1. pc' = "idle" /\ UNCHANGED <<level, currentIndex>>
      BY <1>4 DEF CollectProof
    <2> QED
      BY <1>0, <1>1, <1>2, <2>1 DEF IInv, TypeOK, LoopOK, OnPath
  <1> QED
    BY <1>3, <1>4

(* A step that changes no variable keeps the inductive invariant.          *)
LEMMA StutterOK ==
    ASSUME IInv, UNCHANGED vars
    PROVE  IInv'
<1>1. TypeOK' /\ Shape'
  BY DEF vars, locals, IInv, TypeOK, Shape
<1>2. LoopOK'
  BY DEF vars, locals, IInv, LoopOK, Updating
<1>3. LeavesInPlace'
  BY DEF vars, locals, IInv, Consistent, LeavesInPlace
<1>4. PathOnly'
  BY DEF vars, locals, IInv, Consistent, PathOnly, IsHash, Updating
<1>5. Rooted' /\ OnPath'
  BY DEF vars, locals, IInv, Rooted, OnPath, Updating
<1> QED
  BY <1>1, <1>2, <1>3, <1>4, <1>5 DEF IInv, Consistent

-----------------------------------------------------------------------------
(* The inductive invariant holds throughout.                               *)
THEOREM Invariance == Spec => []IInv
  <1>1. IInv /\ [Next]_vars => IInv'
    <2> SUFFICES ASSUME IInv, [Next]_vars PROVE IInv'
      OBVIOUS
    <2>1. ASSUME NEW leaf \in Leaf, insertLeaf(leaf) PROVE IInv'
      BY <2>1, InsertOK
    <2>2. CASE updateTree
      BY <2>2, UpdateOK
    <2>3. ASSUME NEW index \in Nodes(0), getProof(index) PROVE IInv'
      BY <2>3, GetProofOK
    <2>4. CASE CollectProof
      BY <2>4, CollectOK
    <2>5. CASE UNCHANGED vars
      BY <2>5, StutterOK
    <2> QED
      BY <2>1, <2>2, <2>3, <2>4, <2>5 DEF Next
  <1> QED
    BY InitOK, <1>1, PTL DEF Spec

(* The tree keeps its shape whatever is inserted.                          *)
THEOREM TypeCorrect == Spec => []TypeOK
  <1>1. IInv => TypeOK
    BY DEF IInv
  <1> QED
    BY <1>1, Invariance, PTL

(* updateTree hashes again all that an insertion makes stale: every leaf   *)
(* is where it was inserted and every node is the hash of its children.    *)
THEOREM NoStaleNode == Spec => []Consistent
  <1>1. IInv => Consistent
    BY DEF IInv
  <1> QED
    BY <1>1, Invariance, PTL

(* getProof's siblings lead from the leaf to the root they are handed out  *)
(* with, if they are taken on the sides that the leaf's index tells.       *)
THEOREM ProofsLeadToRoot == Spec => []ProofReachesRoot
  <1>1. IInv => ProofReachesRoot
    <2> SUFFICES ASSUME IInv, pc = "proof", level = Depth PROVE climbed = getRoot
      BY DEF ProofReachesRoot
    <2>1. /\ climbed = tree[Depth][currentIndex]
          /\ currentIndex \in Nat /\ currentIndex < 1
          /\ leaves # <<>> /\ ~Updating
      BY WidthAssumption DEF IInv, OnPath, LoopOK, TypeOK, Updating
    <2>2. currentIndex = 0 /\ 0 \in DOMAIN tree[Depth]
      BY <2>1 DEF IInv, Rooted
    <2> QED
      BY <2>1, <2>2 DEF getRoot
  <1> QED
    BY <1>1, Invariance, PTL

-----------------------------------------------------------------------------
(* at climbs from the leaf at index i along the first n of the siblings.   *)
Climbs(at, n, siblings, i, leaf) ==
    at = [l \in 0..n |->
            IF l = 0
            THEN [index |-> i, node |-> leaf]
            ELSE [index |-> parent(at[l - 1].index),
                  node  |-> IF ByIndex(l - 1, at[l - 1].index)
                            THEN Hash(at[l - 1].node, siblings[l])
                            ELSE Hash(siblings[l], at[l - 1].node)]]

(* Climb of a proof is where such a climb ends: there is no other.         *)
LEMMA ClimbIsUnique ==
    ASSUME NEW p, Len(p.proof) \in Nat, NEW at,
           Climbs(at, Len(p.proof), p.proof, p.leafIndex, p.leaf)
    PROVE  Climb(p, ByIndex) = at[Len(p.proof)]
<1> DEFINE n == Len(p.proof)
           c == CHOOSE c : Climbs(c, n, p.proof, p.leafIndex, p.leaf)
           G == {l \in 0..n : c[l] = at[l]}
<1>1. Climbs(c, n, p.proof, p.leafIndex, p.leaf)
  OBVIOUS
<1>2. Climb(p, ByIndex) = c[n]
  BY DEF Climb, Climbs
<1> HIDE DEF c
<1>3. n \in Nat
  OBVIOUS
<1>4. 0 \in G
  BY <1>1, <1>3 DEF Climbs
<1>5. ASSUME NEW k \in 0..n, k < n, k \in G PROVE k + 1 \in G
  <2>1. k + 1 \in 0..n /\ k + 1 # 0 /\ (k + 1) - 1 = k
    BY <1>3, <1>5
  <2> HIDE DEF n
  <2>2. c[k + 1] = [index |-> parent(c[k].index),
                    node  |-> IF ByIndex(k, c[k].index)
                              THEN Hash(c[k].node, p.proof[k + 1])
                              ELSE Hash(p.proof[k + 1], c[k].node)]
    BY <1>1, <2>1 DEF Climbs
  <2>3. at[k + 1] = [index |-> parent(at[k].index),
                     node  |-> IF ByIndex(k, at[k].index)
                               THEN Hash(at[k].node, p.proof[k + 1])
                               ELSE Hash(p.proof[k + 1], at[k].node)]
    BY <2>1 DEF Climbs, n
  <2> QED BY <1>5, <2>1, <2>2, <2>3
<1>6. n \in G
  <2> HIDE DEF G, n
  <2> QED BY <1>3, <1>4, <1>5, UpToInduction
<1> QED BY <1>2, <1>6

(* The siblings collected so far lead to where the loop is, and those of   *)
(* the proof that was handed out to its root.                              *)
ClimbOK ==
    /\ pc = "proof" =>
          /\ Len(proof) = level
          /\ \E V : proof \in Seq(V)
          /\ \E at : /\ Climbs(at, level, proof, asked, leaves[asked + 1])
                    /\ at[level] = [index |-> currentIndex, node |-> climbed]
    /\ handed # None =>
          /\ Len(handed.proof) \in Nat
          /\ \E at : /\ Climbs(at, Len(handed.proof), handed.proof,
                              handed.leafIndex, handed.leaf)
                    /\ at[Len(handed.proof)] = [index |-> 0, node |-> handed.root]

(* A sibling more takes a climb one level further.                         *)
LEMMA ClimbOn ==
    ASSUME NEW V, NEW s \in Seq(V), NEW i, NEW leaf, NEW at, NEW j, NEW node, NEW x,
           Climbs(at, Len(s), s, i, leaf), at[Len(s)] = [index |-> j, node |-> node]
    PROVE  \E on : /\ Climbs(on, Len(s) + 1, Append(s, x), i, leaf)
                  /\ on[Len(s) + 1] = [index |-> parent(j), node |-> Combine(j, node, x)]
<1> DEFINE n == Len(s)
           last == [index |-> parent(j), node |-> Combine(j, node, x)]
           on == [l \in 0..(n + 1) |-> IF l = n + 1 THEN last ELSE at[l]]
           t == Append(s, x)
           Turn(f, u, l) == [index |-> parent(f[l - 1].index),
                             node  |-> IF ByIndex(l - 1, f[l - 1].index)
                                       THEN Hash(f[l - 1].node, u[l])
                                       ELSE Hash(u[l], f[l - 1].node)]
<1>1. n \in Nat /\ t[n + 1] = x /\ (\A l \in 1..n : t[l] = s[l])
  OBVIOUS
<1>2. /\ at[0] = [index |-> i, node |-> leaf]
      /\ \A l \in 1..n : at[l] = Turn(at, s, l)
  <2>1. 0 \in 0..n /\ (\A l \in 1..n : l \in 0..n /\ l # 0)
    BY <1>1
  <2> HIDE DEF n
  <2>2. \A l \in 0..n : at[l] = IF l = 0 THEN [index |-> i, node |-> leaf] ELSE Turn(at, s, l)
    BY DEF Climbs, n
  <2> HIDE DEF Turn
  <2> QED BY <2>1, <2>2
<1>3. on[0] = [index |-> i, node |-> leaf]
  BY <1>1, <1>2
<1>4. ASSUME NEW l \in 1..(n + 1) PROVE on[l] = Turn(on, t, l)
  <2>1. CASE l = n + 1
    <3>1. on[l - 1] = [index |-> j, node |-> node] /\ t[l] = x
      BY <1>1, <2>1
    <3>2. on[l] = last
      BY <1>1, <2>1
    <3> HIDE DEF on, t
    <3> QED BY <3>1, <3>2 DEF Combine, ByIndex
  <2>2. CASE l # n + 1
    <3>1. l \in 1..n /\ on[l] = at[l] /\ on[l - 1] = at[l - 1] /\ t[l] = s[l]
      BY <1>1, <2>2
    <3>2. at[l] = Turn(at, s, l)
      BY <1>2, <3>1
    <3> HIDE DEF on, t
    <3> QED BY <3>1, <3>2
  <2> QED BY <2>1, <2>2
<1>5. Climbs(on, n + 1, t, i, leaf)
  <2>1. on = [l \in 0..(n + 1) |-> on[l]]
    OBVIOUS
  <2>2. ASSUME NEW l \in 0..(n + 1)
        PROVE  on[l] = IF l = 0 THEN [index |-> i, node |-> leaf] ELSE Turn(on, t, l)
    <3> HIDE DEF on, t, Turn
    <3> QED BY <1>1, <1>3, <1>4
  <2> HIDE DEF on, t, n
  <2> QED BY <2>1, <2>2 DEF Climbs
<1>6. on[n + 1] = last
  BY <1>1
<1> QED BY <1>5, <1>6

(* Every step of the tree keeps the climb.                                 *)
LEMMA ClimbStep ==
    ASSUME IInv, ClimbOK, [Next]_vars
    PROVE  ClimbOK'
<1>1. ASSUME pc' # "proof", handed' = handed PROVE ClimbOK'
  BY <1>1 DEF ClimbOK
<1>2. ASSUME NEW leaf \in Leaf, insertLeaf(leaf) PROVE ClimbOK'
  BY <1>1, <1>2 DEF insertLeaf
<1>3. CASE updateTree
  BY <1>1, <1>3 DEF updateTree
<1>4. ASSUME NEW index \in Nodes(0), getProof(index) PROVE ClimbOK'
  <2>1. /\ proof' = <<>> /\ level' = 0 /\ currentIndex' = index /\ asked' = index
        /\ leaves' = leaves /\ climbed' = leaves[index + 1] /\ handed' = handed
    BY <1>4 DEF getProof
  <2> DEFINE at == [l \in 0..0 |-> [index |-> index, node |-> leaves[index + 1]]]
  <2>2. Climbs(at, 0, <<>>, index, leaves[index + 1])
    BY DEF Climbs
  <2>3. at[0] = [index |-> index, node |-> leaves[index + 1]]
    OBVIOUS
  <2>4. Len(<<>>) = 0 /\ <<>> \in Seq({})
    OBVIOUS
  <2> HIDE DEF at
  <2> QED BY <2>1, <2>2, <2>3, <2>4 DEF ClimbOK
<1>5. CASE CollectProof /\ level < Depth
  <2> DEFINE sibling == Node(level, siblingIndex(currentIndex))
  <2>1. /\ pc = "proof" /\ proof' = Append(proof, sibling) /\ level' = level + 1
        /\ currentIndex' = parent(currentIndex)
        /\ climbed' = Combine(currentIndex, climbed, sibling)
        /\ asked' = asked /\ leaves' = leaves /\ handed' = handed
    BY <1>5 DEF CollectProof, Push, IInv, TypeOK
  <2> HIDE DEF sibling
  <2>2. PICK V : proof \in Seq(V)
    BY <2>1 DEF ClimbOK
  <2>3. Len(proof) = level
    BY <2>1 DEF ClimbOK
  <2>4. PICK at : /\ Climbs(at, level, proof, asked, leaves[asked + 1])
                  /\ at[level] = [index |-> currentIndex, node |-> climbed]
    BY <2>1 DEF ClimbOK
  <2>5. \E on : /\ Climbs(on, level + 1, proof', asked, leaves[asked + 1])
               /\ on[level + 1] = [index |-> currentIndex', node |-> climbed']
    BY <2>1, <2>2, <2>3, <2>4, ClimbOn
  <2>6. proof' \in Seq(V \cup {sibling}) /\ Len(proof') = level + 1
    BY <2>1, <2>2, <2>3
  <2> QED BY <2>1, <2>5, <2>6 DEF ClimbOK
<1>6. CASE CollectProof /\ ~(level < Depth)
  <2>1. /\ pc = "proof" /\ level = Depth /\ pc' = "idle"
        /\ handed' = [root |-> getRoot, proof |-> proof, leafIndex |-> asked,
                      leaf |-> leaves[asked + 1]]
    BY <1>6 DEF CollectProof
  <2>2. currentIndex = 0 /\ climbed = getRoot
    <3>1. /\ climbed = tree[Depth][currentIndex]
          /\ currentIndex \in Nat /\ currentIndex < 1
          /\ leaves # <<>> /\ ~Updating
      BY <2>1, WidthAssumption DEF IInv, OnPath, LoopOK, TypeOK, Updating
    <3>2. currentIndex = 0 /\ 0 \in DOMAIN tree[Depth]
      BY <3>1 DEF IInv, Rooted
    <3> QED BY <3>1, <3>2 DEF getRoot
  <2>3. Len(proof) = level /\ level \in Nat
    BY <2>1, DepthAssumption DEF ClimbOK
  <2>4. PICK at : /\ Climbs(at, level, proof, asked, leaves[asked + 1])
                  /\ at[level] = [index |-> currentIndex, node |-> climbed]
    BY <2>1 DEF ClimbOK
  <2>5. /\ handed'.proof = proof /\ handed'.root = getRoot
        /\ handed'.leafIndex = asked /\ handed'.leaf = leaves[asked + 1]
    BY <2>1
  <2> QED BY <2>1, <2>2, <2>3, <2>4, <2>5 DEF ClimbOK
<1>7. CASE UNCHANGED vars
  BY <1>7 DEF ClimbOK, vars, locals
<1> QED BY <1>2, <1>3, <1>4, <1>5, <1>6, <1>7 DEF Next

LEMMA ClimbInvariance == Spec => []ClimbOK
<1>1. Init => ClimbOK
  BY DEF Init, ClimbOK
<1> QED BY <1>1, ClimbStep, Invariance, PTL DEF Spec

(* A proof stays right: by the bits of its leaf's index it leads to the    *)
(* root that it names, whatever is inserted later (proofs.ts 146-169).     *)
THEOREM HandedProofsAreRight == Spec => []ProofIsRight
<1>2. ClimbOK => ProofIsRight
  <2> SUFFICES ASSUME ClimbOK, handed # None
               PROVE  Climb(handed, ByIndex) = [index |-> 0, node |-> handed.root]
    BY DEF ProofIsRight
  <2>1. Len(handed.proof) \in Nat
    BY DEF ClimbOK
  <2>2. PICK at : /\ Climbs(at, Len(handed.proof), handed.proof,
                             handed.leafIndex, handed.leaf)
                  /\ at[Len(handed.proof)] = [index |-> 0, node |-> handed.root]
    BY DEF ClimbOK
  <2> QED BY <2>1, <2>2, ClimbIsUnique
<1> QED BY <1>2, ClimbInvariance, PTL

(* The step that hands a proof out hands out one that leads to the root.   *)
LEMMA HandsOut ==
    ASSUME IInv, ClimbOK, CollectProof, pc' = "idle"
    PROVE  /\ ~Updating /\ leaves # <<>> /\ asked \in Nat
           /\ handed'.leafIndex = asked /\ handed'.leaf = leaves[asked + 1]
           /\ handed'.root = getRoot
           /\ Climb(handed', ByIndex) = [index |-> 0, node |-> getRoot]
<1>1. /\ pc = "proof" /\ level = Depth
      /\ handed' = [root |-> getRoot, proof |-> proof, leafIndex |-> asked,
                    leaf |-> leaves[asked + 1]]
  BY DEF CollectProof
<1>2. /\ climbed = tree[Depth][currentIndex]
      /\ currentIndex \in Nat /\ currentIndex < 1
      /\ leaves # <<>> /\ ~Updating /\ asked \in Nat
  BY <1>1, WidthAssumption DEF IInv, OnPath, LoopOK, TypeOK, Updating
<1>3. currentIndex = 0 /\ climbed = getRoot
  BY <1>2 DEF getRoot, IInv, Rooted
<1>4. Len(proof) = level /\ level \in Nat
  BY <1>1, DepthAssumption DEF ClimbOK
<1>5. PICK at : /\ Climbs(at, level, proof, asked, leaves[asked + 1])
                /\ at[level] = [index |-> currentIndex, node |-> climbed]
  BY <1>1 DEF ClimbOK
<1> DEFINE p == [root |-> getRoot, proof |-> proof, leafIndex |-> asked,
                 leaf |-> leaves[asked + 1]]
<1>6. p.proof = proof /\ p.leafIndex = asked /\ p.leaf = leaves[asked + 1]
      /\ p.root = getRoot
  OBVIOUS
<1>7. handed' = p
  BY <1>1
<1> HIDE DEF p
<1>8. Climb(p, ByIndex) = at[level]
  BY <1>4, <1>5, <1>6, ClimbIsUnique
<1> QED BY <1>2, <1>3, <1>5, <1>6, <1>7, <1>8

-----------------------------------------------------------------------------
LEMMA Levels ==
    /\ 0 \in Level /\ Depth \in Level
    /\ \A l \in Level : l = 0 \/ l \in 1..Depth
    /\ \A k \in 0..Depth :
           k < Depth => k \in Level /\ k + 1 \in Level /\ k + 1 # 0 /\ (k + 1) - 1 = k
  BY DepthAssumption DEF Level

(* A tree whose leaves are the list and whose nodes are hashes of their    *)
(* children is what RootOf builds, so that its top node is the root.       *)
LEMMA RootOfTree ==
    ASSUME NEW t, NEW list,
           t = [l \in Level |-> t[l]],
           \A l \in Level : t[l] = [i \in Nodes(l) |-> t[l][i]],
           \A i \in Nodes(0) :
               t[0][i] = IF i < Len(list) THEN list[i + 1] ELSE zeroValues[0],
           \A l \in 1..Depth : \A i \in Nodes(l) :
               t[l][i] = Hash(t[l - 1][2 * i], t[l - 1][2 * i + 1])
    PROVE  Commitment!RootOf(list) = t[Depth][0]
<1> DEFINE Layer(f, l) ==
               [i \in Nodes(l) |->
                   IF l = 0 THEN IF i < Len(list) THEN list[i + 1] ELSE zeroValues[0]
                   ELSE Hash(f[l - 1][2 * i], f[l - 1][2 * i + 1])]
           Layered(f) == f = [l \in Level |-> Layer(f, l)]
           c == CHOOSE f : Layered(f)
           G == {l \in 0..Depth : c[l] = t[l]}
<1>1. Layered(t)
  <2>1. ASSUME NEW l \in Level PROVE t[l] = Layer(t, l)
    <3>1. CASE l = 0
      BY <3>1
    <3>2. CASE l # 0
      <4>1. l \in 1..Depth
        BY <3>2, Levels
      <4> QED BY <3>2, <4>1
    <3> QED BY <3>1, <3>2
  <2> HIDE DEF Layer
  <2> QED BY <2>1
<1>2. Layered(c)
  <2> HIDE DEF Layered
  <2> QED BY <1>1
<1>3. Commitment!RootOf(list) = c[Depth][0]
  BY DEF Commitment!RootOf, Commitment!Layers, Level, Nodes
<1> HIDE DEF c
<1>4. 0 \in G
  <2>1. 0 \in Level
    BY Levels
  <2>2. c[0] = Layer(c, 0) /\ t[0] = Layer(t, 0)
    <3> HIDE DEF Layer
    <3> QED BY <1>1, <1>2, <2>1
  <2> QED BY <2>1, <2>2 DEF Level
<1>5. ASSUME NEW k \in 0..Depth, k < Depth, k \in G PROVE k + 1 \in G
  <2>1. k + 1 \in Level /\ k + 1 # 0 /\ (k + 1) - 1 = k
    BY <1>5, Levels
  <2>2. c[k + 1] = Layer(c, k + 1) /\ t[k + 1] = Layer(t, k + 1)
    <3> HIDE DEF Layer
    <3> QED BY <1>1, <1>2, <2>1
  <2>3. c[k] = t[k]
    BY <1>5
  <2>4. Layer(c, k + 1) = Layer(t, k + 1)
    BY <2>1, <2>3
  <2> HIDE DEF Layer
  <2> QED BY <2>1, <2>2, <2>4 DEF Level
<1>6. Depth \in G
  <2> HIDE DEF G
  <2> QED BY <1>4, <1>5, UpToInduction, DepthAssumption
<1> QED BY <1>3, <1>6

(* The root of a consistent tree commits to its leaves.                    *)
LEMMA RootCommits ==
    ASSUME IInv, ~Updating, leaves # <<>>
    PROVE  Commitment!RootOf(leaves) = getRoot
<1>1. 0 \in DOMAIN tree[Depth] /\ Depth \in Level /\ Depth \in 1..Depth
  BY DepthAssumption DEF IInv, Rooted, Level
<1>2. ASSUME NEW l \in Level PROVE DOMAIN tree[l] = Nodes(l)
  <2>1. CASE l = Depth
    <3>1. Nodes(l) = {0}
      BY <2>1, WidthAssumption DEF Nodes
    <3>2. DOMAIN tree[l] \subseteq Nodes(l)
      BY Domains DEF IInv, TypeOK
    <3> QED BY <1>1, <2>1, <3>1, <3>2
  <2>2. CASE l # Depth
    BY <2>2, Domains DEF IInv, TypeOK
  <2> QED BY <2>1, <2>2
<1>3. tree = [l \in Level |-> tree[l]]
      /\ \A l \in Level : tree[l] = [i \in Nodes(l) |-> tree[l][i]]
  BY <1>2 DEF IInv, TypeOK, Shape
<1>4. \A i \in Nodes(0) :
        tree[0][i] = IF i < Len(leaves) THEN leaves[i + 1] ELSE zeroValues[0]
  BY DEF IInv, Consistent, LeavesInPlace
<1>5. ASSUME NEW l \in 1..Depth, NEW i \in Nodes(l)
      PROVE  tree[l][i] = Hash(tree[l - 1][2 * i], tree[l - 1][2 * i + 1])
  <2>1. l \in Level
    BY DEF Level
  <2> QED BY <1>2, <2>1 DEF IInv, Consistent, PathOnly, IsHash
<1>6. Commitment!RootOf(leaves) = tree[Depth][0]
  BY <1>3, <1>4, <1>5, RootOfTree
<1> QED BY <1>1, <1>6 DEF getRoot

LEMMA AllButLast ==
    ASSUME NEW S, NEW s \in Seq(S), s # <<>>
    PROVE  /\ Len(SubSeq(s, 1, Len(s) - 1)) = Len(s) - 1
           /\ s = Append(SubSeq(s, 1, Len(s) - 1), s[Len(s)])
<1> DEFINE n == Len(s)
           f == SubSeq(s, 1, n - 1)
<1>1. n \in Nat \ {0} /\ (\A i \in 1..n : s[i] \in S)
  OBVIOUS
<1>2. f \in Seq(S) /\ Len(f) = n - 1 /\ (\A i \in 1..(n - 1) : f[i] = s[i])
  <2>1. 1 \in Int /\ n - 1 \in Int /\ (\A i \in 1..(n - 1) : s[i] \in S)
    BY <1>1
  <2> HIDE DEF n
  <2>2. /\ f \in Seq(S) /\ Len(f) = IF 1 <= n - 1 THEN (n - 1) - 1 + 1 ELSE 0
        /\ \A i \in 1..((n - 1) - 1 + 1) : f[i] = s[1 + i - 1]
    BY <2>1, SubSeqProperties
  <2> HIDE DEF f
  <2> QED BY <1>1, <2>2
<1> HIDE DEF f
<1>3. Append(f, s[n]) \in Seq(S) /\ Len(Append(f, s[n])) = n
  BY <1>1, <1>2
<1>4. ASSUME NEW i \in 1..n PROVE Append(f, s[n])[i] = s[i]
  BY <1>1, <1>2
<1>5. Append(f, s[n]) = s
  BY <1>1, <1>3, <1>4
<1> QED BY <1>2, <1>5 DEF f

(* A step of the tree appends one leaf to what is committed to, or leaves  *)
(* it and the root alone.                                                  *)
LEMMA CommitStep ==
    ASSUME IInv, Next,
           ~Updating' /\ leaves' # <<>> => Commitment!RootOf(leaves') = getRoot'
    PROVE  Commitment!Next \/ UNCHANGED <<committed, getRoot>>
<1>1. ASSUME tree'[Depth] = tree[Depth] PROVE getRoot' = getRoot
  BY <1>1 DEF getRoot
<1>2. ASSUME NEW leaf \in Leaf, insertLeaf(leaf) PROVE UNCHANGED <<committed, getRoot>>
  <2>1. /\ ~Updating /\ Updating' /\ leaves' = Append(leaves, leaf) /\ leaves \in Seq(Leaf)
        /\ Set(0, Len(leaves), leaf)
    BY <1>2, DepthAssumption DEF insertLeaf, Updating, IInv, TypeOK
  <2>2. Len(leaves') = Len(leaves) + 1 /\ SubSeq(leaves', 1, Len(leaves)) = leaves
    BY <2>1
  <2>3. committed' = committed
    BY <2>1, <2>2 DEF committed
  <2>4. tree'[Depth] = tree[Depth]
    <3>1. 0 \in Level /\ Depth \in Level /\ Depth # 0 /\ Len(leaves) \in Nodes(0)
      BY <1>2, <2>1, DepthAssumption, WidthAssumption DEF Level, Nodes, insertLeaf
    <3> QED BY <2>1, <3>1, SetNode DEF IInv, TypeOK
  <2> QED BY <1>1, <2>3, <2>4
<1>3. CASE updateTree /\ Updating /\ level < Depth
  <2>1. /\ leaves' = leaves /\ Updating' /\ level \in 1..Depth /\ level # Depth
        /\ \E node : Set(level, parent(currentIndex), node)
    BY <1>3, DepthAssumption DEF updateTree, Up, Updating, IInv, TypeOK, LoopOK
  <2>2. PICK node : Set(level, parent(currentIndex), node)
    BY <2>1
  <2>3. parent(currentIndex) \in Nodes(level) /\ level \in Level /\ Depth \in Level
    <3>1. currentIndex \in Nodes(level - 1)
      BY <1>3, <2>1, Widths2 DEF IInv, LoopOK, TypeOK, Nodes
    <3> QED BY <2>1, <3>1, Family, Widths2, DepthAssumption DEF Level
  <2>4. tree'[Depth] = tree[Depth]
    BY <2>1, <2>2, <2>3, SetNode DEF IInv, TypeOK
  <2>5. committed' = committed
    BY <1>3, <2>1 DEF committed
  <2> QED BY <1>1, <2>4, <2>5
<1>4. CASE updateTree /\ Updating /\ level = Depth
  <2>1. leaves' = leaves /\ ~Updating' /\ leaves # <<>> /\ leaves \in Seq(Leaf)
        /\ Len(leaves) <= Width[0]
    BY <1>4, DepthAssumption DEF updateTree, Up, Updating, IInv, TypeOK, LoopOK
  <2> DEFINE n == Len(leaves)
  <2>2. n \in Nat /\ n # 0 /\ leaves[n] \in Leaf
    BY <2>1
  <2>3. committed = SubSeq(leaves, 1, n - 1) /\ committed' = leaves
    BY <1>4, <2>1 DEF committed
  <2>4. Len(committed) = n - 1 /\ leaves = Append(committed, leaves[n])
    BY <2>1, <2>3, AllButLast
  <2>5. Width[0] \in Nat
    BY WidthAssumption, DepthAssumption DEF Level
  <2>6. Commitment!Insert(leaves[n])
    <3>1. Len(committed) < Width[0]
      BY <2>1, <2>2, <2>4, <2>5
    <3>2. committed' = Append(committed, leaves[n])
      BY <2>3, <2>4
    <3>3. getRoot' = Commitment!RootOf(committed')
      BY <2>1, <2>3
    <3> QED BY <3>1, <3>2, <3>3 DEF Commitment!Insert
  <2> QED BY <2>2, <2>6 DEF Commitment!Next
<1>5. CASE updateTree /\ ~Updating
  BY <1>1, <1>5 DEF updateTree, Updating, committed
<1>6. ASSUME NEW index \in Nodes(0), getProof(index) PROVE UNCHANGED <<committed, getRoot>>
  BY <1>1, <1>6 DEF getProof, Updating, committed
<1>7. CASE CollectProof
  BY <1>1, <1>7 DEF CollectProof, Updating, committed
<1>8. Updating => level < Depth \/ level = Depth
  BY DepthAssumption DEF Updating, IInv, TypeOK
<1> QED BY <1>2, <1>3, <1>4, <1>5, <1>6, <1>7, <1>8 DEF Next

(* The tree implements the commitment: after each insertion the root is    *)
(* the hash over the whole list, which only grows (proofs.ts 80-139).      *)
THEOREM TreeCommits == Spec => Commits
<1>1. Init => Commitment!Init
  <2> SUFFICES ASSUME Init PROVE Commitment!Init
    OBVIOUS
  <2>1. committed = <<>>
    BY DEF Init, Updating, committed
  <2>2. tree[Depth] = [i \in {} |-> zeroValues[Depth]]
    BY DepthAssumption DEF Init, EmptyTree, Level
  <2>3. getRoot = zeroValues[Depth - 1]
    BY <2>2 DEF getRoot
  <2> QED BY <2>1, <2>3 DEF Commitment!Init
<1> DEFINE RootOK == ~Updating /\ leaves # <<>> => Commitment!RootOf(leaves) = getRoot
<1>2. IInv => RootOK
  BY RootCommits
<1>3. IInv /\ RootOK' /\ [Next]_vars => [Commitment!Next]_<<committed, getRoot>>
  <2>1. ASSUME UNCHANGED vars PROVE UNCHANGED <<committed, getRoot>>
    BY <2>1 DEF vars, locals, committed, getRoot, Updating
  <2>2. ASSUME RootOK' PROVE ~Updating' /\ leaves' # <<>> => Commitment!RootOf(leaves') = getRoot'
    BY <2>2
  <2> HIDE DEF RootOK
  <2> QED BY <2>1, <2>2, CommitStep
<1> HIDE DEF RootOK
<1> QED BY <1>1, <1>2, <1>3, Invariance, PTL DEF Spec, Commits, Commitment!Spec

-----------------------------------------------------------------------------
(* A request is served by the loop that runs, for a leaf that names the    *)
(* wallet of the request.                                                  *)
RequestOK ==
    request # None =>
        /\ pc = "proof"
        /\ request.wallet \in Wallet
        /\ request.credential \in Credential
        /\ request.wallet \in Mentioned[leaves[asked + 1]]
        /\ \A i \in 1..asked : request.wallet \notin Mentioned[leaves[i]]

(* Every step of the generator is one of its tree, or none.                *)
LEMMA StepOfTree == GeneratorNext => [Next]_vars
  <1> SUFFICES ASSUME GeneratorNext PROVE [Next]_vars
    OBVIOUS
  <1>1. ASSUME NEW entry \in Identity, addIdentity(entry) PROVE Next
    <2>1. hashIdentity[entry] \in Leaf
      BY IdentityAssumption
    <2> QED
      BY <1>1, <2>1 DEF addIdentity, Next
  <1>2. CASE TreeStep
    BY <1>2 DEF TreeStep, Next
  <1>3. ASSUME NEW w \in Wallet, Rejects(w) PROVE UNCHANGED vars
    BY <1>3 DEF Rejects
  <1>4. ASSUME NEW w \in Wallet, NEW c \in Credential, generateProof(w, c) PROVE Next
    BY <1>4 DEF generateProof, findLeafByWallet, Naming, Next
  <1>5. CASE Collect
    BY <1>5 DEF Collect, Next
  <1> QED
    BY <1>1, <1>2, <1>3, <1>4, <1>5 DEF GeneratorNext

(* The generator implements the tree: all that is proved of the tree holds *)
(* however addIdentity, generateProof and the tree that getMerkleTree      *)
(* hands out are used.                                                     *)
THEOREM ImplementsTree == GeneratorSpec => Spec
  <1>1. GeneratorInit => Init
    BY DEF GeneratorInit
  <1>2. [GeneratorNext]_<<vars, genVars>> => [Next]_vars
    BY StepOfTree
  <1> QED
    BY <1>1, <1>2, PTL DEF GeneratorSpec, Spec

(* In particular no use of the generator leaves a stale node, hands out a  *)
(* proof that is wrong, or makes the root forget a leaf (proofs.ts         *)
(* 263-316).                                                               *)
THEOREM TreeOfGenerator ==
    GeneratorSpec => []Consistent /\ []ProofIsRight /\ Commits
  BY ImplementsTree, NoStaleNode, HandedProofsAreRight, TreeCommits, PTL

-----------------------------------------------------------------------------
LEMMA WidthZero == Width[0] \in Nat
  BY WidthAssumption, DepthAssumption DEF Level

LEMMA RequestStep ==
    ASSUME RequestOK, [GeneratorNext]_<<vars, genVars>>
    PROVE  RequestOK'
  <1>1. CASE UNCHANGED <<vars, genVars>>
    BY <1>1 DEF RequestOK, vars, locals, genVars
  <1>2. ASSUME NEW entry \in Identity, addIdentity(entry) PROVE RequestOK'
    BY <1>2 DEF addIdentity, insertLeaf, RequestOK
  <1>3. CASE TreeStep
    <2>1. ASSUME NEW leaf \in Leaf, insertLeaf(leaf) PROVE RequestOK'
      BY <1>3, <2>1 DEF TreeStep, insertLeaf, RequestOK
    <2>2. CASE updateTree
      BY <1>3, <2>2 DEF TreeStep, updateTree, RequestOK
    <2>3. ASSUME NEW index \in Nodes(0), getProof(index) PROVE RequestOK'
      BY <1>3, <2>3 DEF TreeStep, getProof, RequestOK
    <2> QED
      BY <1>3, <2>1, <2>2, <2>3 DEF TreeStep
  <1>4. ASSUME NEW w \in Wallet, Rejects(w) PROVE RequestOK'
    BY <1>4 DEF Rejects, vars, locals, RequestOK
  <1>5. ASSUME NEW w \in Wallet, NEW c \in Credential, generateProof(w, c) PROVE RequestOK'
    <2>1. PICK index \in findLeafByWallet(w) : getProof(index)
      BY <1>5 DEF generateProof
    <2>2. /\ pc' = "proof" /\ asked' = index /\ leaves' = leaves
          /\ w \in Mentioned[leaves[index + 1]]
      BY <2>1 DEF getProof, findLeafByWallet, Naming
    <2>3. ASSUME NEW i \in 1..index PROVE w \notin Mentioned[leaves[i]]
      <3>1. index \in Nodes(0) /\ index < Len(leaves) /\ \A j \in Naming(w) : index <= j
        BY <2>1 DEF findLeafByWallet, Naming
      <3>2. /\ i - 1 \in Nodes(0) /\ i - 1 < Len(leaves) /\ (i - 1) + 1 = i
            /\ ~ (index <= i - 1)
        BY <3>1, WidthZero DEF Nodes
      <3> QED
        BY <3>1, <3>2 DEF Naming
    <2>4. request' = [wallet |-> w, credential |-> c]
      BY <1>5 DEF generateProof
    <2> QED
      BY <2>2, <2>3, <2>4 DEF RequestOK
  <1>6. CASE Collect
    BY <1>6 DEF Collect, CollectProof, genVars, RequestOK
  <1> QED
    BY <1>1, <1>2, <1>3, <1>4, <1>5, <1>6 DEF GeneratorNext

LEMMA RequestInvariance == GeneratorSpec => []RequestOK
  <1>1. GeneratorInit => RequestOK
    BY DEF GeneratorInit, RequestOK
  <1> QED
    BY <1>1, RequestStep, PTL DEF GeneratorSpec

(* What the generator makes of a proof passes its own check and the        *)
(* client's.  But submitProof (sdk.ts 304-312) takes the second signal for *)
(* the key of a wallet, and the generator put the nullifier there, which   *)
(* is none: no proof that it makes can be submitted.                       *)
THEOREM MockProof ==
    ASSUME NEW p, NEW w \in Wallet, NEW c \in Credential, NEW tier
    PROVE  LET made == createMockProof(p, generateNullifier(w, c), tier)
           IN  /\ made.merkleRoot = p.root
               /\ basicVerify(made)
               /\ registerCompliance(made) = "signature"
               /\ submitProof(made) = "thrown"
  <1> DEFINE n == generateNullifier(w, c)
             made == createMockProof(p, n, tier)
  <1>1. n \notin PublicKey
    BY IdentityAssumption DEF generateNullifier
  <1>2. /\ made.merkleRoot = p.root /\ made.nullifier = n
        /\ made.publicSignals = <<p.root, n, tier>>
    BY DEF createMockProof
  <1> HIDE DEF made, n
  <1>3. /\ Len(made.publicSignals) = 3
        /\ made.publicSignals[1] = p.root
        /\ made.publicSignals[2] = n
        /\ {1, 2} \subseteq DOMAIN made.publicSignals
    BY <1>2
  <1>4. {p.root, n} \subseteq Signals(made)
    BY <1>3 DEF Signals
  <1> QED
    BY <1>1, <1>2, <1>3, <1>4
       DEF basicVerify, verifyProofLocally, registerCompliance, submitProof, made, n

(* A proof that is made for a wallet names the root that commits to all    *)
(* leaves, is of the first leaf that names the wallet, and comes with the  *)
(* siblings that lead from there to the root (proofs.ts 296-330).          *)
THEOREM GeneratedProofsServe == GeneratorSpec => ProofServes
  <1> DEFINE Serves ==
          proofData = None /\ proofData' # None =>
              /\ proofData'.merkleRoot = Commitment!RootOf(leaves)
              /\ Climb(handed', ByIndex).node = proofData'.merkleRoot
              /\ request.wallet \in Mentioned[handed'.leaf]
              /\ handed'.leaf = leaves[handed'.leafIndex + 1]
              /\ \A i \in 1..handed'.leafIndex :
                    request.wallet \notin Mentioned[leaves[i]]
  <1>1. ASSUME IInv, ClimbOK, RequestOK, [GeneratorNext]_<<vars, genVars>>
        PROVE  [Serves]_genVars
    <2> SUFFICES ASSUME proofData = None, proofData' # None PROVE Serves
      OBVIOUS
    <2>1. Collect
      BY <1>1 DEF GeneratorNext, addIdentity, TreeStep, Rejects, generateProof, genVars
    <2>2. /\ CollectProof /\ pc' = "idle" /\ request # None
          /\ proofData' = createMockProof(handed',
                              generateNullifier(request.wallet, request.credential),
                              levelOf(request.credential))
      BY <2>1 DEF Collect, genVars
    <2>3. /\ ~Updating /\ leaves # <<>>
          /\ handed'.leafIndex = asked /\ handed'.leaf = leaves[asked + 1]
          /\ handed'.root = getRoot
          /\ Climb(handed', ByIndex) = [index |-> 0, node |-> getRoot]
      BY <1>1, <2>2, HandsOut
    <2>4. /\ request.wallet \in Mentioned[leaves[asked + 1]]
          /\ \A i \in 1..asked : request.wallet \notin Mentioned[leaves[i]]
      BY <1>1, <2>2 DEF RequestOK
    <2>5. Commitment!RootOf(leaves) = getRoot
      BY <1>1, <2>3, RootCommits
    <2>6. proofData'.merkleRoot = getRoot
      BY <2>2, <2>3 DEF createMockProof
    <2> QED
      BY <2>3, <2>4, <2>5, <2>6
  <1> HIDE DEF Serves
  <1>2. GeneratorSpec => [][Serves]_genVars
    BY <1>1, ImplementsTree, Invariance, ClimbInvariance, RequestInvariance, PTL
       DEF GeneratorSpec
  <1> QED
    BY <1>2, PTL DEF ProofServes, Serves

=============================================================================
