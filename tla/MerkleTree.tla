----------------------------- MODULE MerkleTree -----------------------------
(***************************************************************************)
(* The Merkle tree of verified identities (proofs.ts): leaves are appended *)
(* and only the path above the new leaf is hashed again; a proof is read   *)
(* off the tree level by level.                                            *)
(*                                                                         *)
(* One turn of a loop is one step.  The class is synchronous, so that no   *)
(* call begins before the last has returned; what could go wrong is in the *)
(* indices, the order of the two halves, and in what a path leaves behind. *)
(*                                                                         *)
(* Hash(l, r) is the hash of the concatenation of two nodes; nothing is    *)
(* assumed of it.  A node that is null is absent from its level.           *)
(***************************************************************************)
EXTENDS Integers, Sequences

CONSTANTS
    Depth,
    Leaf,           \* hashes of identity entries
    Hash(_, _),
    Width,          \* level -> number of nodes, Math.pow(2, depth - level)
    zeroValues,     \* level -> the node above nothing but absent leaves
    None

Level == 0..Depth

ASSUME DepthAssumption == Depth \in Nat \ {0}

ASSUME WidthAssumption ==
    /\ Width \in [Level -> Nat \ {0}]
    /\ Width[Depth] = 1
    /\ \A l \in 1..Depth : Width[l - 1] = 2 * Width[l]

(* generateZeroValues fills the levels below the root, not the root's.     *)
ASSUME ZeroAssumption ==
    \A l \in 1..(Depth - 1) :
        zeroValues[l] = Hash(zeroValues[l - 1], zeroValues[l - 1])

VARIABLES
    leaves,
    tree,
    pc,             \* "idle", or the loop that is running
    level,          \* the locals of the loops
    currentIndex,
    currentValue,   \* updateTree
    proof,          \* getProof
    asked,          \* its argument
    climbed,        \* history: where `proof` leads by the bits of the index
    handed          \* the last proof that was handed out

locals == <<level, currentIndex, currentValue, proof, asked, climbed>>
vars   == <<leaves, tree, pc, locals, handed>>

Nodes(l) == 0..(Width[l] - 1)

(* buildEmptyTree: zero values on every level but the root's.              *)
EmptyTree ==
    [l \in Level |-> [i \in (IF l = Depth THEN {} ELSE Nodes(l)) |->
                         zeroValues[l]]]

Init ==
    /\ leaves = <<>>
    /\ tree = EmptyTree
    /\ pc = "idle"
    /\ level = 0
    /\ currentIndex = 0
    /\ currentValue = None
    /\ proof = <<>>
    /\ asked = 0
    /\ climbed = None
    /\ handed = None

-----------------------------------------------------------------------------
Set(l, i, value) ==
    tree' = [tree EXCEPT ![l] = [j \in DOMAIN tree[l] \cup {i} |->
                                    IF j = i THEN value ELSE tree[l][j]]]

(* A mutant of Node: the sibling is taken for absent.                      *)
ZeroNode(l, i) == zeroValues[l]

Node(l, i) == IF i \in DOMAIN tree[l] THEN tree[l][i] ELSE zeroValues[l]

siblingIndex(i) == IF i % 2 = 0 THEN i + 1 ELSE i - 1

(* A mutant of Combine: the node is always put on the left.                *)
LeftFirst(i, node, sibling) == Hash(node, sibling)

Combine(i, node, sibling) ==
    IF i % 2 = 0 THEN Hash(node, sibling) ELSE Hash(sibling, node)

parent(i) == i \div 2

(* addIdentity, insertLeaf: a full tree throws.                            *)
insertLeaf(leaf) ==
    /\ pc = "idle"
    /\ Len(leaves) < Width[0]
    /\ leaves' = Append(leaves, leaf)
    /\ Set(0, Len(leaves), leaf)
    /\ pc' = "update"
    /\ level' = 1
    /\ currentIndex' = Len(leaves)
    /\ currentValue' = leaf
    /\ UNCHANGED <<proof, asked, climbed, handed>>

Up(node) ==
    /\ Set(level, parent(currentIndex), node)
    /\ currentValue' = node
    /\ currentIndex' = parent(currentIndex)
    /\ level' = level + 1

updateTree ==
    /\ pc = "update"
    /\ \/ /\ level <= Depth
          /\ Up(Combine(currentIndex, currentValue,
                        Node(level - 1, siblingIndex(currentIndex))))
          /\ UNCHANGED pc
       \/ /\ level > Depth
          /\ pc' = "idle"
          /\ UNCHANGED <<tree, level, currentIndex, currentValue>>
    /\ UNCHANGED <<leaves, proof, asked, climbed, handed>>

-----------------------------------------------------------------------------
getRoot == IF 0 \in DOMAIN tree[Depth] THEN tree[Depth][0]
           ELSE zeroValues[Depth - 1]

(* An index of no leaf throws.                                             *)
getProof(index) ==
    /\ pc = "idle"
    /\ index < Len(leaves)
    /\ pc' = "proof"
    /\ level' = 0
    /\ currentIndex' = index
    /\ asked' = index
    /\ proof' = <<>>
    /\ climbed' = leaves[index + 1]
    /\ UNCHANGED <<leaves, tree, currentValue, handed>>

(* A mutant of Push: unshift in place of push.                             *)
PushInFront(sibling) ==
    /\ proof' = <<sibling>> \o proof
    /\ climbed' = Combine(currentIndex, climbed, sibling)

Push(sibling) ==
    /\ proof' = Append(proof, sibling)
    /\ climbed' = Combine(currentIndex, climbed, sibling)

CollectProof ==
    /\ pc = "proof"
    /\ \/ /\ level < Depth
          /\ Push(Node(level, siblingIndex(currentIndex)))
          /\ currentIndex' = parent(currentIndex)
          /\ level' = level + 1
          /\ UNCHANGED <<pc, handed>>
       \/ /\ level = Depth
          /\ pc' = "idle"
          /\ handed' = [root |-> getRoot, proof |-> proof, leafIndex |-> asked,
                        leaf |-> leaves[asked + 1]]
          /\ UNCHANGED <<proof, climbed, currentIndex, level>>
    /\ UNCHANGED <<leaves, tree, currentValue, asked>>

Next ==
    \/ \E leaf \in Leaf : insertLeaf(leaf)
    \/ updateTree
    \/ \E index \in Nodes(0) : getProof(index)
    \/ CollectProof

Spec == Init /\ [][Next]_vars

-----------------------------------------------------------------------------
Shape ==
    /\ tree = [l \in Level |-> tree[l]]
    /\ \A l \in Level :
          /\ tree[l] = [i \in DOMAIN tree[l] |-> tree[l][i]]
          /\ DOMAIN tree[l] \subseteq Nodes(l)
          /\ l # Depth => DOMAIN tree[l] = Nodes(l)

TypeOK ==
    /\ leaves \in Seq(Leaf)
    /\ Len(leaves) <= Width[0]
    /\ Shape
    /\ pc \in {"idle", "update", "proof"}
    /\ level \in 0..(Depth + 1)
    /\ currentIndex \in Nat
    /\ asked \in Nat

(* A loop is on a node of the level below the one it is about to do.       *)
Updating == pc = "update" /\ level <= Depth

LoopOK ==
    /\ pc = "update" => level >= 1 /\ leaves # <<>>
    /\ Updating =>
          /\ currentIndex < Width[level - 1]
          /\ currentValue = tree[level - 1][currentIndex]
    /\ pc = "proof" =>
          /\ level <= Depth
          /\ currentIndex < Width[level]
          /\ asked < Len(leaves)

(* The leaves are where they were inserted, and every node is the hash of  *)
(* its two children: no insertion leaves a stale node behind.  During one  *)
(* the node that is to be done next is the only exception.                 *)
LeavesInPlace ==
    \A i \in Nodes(0) :
        tree[0][i] = IF i < Len(leaves) THEN leaves[i + 1] ELSE zeroValues[0]

IsHash(l, i) == tree[l][i] = Hash(tree[l - 1][2 * i], tree[l - 1][2 * i + 1])

PathOnly ==
    \A l \in 1..Depth : \A i \in DOMAIN tree[l] :
        IsHash(l, i) \/ (Updating /\ l = level /\ i = parent(currentIndex))

Consistent == LeavesInPlace /\ PathOnly

(* Once there is a leaf and the insertion is over, there is a root.        *)
Rooted == leaves # <<>> /\ ~(Updating) => 0 \in DOMAIN tree[Depth]

(* What a proof says so far leads from its leaf to the node the loop has   *)
(* reached; so in the end it leads to the root it is handed out with.      *)
OnPath == pc = "proof" => level \in Level /\ climbed = tree[level][currentIndex]

ProofReachesRoot == pc = "proof" /\ level = Depth => climbed = getRoot

(* Where a proof leads from its leaf, when the node is taken for the left  *)
(* half on the levels where Left holds of it.                              *)
Climb(p, Left(_, _)) ==
    LET at[l \in 0..Len(p.proof)] ==
            IF l = 0
            THEN [index |-> p.leafIndex, node |-> p.leaf]
            ELSE [index |-> parent(at[l - 1].index),
                  node  |-> IF Left(l - 1, at[l - 1].index)
                            THEN Hash(at[l - 1].node, p.proof[l])
                            ELSE Hash(p.proof[l], at[l - 1].node)]
    IN  at[Len(p.proof)]

ByIndex(l, i) == i % 2 = 0

(* A proof that was handed out is right: by the bits of its leaf's index   *)
(* it leads to the root it names, also after more leaves came (proofs.ts   *)
(* 146-169).                                                               *)
ProofIsRight ==
    handed # None => Climb(handed, ByIndex) = [index |-> 0, node |-> handed.root]

(* The tree implements the commitment: while a leaf is on its way up, the  *)
(* list does not have it yet and the root is the one before.               *)
committed == IF Updating THEN SubSeq(leaves, 1, Len(leaves) - 1) ELSE leaves

Commitment == INSTANCE LeafCommitment WITH
    leaves   <- committed,
    root     <- getRoot,
    ZeroLeaf <- zeroValues[0],
    Empty    <- zeroValues[Depth - 1]

(* Each inserted leaf, in order and for ever, is what the root commits to  *)
(* (proofs.ts 80-139).                                                     *)
Commits == Commitment!Spec

(* The inductive invariant of the proofs.                                  *)
IInv == TypeOK /\ LoopOK /\ Consistent /\ Rooted /\ OnPath

=============================================================================
