--------------------------- MODULE LeafCommitment ---------------------------
(***************************************************************************)
(* What the Merkle tree of proofs.ts promises: a list of leaves that only  *)
(* grows, and a root that commits to the list, hashed from the leaves and  *)
(* from zero leaves up to the width of the tree.  An empty list has no     *)
(* root; what getRoot answers then is the constant Empty.                  *)
(***************************************************************************)
EXTENDS Integers, Sequences

CONSTANTS Depth, Leaf, Hash(_, _),
          Width,            \* level -> number of nodes
          ZeroLeaf, Empty

VARIABLES leaves, root

(* The nodes over a list, level by level.                                  *)
Layers(list) ==
    LET layer[l \in 0..Depth] ==
            [i \in 0..(Width[l] - 1) |->
                IF l = 0 THEN IF i < Len(list) THEN list[i + 1] ELSE ZeroLeaf
                ELSE Hash(layer[l - 1][2 * i], layer[l - 1][2 * i + 1])]
    IN  layer

RootOf(list) == Layers(list)[Depth][0]

Init == leaves = <<>> /\ root = Empty

Insert(leaf) ==
    /\ Len(leaves) < Width[0]
    /\ leaves' = Append(leaves, leaf)
    /\ root' = RootOf(leaves')

Next == \E leaf \in Leaf : Insert(leaf)

Spec == Init /\ [][Next]_<<leaves, root>>

=============================================================================
