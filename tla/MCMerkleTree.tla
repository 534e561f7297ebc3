---------------------------- MODULE MCMerkleTree ----------------------------
(***************************************************************************)
(* A small MerkleTree for TLC.  Hash is free: a node is the pair of its    *)
(* children, so that two nodes are equal only if all below them is.        *)
(***************************************************************************)
EXTENDS ProofGenerator, TLC

Pair(l, r) == <<l, r>>

Widths == [l \in 0..Depth |-> 2 ^ (Depth - l)]

CONSTANTS ZeroLeaf, a, b, w1, w2

(* a is the hash of an identity; b was inserted as it is and names w1.     *)
MCHash == [i \in Identity |-> a]
MCMentioned == a :> {} @@ b :> {w1}
MCCredential == {[id |-> "credential", complianceLevel |-> None]}

Zeros[l \in 0..(Depth - 1)] ==
    IF l = 0 THEN ZeroLeaf ELSE Pair(Zeros[l - 1], Zeros[l - 1])

(* verifyProof goes by the parity of the level instead of the index.       *)
ByLevel(l, i) == l % 2 = 0

verifyProof(p) == Climb(p, ByLevel).node = p.root

(* "should verify merkle proof": the tree's own proofs verify.             *)
OwnProofsVerify == handed # None => verifyProof(handed)

=============================================================================
