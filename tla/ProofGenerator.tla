---------------------------- MODULE ProofGenerator ----------------------------
(***************************************************************************)
(* The generator of proofs (proofs.ts) over its Merkle tree, and the       *)
(* client of the on-chain program (program.ts) that is given the proofs.   *)
(*                                                                         *)
(* addIdentity inserts 16 hexadecimal digits, in which findLeafByWallet    *)
(* then looks for an address of at least 32 characters.  Only a leaf that  *)
(* was inserted as it is, by way of getMerkleTree, can name a wallet.      *)
(***************************************************************************)
EXTENDS MerkleTree

CONSTANTS
    Wallet,
    Identity,
    hashIdentity,   \* identity entry -> leaf; 32 bits, so that two may agree
    Mentioned,      \* leaf -> the wallets whose address is part of it
    Credential,     \* each with an id and a compliance level, or None
    PublicKey,      \* strings that are the key of an account
    Basic

ASSUME IdentityAssumption ==
    /\ hashIdentity \in [Identity -> Leaf]
    /\ Mentioned \in [Leaf -> SUBSET Wallet]
    /\ \A i \in Identity : Mentioned[hashIdentity[i]] = {}
    /\ \A w \in Wallet, c \in Credential : <<w, c.id>> \notin PublicKey

VARIABLES
    request,        \* the generateProof under way
    proofData       \* what the last call returned, if that was a proof

genVars == <<request, proofData>>

GeneratorInit ==
    /\ Init
    /\ request = None
    /\ proofData = None

(* Sixteen digits that begin with zeros, which are no digits of a key.     *)
generateNullifier(wallet, credential) == <<wallet, credential.id>>

levelOf(credential) ==
    IF credential.complianceLevel = None THEN Basic ELSE credential.complianceLevel

Element(p, i) == IF i \in DOMAIN p.proof THEN p.proof[i] ELSE "0"

createMockProof(p, nullifier, tier) ==
    [pi_a |-> <<p.root, nullifier>>,
     pi_b |-> <<<<Element(p, 1), Element(p, 2)>>, <<Element(p, 3), Element(p, 4)>>>>,
     pi_c |-> <<nullifier, p.root>>,
     publicSignals |-> <<p.root, nullifier, tier>>,
     merkleRoot |-> p.root, nullifier |-> nullifier, complianceLevel |-> tier]

(* A mutant of Naming: the index counts from one.                          *)
OneTooMany(wallet) == {i \in Nodes(0) : i \in DOMAIN leaves /\ wallet \in Mentioned[leaves[i]]}

Naming(wallet) == {i \in Nodes(0) : i < Len(leaves) /\ wallet \in Mentioned[leaves[i + 1]]}

(* The first leaf in which the address occurs, if there is one.            *)
findLeafByWallet(wallet) == {i \in Naming(wallet) : \A j \in Naming(wallet) : i <= j}

addIdentity(entry) ==
    /\ insertLeaf(hashIdentity[entry])
    /\ proofData' = None
    /\ UNCHANGED request

(* getMerkleTree hands out the tree itself.                                *)
TreeStep ==
    /\ \/ \E leaf \in Leaf : insertLeaf(leaf)
       \/ updateTree
       \/ \E index \in Nodes(0) : getProof(index)
    /\ proofData' = None
    /\ UNCHANGED request

(* A wallet in no leaf: the promise is rejected.                           *)
Rejects(wallet) ==
    /\ pc = "idle"
    /\ findLeafByWallet(wallet) = {}
    /\ proofData' = None
    /\ UNCHANGED <<vars, request>>

generateProof(wallet, credential) ==
    /\ \E leafIndex \in findLeafByWallet(wallet) : getProof(leafIndex)
    /\ request' = [wallet |-> wallet, credential |-> credential]
    /\ proofData' = None

(* The loop of getProof, and what follows it in generateProof.             *)
Collect ==
    /\ CollectProof
    /\ IF pc' = "idle" /\ request # None
       THEN /\ proofData' = createMockProof(handed',
                                generateNullifier(request.wallet, request.credential),
                                levelOf(request.credential))
            /\ request' = None
       ELSE UNCHANGED genVars

GeneratorNext ==
    \/ \E entry \in Identity : addIdentity(entry)
    \/ TreeStep
    \/ \E w \in Wallet : Rejects(w)
    \/ \E w \in Wallet, c \in Credential : generateProof(w, c)
    \/ Collect

GeneratorSpec == GeneratorInit /\ [][GeneratorNext]_<<vars, genVars>>

-----------------------------------------------------------------------------
Signals(p) == {p.publicSignals[i] : i \in DOMAIN p.publicSignals}

(* verifyProof of the generator does the same with and without parameters  *)
(* of a circuit.                                                           *)
basicVerify(p) == Len(p.publicSignals) >= 2 /\ {p.merkleRoot, p.nullifier} \subseteq Signals(p)

(* The client's own copy of that check.                                    *)
verifyProofLocally(p) ==
    Len(p.publicSignals) >= 2 /\ p.merkleRoot \in Signals(p) /\ p.nullifier \in Signals(p)

registerCompliance(p) == IF verifyProofLocally(p) THEN "signature" ELSE "thrown"

(* The second signal is taken for the key of a wallet.                     *)
submitProof(p) == IF p.publicSignals[2] \in PublicKey THEN "signature" ELSE "thrown"

(* When the generator makes a proof for a wallet, whatever was inserted    *)
(* and asked before: the root it names commits to every leaf up to now,    *)
(* the siblings that were handed out with it lead from its leaf there, and *)
(* the leaf is the first that names the wallet, so that it is the same     *)
(* leaf however often a proof is asked for (proofs.ts 296-330).            *)
ProofServes ==
    [][proofData = None /\ proofData' # None =>
          /\ proofData'.merkleRoot = Commitment!RootOf(leaves)
          /\ Climb(handed', ByIndex).node = proofData'.merkleRoot
          /\ request.wallet \in Mentioned[handed'.leaf]
          /\ handed'.leaf = leaves[handed'.leafIndex + 1]
          /\ \A i \in 1..handed'.leafIndex :
                request.wallet \notin Mentioned[leaves[i]]]_genVars

=============================================================================
