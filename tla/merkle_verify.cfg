\* The setting of merkle_tree, with one kind of leaf.
SPECIFICATION GeneratorSpec
CONSTANTS
    a = a
    b = b
    ZeroLeaf = ZeroLeaf
    None = None
    w1 = w1
    w2 = w2
    Wallet = {w1, w2}
    Identity = {alice}
    hashIdentity <- MCHash
    Mentioned <- MCMentioned
    Credential <- MCCredential
    PublicKey = {w1, w2}
    Basic = basic
    Depth = 3
    Leaf = {a, b}
    Hash <- Pair
    Width <- Widths
    zeroValues <- Zeros
INVARIANT OwnProofsVerify
