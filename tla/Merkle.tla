------------------------------- MODULE Merkle -------------------------------
(***************************************************************************)
(* The Merkle trees of MerkleService: leaves are hashed once more, a pair  *)
(* of nodes is sorted before it is hashed, an odd node at the end of a     *)
(* layer moves up as it is.  Hashes are terms, so that two of them are     *)
(* equal only if what was hashed is equal.                                 *)
(***************************************************************************)
EXTENDS Integers, Sequences, SequencesExt

LeafHash(h) == <<"leaf", h>>
Parent(a, b) == <<"node", {a, b}>>

Above(layer) ==
    [i \in 1 .. (Len(layer) + 1) \div 2 |->
        IF 2 * i <= Len(layer) THEN Parent(layer[2 * i - 1], layer[2 * i]) ELSE layer[2 * i - 1]]

\* All layers, the leaves first, of a sequence of hashes that is not empty: up to the first that
\* has one node.
Layers(leaves) ==
    LET top == CHOOSE k \in 0 .. Len(leaves) :
                   2 ^ k >= Len(leaves) /\ \A j \in 0 .. k - 1 : 2 ^ j < Len(leaves)
        layer[k \in 0 .. top] ==
            IF k = 0 THEN [i \in DOMAIN leaves |-> LeafHash(leaves[i])] ELSE Above(layer[k - 1])
    IN  [k \in 1 .. top + 1 |-> layer[k - 1]]

RootIn(layers) == layers[Len(layers)][1]
Root(leaves) == RootIn(Layers(leaves))

Place(i, k) == ((i - 1) \div 2 ^ (k - 1)) + 1  \* where the i-th leaf is in layer k
Buddy(i) == IF i % 2 = 1 THEN i + 1 ELSE i - 1

\* The siblings from the i-th leaf to the root; a layer in which the node moves up has none.
SiblingsOf(layers, i) ==
    LET step(k) == LET p == Place(i, k)
                   IN  IF Buddy(p) \in DOMAIN layers[k]
                       THEN <<[data |-> layers[k][Buddy(p)], right |-> p % 2 = 1]>>
                       ELSE <<>>
    IN  FlattenSeq([k \in 1 .. Len(layers) - 1 |-> step(k)])

\* The leaf is looked for by its value: the first one that has it, 0 if none has.
IndexOf(leaves, target) == SelectInSeq(leaves, LAMBDA h : h = target)

GetProof(leaves, target) ==
    LET i == IndexOf(leaves, target) IN IF i = 0 THEN <<>> ELSE SiblingsOf(Layers(leaves), i)

\* sortPairs: on which side a sibling stands does not matter.
Climb(leaf, proof) == FoldLeft(LAMBDA node, p : Parent(node, p.data), leaf, proof)
VerifyProof(target, proof, root) == Climb(LeafHash(target), proof) = root
=============================================================================
