---------------------------- MODULE TreeEncoding ----------------------------
(***************************************************************************)
(* The pure part of FrogBard's tree mode (src/src/frogbard_tree.c): how a  *)
(* file is cut into leaves, which messages the leaf, parent and root       *)
(* hashes cover, and what one level of the reduction computes; and, beside *)
(* it, the reference tree of analyzes/SPEC.md section 8, built node by     *)
(* node from a file's bytes, against which the code's result is compared.  *)
(*                                                                         *)
(* frogbard_hash is the constant operator Hash: nothing here depends on    *)
(* what it computes.  The runs use an ideal (injective) hash, the message  *)
(* itself, so two digests are equal exactly when the same bytes went into  *)
(* the same places.                                                        *)
(***************************************************************************)
EXTENDS Integers, Sequences

CONSTANTS
    ChunkBytes,    \* FROGBARD_TREE_CHUNK_BYTES, the payload of a full leaf
    Hash(_),       \* frogbard_hash of a whole message
    ZeroDigest     \* 64 zero bytes: the right child of a parent with one child

ASSUME ChunkAssumption == ChunkBytes \in Nat \ {0}

-----------------------------------------------------------------------------
(* Leaves: byte k of the file (0-based) is in leaf k \div ChunkBytes.      *)

LeafCount(size) ==
    IF size = 0 THEN 1 ELSE (size + ChunkBytes - 1) \div ChunkBytes

ChunkLength(size, index) ==
    LET offset == index * ChunkBytes
        left   == size - offset
    IN  IF offset >= size THEN 0
        ELSE IF left < ChunkBytes THEN left ELSE ChunkBytes

LeafMessage(index, length, payload) ==
    [domain |-> "TreeL1", index |-> index, length |-> length, payload |-> payload]

-----------------------------------------------------------------------------
(* Parents and the root.                                                   *)

ParentMessage(level, children, left, right) ==
    [domain |-> "TreeP1", level |-> level, children |-> children,
     left   |-> left, right |-> right]

RootMessage(size, leaves, levels, root) ==
    [domain |-> "TreeR1", size |-> size, chunk |-> ChunkBytes,
     leaves |-> leaves, levels |-> levels, root |-> root]

ParentCount(count) == (count + 1) \div 2
AtMost(a, b) == IF a < b THEN a ELSE b

\* Faulty: the last node of an odd level is its own sibling.
ParentsDoubleLast(level, count, nodes) ==
    [p \in 0 .. ParentCount(count) - 1 |->
        Hash(ParentMessage(level, 2, nodes[2 * p], nodes[AtMost(2 * p + 1, count - 1)]))]

\* One pass of reduce_tree's outer loop: the parents of nodes[0 .. count-1].
Parents(level, count, nodes) ==
    [p \in 0 .. ParentCount(count) - 1 |->
        IF 2 * p + 1 < count
        THEN Hash(ParentMessage(level, 2, nodes[2 * p], nodes[2 * p + 1]))
        ELSE Hash(ParentMessage(level, 1, nodes[2 * p], ZeroDigest))]

-----------------------------------------------------------------------------
(* The reference.  Over n leaves, level l of the tree has                  *)
(* ceiling(n / 2^l) nodes, and the tree is as high as the first level that *)
(* has a single node.                                                      *)

LevelWidth(n, l) == (n + 2 ^ l - 1) \div 2 ^ l

TreeHeight(n) ==
    CHOOSE h \in 0 .. n : /\ LevelWidth(n, h) = 1
                          /\ \A l \in 0 .. h - 1 : LevelWidth(n, l) > 1

\* The leaf the bytes of view (a sequence: the whole file) put at index.
LeafDigest(view, index) ==
    LET length == ChunkLength(Len(view), index)
    IN  Hash(LeafMessage(index, length,
                         [k \in 1 .. length |-> view[index * ChunkBytes + k]]))

\* Node i of level l, of the tree over n leaves, is at <<l, i>>.
NodePlaces(n) ==
    {p \in (0 .. TreeHeight(n)) \X (0 .. n - 1) : p[2] < LevelWidth(n, p[1])}

TreeNodes(view) ==
    LET n == LeafCount(Len(view))
        node[p \in NodePlaces(n)] ==
            LET l == p[1]
                i == p[2]
            IN  IF l = 0 THEN LeafDigest(view, i)
                ELSE IF 2 * i + 1 < LevelWidth(n, l - 1)
                     THEN Hash(ParentMessage(l - 1, 2, node[<<l - 1, 2 * i>>],
                                                     node[<<l - 1, 2 * i + 1>>]))
                     ELSE Hash(ParentMessage(l - 1, 1, node[<<l - 1, 2 * i>>], ZeroDigest))
    IN  node

TreeDigest(view) ==
    LET n == LeafCount(Len(view))
        h == TreeHeight(n)
    IN  Hash(RootMessage(Len(view), n, h, TreeNodes(view)[<<h, 0>>]))
=============================================================================
