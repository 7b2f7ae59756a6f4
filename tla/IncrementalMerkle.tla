--------------------------- MODULE IncrementalMerkle ---------------------------
(***************************************************************************)
(* The incremental Merkle tree (types/src/merkle.rs) the MerkleTreeHook    *)
(* keeps its leaves in: a branch of one partial root per level and a       *)
(* count, from which each root is computed.  The code's depth is 32.       *)
(***************************************************************************)
EXTENDS Naturals, Sequences

CONSTANTS
    TreeDepth,      \* TREE_DEPTH
    Elements        \* message ids that are inserted

VARIABLES
    branch,         \* per level, the root of the last full subtree left of the path
    count,
    leaves          \* what was inserted, for the properties

vars == <<branch, count, leaves>>

Levels == 0..(TreeDepth - 1)

-----------------------------------------------------------------------------
(* Hashes are terms: two are equal exactly when what they hash is.          *)

Leaf(element) == <<"leaf", element>>

hash_pair(left, right) == <<"node", left, right>>

Zero == Leaf("zero")

\* The table of roots of empty subtrees
ZERO_HASHES[i \in 0..TreeDepth] ==
    IF i = 0 THEN Zero ELSE hash_pair(ZERO_HASHES[i - 1], ZERO_HASHES[i - 1])

\* How many leaves the tree has room for under a node of each level
Places[i \in 0..TreeDepth] == IF i = 0 THEN 1 ELSE 2 * Places[i - 1]

\* size at each level, as the loops halve it
Halved(size) ==
    LET half[i \in 0..TreeDepth] == IF i = 0 THEN size ELSE half[i - 1] \div 2
    IN  half

\* size & 1
OddAt(size, level) == Halved(size)[level] % 2 = 1

-----------------------------------------------------------------------------
(* Insertion and root.                                                      *)

\* IncrementalMerkle::new
Init ==
    /\ branch = [i \in Levels |-> Zero]
    /\ count = 0
    /\ leaves = <<>>

\* The node insert carries up to a level, joined there with the branch.
Carried(element) ==
    LET node[i \in 0..TreeDepth] ==
            IF i = 0 THEN Leaf(element) ELSE hash_pair(branch[i - 1], node[i - 1])
    IN  node

\* The node goes up while the new size is even there, and is stored at the
\* first level where it is odd.  A tree with one place left is full.
Insert(element) ==
    /\ count < Places[TreeDepth] - 1
    /\ count' = count + 1
    /\ \E i \in Levels :
        /\ OddAt(count', i) /\ \A j \in 0..(i - 1) : ~OddAt(count', j)
        /\ branch' = [branch EXCEPT ![i] = Carried(element)[i]]
    /\ leaves' = Append(leaves, element)

\* Mutant: the subtree on the left is hashed as if it were on the right.
RootSwapped ==
    LET node[i \in 0..TreeDepth] ==
            IF i = 0 THEN Zero
            ELSE IF OddAt(count, i - 1)
                 THEN hash_pair(node[i - 1], branch[i - 1])
                 ELSE hash_pair(node[i - 1], ZERO_HASHES[i - 1])
    IN  node[TreeDepth]

\* root: from the first free place up, with the full subtree on its left or an
\* empty one on its right.
Root ==
    LET node[i \in 0..TreeDepth] ==
            IF i = 0 THEN Zero
            ELSE IF OddAt(count, i - 1)
                 THEN hash_pair(branch[i - 1], node[i - 1])
                 ELSE hash_pair(node[i - 1], ZERO_HASHES[i - 1])
    IN  node[TreeDepth]

\* latest_checkpoint: the root and the index of the last leaf
Checkpoint == IF count = 0 THEN <<>> ELSE <<Root, count - 1>>

\* A full tree takes no more: the system stops here.
Full == count = Places[TreeDepth] - 1 /\ UNCHANGED vars

Next ==
    \/ \E e \in Elements : Insert(e)
    \/ Full

Spec == Init /\ [][Next]_vars

-----------------------------------------------------------------------------
(* Reference: the complete binary tree over all places, those not taken yet *)
(* being zero.                                                              *)

Padded[place \in 0..(Places[TreeDepth] - 1)] ==
    IF place < Len(leaves) THEN Leaf(leaves[place + 1]) ELSE Zero

\* The nodes of the reference tree, level by level
Nodes ==
    LET level[i \in 0..TreeDepth] ==
            IF i = 0 THEN Padded
            ELSE [place \in 0..(Places[TreeDepth - i] - 1) |->
                     hash_pair(level[i - 1][2 * place], level[i - 1][2 * place + 1])]
    IN  level

\* Types of the state; hashes are terms of any height.
TypeOK ==
    /\ count \in 0..(Places[TreeDepth] - 1)
    /\ count = Len(leaves)
    /\ leaves \in Seq(Elements)
    /\ DOMAIN branch = Levels

\* The root is that of the whole tree, and the checkpoint names its last leaf:
\* the proof of any leaf verifies here as on every other chain, up to the last
\* leaf the tree takes.
RootIsReference ==
    LET reference == Nodes[TreeDepth][0]
    IN  /\ TypeOK
        /\ Root = reference
        /\ count > 0 => Checkpoint = <<reference, Len(leaves) - 1>>
=============================================================================
