---------------------------- MODULE MerkleTreeHook ----------------------------
(***************************************************************************)
(* The MerkleTreeHook (contracts/merkle-tree-hook/src/lib.rs): the tree of *)
(* dispatched message ids that validators sign checkpoints of.  A root is  *)
(* a collision-free commitment to the leaves, so the sequence of leaves    *)
(* stands for it.                                                          *)
(***************************************************************************)
EXTENDS Naturals, Sequences

CONSTANT MaxLeaves      \* 2^32 - 1: a full tree takes no leaf

VARIABLES
    inserted_message_ids,   \* in insertion order: the leaves
    inserted_roots          \* the root after each insertion

Init == inserted_message_ids = <<>> /\ inserted_roots = <<>>

\* Mutant: the root is recorded before the insertion.
PostDispatchStaleRoot(id) ==
    /\ Len(inserted_message_ids) < MaxLeaves
    /\ inserted_roots' = Append(inserted_roots, inserted_message_ids)
    /\ inserted_message_ids' = Append(inserted_message_ids, id)

\* MerkleTreeHook::post_dispatch, called by its Mailbox.
PostDispatch(id) ==
    /\ Len(inserted_message_ids) < MaxLeaves
    /\ inserted_message_ids' = Append(inserted_message_ids, id)
    /\ inserted_roots' = Append(inserted_roots, inserted_message_ids')
=============================================================================
