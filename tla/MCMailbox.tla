------------------------------ MODULE MCMailbox -------------------------------
(* Small instances of Mailbox: dispatch, delivery, fee credits, administration. *)
EXTENDS Mailbox, TLC

\* Hooks are told apart only by equality.
HookSymmetry == Permutations(Hooks)

\* Two messages a relayer may deliver, and one for another chain
MCInbound == {[version |-> 3, destination |-> 7, n |-> 1],
              [version |-> 3, destination |-> 7, n |-> 2],
              [version |-> 3, destination |-> 8, n |-> 1]}

\* Bound: a contract that owns the Mailbox may administer it at any point of any
\* call.  While one does, or did when a running call began, calls are nested twice
\* at most and nothing is delivered.
ContractOwned ==
    owner \in Contracts \/ \E i \in DOMAIN stack : stack[i].saved.owner \in Contracts

ContractOwnedBound == ContractOwned => Len(stack) <= 2 /\ delivered = {}
=============================================================================
