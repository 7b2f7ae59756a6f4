----------------------------- MODULE MCValidators -----------------------------
(* What validators and relayers use of a chain, each contract by itself: the  *)
(* MessageIdMultisigISM with three keys and two messages of one origin, and   *)
(* the ValidatorAnnounce.  They share nothing, so a behaviour of the instance *)
(* is a behaviour of one of them.                                             *)
EXTENDS MultisigIsm

CONSTANTS
    d1, id1, id2,
    Validators, Locations, Storable, Domains, Mailboxes, ZeroContract,
    LocationLimit, QueryLimit

VARIABLES
    local_domain, mailbox, announced, storage_locations, replay_protection, agent,
    contract                \* the one that runs: "ism" or "announce"

Announcing == INSTANCE ValidatorAnnounce WITH validators <- announced

ASSUME AnnounceAssumption == Announcing!AnnounceAssumption

announce == <<local_domain, mailbox, announced, storage_locations, replay_protection, agent>>

MCMessages == {[origin |-> d1, id |-> id1], [origin |-> d1, id |-> id2]}

ValidatorsInit ==
    /\ Init /\ Announcing!Init
    /\ contract \in {"ism", "announce"}

ValidatorsNext ==
    /\ \/ contract = "ism" /\ Next /\ UNCHANGED announce
       \/ contract = "announce" /\ Announcing!Next /\ UNCHANGED vars
    /\ UNCHANGED contract

ReadPage == contract = "announce" /\ Announcing!ReadPage /\ UNCHANGED <<vars, contract>>

\* An agent goes on with a walk it has begun.
ValidatorsSpec ==
    /\ ValidatorsInit /\ [][ValidatorsNext]_<<vars, announce, contract>>
    /\ WF_<<vars, announce, contract>>(ReadPage)

NeverLockedOut == Announcing!NeverLockedOut
WalkComplete == Announcing!WalkComplete
WalkEnds == Announcing!WalkEnds
=============================================================================
