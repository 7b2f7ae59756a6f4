--------------------------- MODULE ValidatorAnnounce ---------------------------
(***************************************************************************)
(* ValidatorAnnounce (contracts/validator-announce/src/lib.rs): where each *)
(* validator publishes its signatures, and an agent that reads all of it   *)
(* page by page while validators go on announcing.                         *)
(***************************************************************************)
EXTENDS Naturals, Sequences, SequencesExt

CONSTANTS
    Validators,
    Locations,      \* location strings
    Storable,       \* those that are neither empty nor over MAX_LOCATION_BYTES
    Domains, Mailboxes,
    ZeroContract,   \* ZERO_CONTRACT: mailbox before init
    LocationLimit,  \* MAX_LOCATIONS_PER_VALIDATOR
    QueryLimit      \* MAX_QUERY_VALIDATORS

AnnounceAssumption ==
    /\ Storable \subseteq Locations
    /\ ZeroContract \notin Mailboxes
    /\ 0 \notin Domains
    /\ LocationLimit \in Nat \ {0} /\ QueryLimit \in Nat \ {0}

VARIABLES
    local_domain, mailbox,
    validators,         \* in the order of their first announcement
    storage_locations,  \* per validator, oldest first; <<>> when it has none
    replay_protection,  \* pairs announced before
    agent               \* the reader's walk: its page size and what it has read

contract == <<local_domain, mailbox, validators, storage_locations, replay_protection>>
vars == <<contract, agent>>

-----------------------------------------------------------------------------
(* Announcing.                                                              *)

\* What a validator signs, and what the contract recovers the signer from:
\* nested hashes of all three.
AnnouncementDigest(domain, mb, location) == <<domain, mb, location>>

\* Signatures made for any deployment; announcements carry them unchecked.
Signatures ==
    [signer : Validators,
     digest : {AnnouncementDigest(d, mb, l) :
                  d \in Domains, mb \in Mailboxes, l \in Locations}]

\* ecrecover_eth_address: a signature of something else recovers nobody.
SignedBy(signature, v, digest) == signature = [signer |-> v, digest |-> digest]

\* ValidatorAnnounce::new
Init ==
    /\ local_domain = 0 /\ mailbox = ZeroContract
    /\ validators = <<>>
    /\ storage_locations = [v \in Validators |-> <<>>]
    /\ replay_protection = {}
    /\ agent = [pc |-> "idle"]

Initialize(domain, mb) ==
    /\ mailbox = ZeroContract
    /\ local_domain' = domain /\ mailbox' = mb
    /\ UNCHANGED <<validators, storage_locations, replay_protection, agent>>

\* What announce asserts, in this order but for the writes in between
Accepted(v, location, signature) ==
    /\ location \in Storable
    /\ <<v, location>> \notin replay_protection
    /\ SignedBy(signature, v, AnnouncementDigest(local_domain, mailbox, location))
    /\ Len(storage_locations[v]) < LocationLimit

\* Mutant: what fails late answers false instead of panicking, so that the
\* replay entry written before it stays.
AnnounceKept(v, location, signature) ==
    /\ location \in Storable
    /\ <<v, location>> \notin replay_protection
    /\ replay_protection' = replay_protection \cup {<<v, location>>}
    /\ IF Accepted(v, location, signature)
       THEN /\ validators' = IF storage_locations[v] = <<>>
                             THEN Append(validators, v) ELSE validators
            /\ storage_locations' = [storage_locations EXCEPT ![v] = Append(@, location)]
       ELSE UNCHANGED <<validators, storage_locations>>
    /\ UNCHANGED <<local_domain, mailbox, agent>>

\* announce writes the replay entry first and checks signature and limit after;
\* each refusal is a panic, which undoes the call.
Announce(v, location, signature) ==
    /\ Accepted(v, location, signature)
    /\ replay_protection' = replay_protection \cup {<<v, location>>}
    /\ validators' = IF storage_locations[v] = <<>> THEN Append(validators, v) ELSE validators
    /\ storage_locations' = [storage_locations EXCEPT ![v] = Append(@, location)]
    /\ UNCHANGED <<local_domain, mailbox, agent>>

-----------------------------------------------------------------------------
(* Discovery.                                                               *)

\* Mutant: a start past the end is moved back to the last validator.
PageClamped(start, limit) ==
    LET count == Len(validators)
        first == IF start < count THEN start ELSE IF count = 0 THEN 0 ELSE count - 1
        end   == IF first + limit < count THEN first + limit ELSE count
    IN  SubSeq(validators, first + 1, end)

\* Mutant: start is taken for the place of the last one read.
PageAfterStart(start, limit) ==
    LET count == Len(validators)
        end   == IF start + limit < count THEN start + limit ELSE count
    IN  IF start >= count THEN <<>> ELSE SubSeq(validators, start + 2, end)

\* get_announced_validators: start counts from zero; a start at or past the end
\* gives an empty page.
Page(start, limit) ==
    LET count == Len(validators)
        end   == IF start + limit < count THEN start + limit ELSE count
    IN  IF start >= count THEN <<>> ELSE SubSeq(validators, start + 1, end)

\* get_announced_storage_locations, for at most a page of validators
LocationsOf(page) == [v \in ToSet(page) |-> storage_locations[v]]

\* An agent starts a walk with some page size; `began` is who had announced
\* then and `twice` whether it meets somebody again, for the properties.
BeginWalk(limit) ==
    /\ agent.pc = "idle"
    /\ agent' = [pc |-> "walking", limit |-> limit, began |-> ToSet(validators),
                 read |-> LocationsOf(<<>>), twice |-> FALSE]
    /\ UNCHANGED contract

\* It asks for the page after those it has read and for the locations of the
\* validators on it, until a page is empty.
ReadPage ==
    /\ agent.pc = "walking"
    /\ LET found == DOMAIN agent.read
           page  == Page(Cardinality(found), agent.limit)
       IN  agent' = IF page = <<>>
                    THEN [agent EXCEPT !.pc = "done"]
                    ELSE [agent EXCEPT
                              !.read = [v \in found \cup ToSet(page) |->
                                          IF v \in found THEN agent.read[v]
                                                         ELSE LocationsOf(page)[v]],
                              !.twice = @ \/ ToSet(page) \cap found # {}]
    /\ UNCHANGED contract

EndWalk ==
    /\ agent.pc = "done"
    /\ agent' = [pc |-> "idle"]
    /\ UNCHANGED contract

Next ==
    \/ \E d \in Domains, mb \in Mailboxes : Initialize(d, mb)
    \/ \E v \in Validators, l \in Locations, s \in Signatures : Announce(v, l, s)
    \/ \E limit \in 1..QueryLimit : BeginWalk(limit)
    \/ ReadPage
    \/ EndWalk

\* An agent goes on with a walk it has begun; nobody has to announce.
Spec == Init /\ [][Next]_vars /\ WF_vars(ReadPage)

-----------------------------------------------------------------------------
(* Properties.                                                              *)

\* What the contract stores and the agent knows has the shape the code gives it.
TypeOK ==
    /\ local_domain \in Domains \cup {0}
    /\ mailbox \in Mailboxes \cup {ZeroContract}
    /\ validators \in Seq(Validators)
    /\ storage_locations \in [Validators -> Seq(Storable)]
    /\ replay_protection \subseteq Validators \X Storable
    /\ agent.pc \in {"idle", "walking", "done"}
    /\ agent.pc # "idle" =>
        /\ agent.limit \in 1..QueryLimit /\ agent.twice \in BOOLEAN
        /\ agent.began \cup DOMAIN agent.read \subseteq ToSet(validators)
        /\ agent.read \in [DOMAIN agent.read -> Seq(Storable)]

\* A validator with room left can announce, with its signature for this
\* deployment, every location it has not announced yet: no refused attempt, by
\* it or by anybody else, takes that away.
NeverLockedOut ==
    /\ TypeOK
    /\ \A v \in Validators, l \in Storable :
        LET digest == AnnouncementDigest(local_domain, mailbox, l)
        IN  (/\ ~Contains(storage_locations[v], l)
             /\ Len(storage_locations[v]) < LocationLimit)
            => Accepted(v, l, [signer |-> v, digest |-> digest])

\* A finished walk has met every validator announced when it began, and none
\* twice, whoever announced in between; and what it has read of each stays the
\* beginning of that validator's history, which neither loses nor moves one.
WalkComplete ==
    agent.pc = "done" =>
        /\ agent.began \subseteq DOMAIN agent.read
        /\ ~agent.twice
        /\ \A v \in DOMAIN agent.read : IsPrefix(agent.read[v], storage_locations[v])

\* Every walk ends, however many validators announce themselves meanwhile.
WalkEnds == agent.pc = "walking" ~> agent.pc = "done"
=============================================================================
