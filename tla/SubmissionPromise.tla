--------------------------- MODULE SubmissionPromise ---------------------------
(***************************************************************************)
(* What dusk-tx promises whoever runs it about each thing it is asked to   *)
(* do on chain: it happens at most once; "success" means it has happened;  *)
(* after "failure" it has not and will not, so that it may be asked for    *)
(* again; anything else is "unknown" and stays so until the ledger tells.  *)
(***************************************************************************)
CONSTANT Intents

VARIABLES
    applied,    \* what has happened on chain
    told        \* what the operator knows about each intent

vars == <<applied, told>>

Outcomes == {"new", "running", "unknown", "success", "failure"}

Init == applied = {} /\ told = [i \in Intents |-> "new"]

Open(i) == told[i] \in {"running", "unknown"}

Tell(i, outcome) == told' = [told EXCEPT ![i] = outcome] /\ UNCHANGED applied

\* A thing is asked for the first time, or again after a failure.
Ask(i) == told[i] \in {"new", "failure"} /\ Tell(i, "running")

\* It happens, once, and only while it is asked for.
Apply(i) ==
    /\ Open(i) /\ i \notin applied
    /\ applied' = applied \cup {i}
    /\ UNCHANGED told

TellSuccess(i) == Open(i) /\ i \in applied /\ Tell(i, "success")

TellFailure(i) == Open(i) /\ i \notin applied /\ Tell(i, "failure")

TellUnknown(i) == told[i] = "running" /\ Tell(i, "unknown")

Next ==
    \E i \in Intents :
        Ask(i) \/ Apply(i) \/ TellSuccess(i) \/ TellFailure(i) \/ TellUnknown(i)

Spec == Init /\ [][Next]_vars
=============================================================================
