------------------------------ MODULE Remittance ------------------------------
(***************************************************************************)
(* What a bridge promises the people who use it: whoever sends parts with  *)
(* exactly the amount, it reaches exactly its recipient, at most once, and *)
(* nobody's purse changes otherwise but by gifts.                          *)
(***************************************************************************)
EXTENDS Naturals

CONSTANTS
    People,
    Amounts,
    Start           \* what each of them has at first

VARIABLES
    purse,          \* what each person has, wherever it is
    sent, arrived   \* remittances: records with at least `recipient` and `amount`

vars == <<purse, sent, arrived>>

Init == purse = Start /\ sent = {} /\ arrived = {}

Send(p) ==
    /\ arrived' = arrived
    /\ \E r \in sent' \ sent :
        /\ sent' = sent \cup {r}
        /\ r.amount <= purse[p]
        /\ purse' = [purse EXCEPT ![p] = @ - r.amount]

Arrive ==
    /\ sent' = sent
    /\ \E r \in sent \ arrived :
        /\ arrived' = arrived \cup {r}
        /\ purse' = [purse EXCEPT ![r.recipient] = @ + r.amount]

Give(p, q, amount) ==
    /\ amount <= purse[p]
    /\ purse' = [[purse EXCEPT ![p] = @ - amount] EXCEPT ![q] = @ + amount]
    /\ UNCHANGED <<sent, arrived>>

Next ==
    \/ \E p \in People : Send(p)
    \/ Arrive
    \/ \E p, q \in People, amount \in Amounts : Give(p, q, amount)

Spec == Init /\ [][Next]_vars
=============================================================================
