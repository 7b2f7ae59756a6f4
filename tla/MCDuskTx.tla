------------------------------ MODULE MCDuskTx -------------------------------
(* Instances of DuskTx: what its intents ask for.                           *)
EXTENDS DuskTx

CONSTANTS i1, i2, i3

\* A transfer, a refund of dispatch credit and an enrollment: one command of
\* each order of the steps up to the signature.
MCCommand ==
    [i \in Intents |->
        CASE i = i1 -> "TransferRemoteNative" [] i = i2 -> "WithdrawDispatch"
          [] OTHER -> "EnrollRouter"]

MCAmount == [i \in Intents |-> 1]
=============================================================================
