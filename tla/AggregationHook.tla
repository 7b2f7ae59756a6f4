--------------------------- MODULE AggregationHook ---------------------------
(***************************************************************************)
(* The AggregationHook (contracts/aggregation-hook/src/lib.rs): runs a     *)
(* fixed list of child hooks and splits the Mailbox's one payment among    *)
(* them.  `fee` maps each child to the quote it gives right now.           *)
(***************************************************************************)
EXTENDS Integers, Sequences, SequencesExt

CONSTANTS
    Children,           \* hooks: the child hooks, in order
    MaxU64              \* u64::MAX

VARIABLE
    pending_payments    \* child payments prepared and not yet forwarded: [hook, fee]

Init == pending_payments = <<>>

\* The children's payments, those of no value left out.
Payments(fee) ==
    FoldLeft(LAMBDA payments, child :
                 IF fee[child] > 0 THEN Append(payments, [hook |-> child, fee |-> fee[child]])
                                   ELSE payments,
             <<>>, Children)

Total(payments) == FoldLeft(LAMBDA total, p : total + p.fee, 0, payments)

\* AggregationHook::quote_dispatch answers with the sum unless it overflows.
Quotes(fee, total) == total = Total(Payments(fee)) /\ total <= MaxU64

\* AggregationHook::post_dispatch: besides this, every child's quote_dispatch
\* and post_dispatch run, in order.
PostDispatch(fee) ==
    /\ pending_payments = <<>>
    /\ pending_payments' = Payments(fee)

\* Mutant: the forwarded payments stay in the list.
ReceivePaymentKept(amount) ==
    /\ pending_payments # <<>>
    /\ amount = Total(pending_payments)
    /\ UNCHANGED pending_payments

\* AggregationHook::receive_payment: besides this, every pending payment is
\* sent on to its child.
ReceivePayment(amount) ==
    /\ pending_payments # <<>>
    /\ amount = Total(pending_payments)
    /\ pending_payments' = <<>>
=============================================================================
