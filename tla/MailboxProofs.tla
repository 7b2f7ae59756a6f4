---------------------------- MODULE MailboxProofs ----------------------------
(***************************************************************************)
(* Theorems about Mailbox, and about the Mailbox with the hooks it is      *)
(* deployed with, for every value of their constants.  The invariant of    *)
(* the bare Mailbox is over the levels of its stack: the current state and *)
(* what each frame would restore.  With the deployed hooks only one        *)
(* dispatch runs at a time, and the invariant says what each of its steps  *)
(* has announced, recorded and paid.  Last come the paymaster's prices and *)
(* the Merkle tree, each also by itself.                                   *)
(***************************************************************************)
EXTENDS MCHooks, WellFoundedInduction, FiniteSetTheorems, SequenceTheorems, TLAPS

Frame == DispatchFrame \cup ProcessFrame

-----------------------------------------------------------------------------
(* What the stack operations do.                                            *)

\* Replacing the top frame, as Continue does, leaves the frames below alone.
LEMMA ContinueProperties ==
    ASSUME NEW F, NEW s \in Seq(F), s # <<>>, NEW f \in F
    PROVE  LET t == [s EXCEPT ![Len(s)] = f]
           IN  /\ t \in Seq(F)
               /\ Len(t) = Len(s)
               /\ t[Len(s)] = f
               /\ \A i \in 1..(Len(s) - 1) : t[i] = s[i]
<1>1. Len(s) \in 1..Len(s)
    BY EmptySeq
<1>2. QED
    BY <1>1, ExceptSeq

\* Popping keeps the frames below the top.
LEMMA PopProperties ==
    ASSUME NEW F, NEW s \in Seq(F), s # <<>>
    PROVE  LET t == SubSeq(s, 1, Len(s) - 1)
           IN  /\ t \in Seq(F)
               /\ Len(t) = Len(s) - 1
               /\ \A i \in 1..(Len(s) - 1) : t[i] = s[i]
<1> DEFINE n == Len(s) - 1
           t == SubSeq(s, 1, n)
<1>1. n \in Nat
    BY EmptySeq
<1>2. \A i \in 1..n : s[i] \in F
    BY <1>1, ElementOfSeq
<1> HIDE DEF n
<1>3. /\ t \in Seq(F)
      /\ Len(t) = IF 1 <= n THEN n - 1 + 1 ELSE 0
      /\ \A i \in 1..(n - 1 + 1) : t[i] = s[1 + i - 1]
    BY <1>1, <1>2, SubSeqProperties
<1> HIDE DEF t
<1>4. Len(t) = n /\ \A i \in 1..n : t[i] = s[i]
    BY <1>1, <1>3
<1>5. QED
    BY <1>3, <1>4 DEF n, t

\* The top frame of a well-typed stack is a frame; its pc tells which kind.
LEMMA TopType ==
    ASSUME TypeOK, stack # <<>>
    PROVE  /\ Len(stack) \in Nat \ {0}
           /\ Top \in Frame
           /\ Top.saved \in Storage
           /\ Top.pc \in DispatchPC => Top \in DispatchFrame
           /\ Top.pc \in ProcessPC => Top \in ProcessFrame
<1>1. stack \in Seq(Frame)
    BY DEF TypeOK, Frame
<1>2. Len(stack) \in Nat \ {0} /\ Top \in Frame
    BY <1>1, EmptySeq, ElementOfSeq DEF Top
<1>3. QED
    BY <1>2 DEF Frame, DispatchFrame, ProcessFrame, DispatchPC, ProcessPC

-----------------------------------------------------------------------------
(* Type correctness.                                                        *)

\* The parts of TypeOK, one for each group of variables.
ConfigType ==
    /\ default_ism \in Isms \cup {NoContract}
    /\ default_hook \in Hooks \cup {NoContract}
    /\ required_hook \in Hooks \cup {NoContract}
    /\ owner \in Identities \cup {NoOwner}

OutboundType ==
    /\ nonce \in 0..MaxNonce
    /\ dispatching \in BOOLEAN
    /\ latest_dispatched_id \in Message \cup {NoMessage}
    /\ dispatched_messages \in Seq(Message)
    /\ posted \in Seq(Message)

InboundType ==
    /\ delivered \in SUBSET Inbound
    /\ processed_ids \in Seq(Inbound)
    /\ handled \in [Inbound -> Nat]

ValueType ==
    /\ fee_credits \in [Identities -> 0..MaxU64]
    /\ custody \in Int

StackType == stack \in Seq(Frame)

LEMMA TypeParts ==
    TypeOK <=> ConfigType /\ OutboundType /\ InboundType /\ ValueType /\ StackType
<1>1. Current \in Storage <=> ConfigType /\ OutboundType /\ InboundType /\ ValueType
    BY DEF Current, Storage, ConfigType, OutboundType, InboundType, ValueType
<1>2. QED
    BY <1>1 DEF TypeOK, StackType, Frame

LEMMA TypePartsNext ==
    TypeOK' <=> ConfigType' /\ OutboundType' /\ InboundType' /\ ValueType' /\ StackType'
<1>1. (Current \in Storage)' <=> ConfigType' /\ OutboundType' /\ InboundType' /\ ValueType'
    BY DEF Current, Storage, ConfigType, OutboundType, InboundType, ValueType
<1>2. QED
    BY <1>1 DEF TypeOK, StackType, Frame

LEMMA InitType == Init => TypeOK
<1>1. ASSUME Init PROVE TypeOK
    <2>1. ConfigType
        BY <1>1 DEF Init, ConfigType
    <2>2. OutboundType
        <3>1. nonce \in 0..MaxNonce
            BY <1>1, MailboxAssumption DEF Init
        <3>2. dispatching \in BOOLEAN
            BY <1>1 DEF Init
        <3>3. dispatched_messages \in Seq(Message) /\ posted \in Seq(Message)
            BY <1>1, EmptySeq DEF Init
        <3>4. QED
            BY <1>1, <3>1, <3>2, <3>3 DEF Init, OutboundType
    <2>3. ValueType
        BY <1>1, MailboxAssumption DEF Init, ValueType
    <2>4. InboundType /\ StackType
        BY <1>1, EmptySeq DEF Init, InboundType, StackType
    <2>5. QED
        BY <2>1, <2>2, <2>3, <2>4, TypeParts
<1>2. QED
    BY <1>1

LEMMA FeeCreditType ==
    ASSUME TypeOK, FeeCredit
    PROVE  TypeOK'
<1> USE MailboxAssumption
<1>1. ConfigType /\ OutboundType /\ InboundType /\ ValueType /\ StackType
    BY TypeParts
<1>2. ASSUME UNCHANGED <<config, outbound, inbound, stack>>, ValueType'
      PROVE  TypeOK'
    BY <1>1, <1>2, TypePartsNext
    DEF ConfigType, OutboundType, InboundType, StackType, config, outbound, inbound
<1>3. ASSUME NEW amount \in Amounts, NEW payer \in Identities, FundDispatch(payer, amount)
      PROVE  TypeOK'
    BY <1>1, <1>2, <1>3 DEF FundDispatch, ValueType
<1>4. ASSUME NEW amount \in Amounts, NEW caller \in Callers,
             WithdrawDispatchCredit(caller, amount)
      PROVE  TypeOK'
    BY <1>1, <1>2, <1>4 DEF WithdrawDispatchCredit, ValueType, Callers, Identities
<1>5. QED
    BY <1>3, <1>4 DEF FeeCredit

LEMMA AdminType ==
    ASSUME TypeOK, Deploy \/ Admin
    PROVE  TypeOK'
<1> USE MailboxAssumption
<1>1. ConfigType /\ OutboundType /\ InboundType /\ ValueType /\ StackType
    BY TypeParts
<1>2. ASSUME UNCHANGED <<outbound, inbound, value, stack>>, ConfigType'
      PROVE  TypeOK'
    BY <1>1, <1>2, TypePartsNext
    DEF OutboundType, InboundType, ValueType, StackType, outbound, inbound, value
<1>3. ASSUME Deploy PROVE TypeOK'
    BY <1>1, <1>2, <1>3 DEF Deploy, Initialize, ConfigType
<1>4. ASSUME NEW caller \in Callers, NEW ism \in Isms, SetDefaultIsm(caller, ism)
      PROVE  TypeOK'
    BY <1>1, <1>2, <1>4 DEF SetDefaultIsm, ConfigType
<1>5. ASSUME NEW caller \in Callers, NEW hook \in Hooks,
             SetDefaultHook(caller, hook) \/ SetRequiredHook(caller, hook)
      PROVE  TypeOK'
    BY <1>1, <1>2, <1>5 DEF SetDefaultHook, SetRequiredHook, ConfigType
<1>6. ASSUME NEW caller \in Callers, NEW o \in Owners, TransferOwnership(caller, o)
      PROVE  TypeOK'
    BY <1>1, <1>2, <1>6 DEF TransferOwnership, ConfigType
<1>7. ASSUME NEW caller \in Callers, RenounceOwnership(caller)
      PROVE  TypeOK'
    BY <1>1, <1>2, <1>7 DEF RenounceOwnership, ConfigType
<1>8. QED
    BY <1>3, <1>4, <1>5, <1>6, <1>7 DEF Admin

\* A step that replaces the top frame by one of the same kind.
LEMMA ContinueType ==
    ASSUME StackType, stack # <<>>, NEW f \in Frame, Continue(f)
    PROVE  StackType'
BY ContinueProperties DEF StackType, Continue

\* A step that enters a new frame.
LEMMA PushType ==
    ASSUME StackType, NEW f \in Frame, stack' = Append(stack, f)
    PROVE  StackType'
BY AppendProperties DEF StackType

\* A step that returns from the top frame.
LEMMA PopType ==
    ASSUME StackType, stack # <<>>, stack' = Pop
    PROVE  StackType'
BY PopProperties DEF StackType, Pop

\* The frame a dispatch call enters.
EnteredDispatch(caller, hook) ==
    [op |-> "dispatch", pc |-> "quote_required",
     message |-> [nonce |-> nonce, sender |-> caller],
     hook |-> Selected(hook),
     quoted |-> required_hook, required |-> required_hook,
     required_fee |-> 0, hook_fee |-> 0, saved |-> Current]

LEMMA EnteredDispatchType ==
    ASSUME TypeOK, NEW caller \in Callers, NEW hook \in Hooks \cup {NoContract}
    PROVE  EnteredDispatch(caller, hook) \in Frame
<1>1. ConfigType /\ OutboundType
    BY TypeParts
<1>2. [nonce |-> nonce, sender |-> caller] \in Message
    BY <1>1, MailboxAssumption DEF Message, Callers, Identities, OutboundType
<1>3. Selected(hook) \in Hooks \cup {NoContract}
    BY <1>1 DEF Selected, ConfigType
<1>4. Current \in Storage
    BY DEF TypeOK
<1>5. QED
    BY <1>1, <1>2, <1>3, <1>4, MailboxAssumption
    DEF EnteredDispatch, Frame, DispatchFrame, DispatchPC, ConfigType

LEMMA DispatchType ==
    ASSUME TypeOK, DispatchStep
    PROVE  TypeOK'
<1> USE MailboxAssumption
<1>1. ConfigType /\ OutboundType /\ InboundType /\ ValueType /\ StackType
    BY TypeParts
<1>2. ASSUME UNCHANGED <<config, inbound>>, OutboundType', ValueType', StackType'
      PROVE  TypeOK'
    BY <1>1, <1>2, TypePartsNext DEF ConfigType, InboundType, config, inbound
<1>3. ASSUME NEW caller \in Callers, NEW hook \in Hooks \cup {NoContract},
             Dispatch(caller, hook)
      PROVE  TypeOK'
    <2> DEFINE f == EnteredDispatch(caller, hook)
    <2>1. f \in Frame
        BY EnteredDispatchType
    <2>2. stack' = Append(stack, f)
        BY <1>3 DEF Dispatch, EnteredDispatch
    <2>3. StackType'
        BY <1>1, <2>1, <2>2, PushType
    <2>4. OutboundType' /\ ValueType'
        BY <1>1, <1>3 DEF Dispatch, OutboundType, ValueType, value
    <2>5. QED
        BY <1>2, <1>3, <2>3, <2>4 DEF Dispatch
<1>4. ASSUME NEW fee \in Fees, QuoteRequired(fee)
      PROVE  TypeOK'
    <2> DEFINE f == [Top EXCEPT !.pc = "quote_hook", !.required_fee = fee]
    <2>1. f \in Frame
        BY <1>4, TopType DEF QuoteRequired, Returned, DispatchPC, Frame, DispatchFrame
    <2>2. QED
        BY <1>1, <1>2, <1>4, <2>1, ContinueType
        DEF QuoteRequired, Returned, OutboundType, ValueType, outbound, value
<1>5. ASSUME NEW fee \in Fees, QuoteHook(fee)
      PROVE  TypeOK'
    <2> DEFINE f == [Top EXCEPT !.pc = "post_required", !.hook_fee = fee,
                                !.required = required_hook]
               m == Top.message
               total == Top.required_fee + fee
    <2>1. Top \in DispatchFrame
        BY <1>5, TopType DEF QuoteHook, Returned, DispatchPC
    <2>2. f \in Frame
        BY <1>1, <2>1 DEF DispatchPC, Frame, DispatchFrame, ConfigType
    <2>3. m \in Message /\ m.sender \in Identities /\ total \in Nat
        BY <2>1 DEF DispatchFrame, Message
    <2>4. /\ fee_credits[m.sender] >= total
          /\ nonce < MaxNonce
          /\ fee_credits' = [fee_credits EXCEPT ![m.sender] = @ - total]
          /\ latest_dispatched_id' = m
          /\ dispatched_messages' = Append(dispatched_messages, m)
          /\ nonce' = nonce + 1
          /\ UNCHANGED <<config, inbound, custody, dispatching, posted>>
          /\ stack # <<>> /\ Continue(f)
        BY <1>5 DEF QuoteHook, Returned
    <2> HIDE DEF f, m, total
    <2>5. OutboundType'
        BY <1>1, <2>3, <2>4, AppendProperties DEF OutboundType
    <2>6. ValueType'
        BY <1>1, <2>3, <2>4 DEF ValueType
    <2>7. StackType'
        BY <1>1, <2>2, <2>4, ContinueType
    <2>8. QED
        BY <1>2, <2>4, <2>5, <2>6, <2>7
<1>6. ASSUME PostRequired
      PROVE  TypeOK'
    <2> DEFINE pc == IF Top.required_fee = 0 THEN "post_hook" ELSE "pay_required"
               f == [Top EXCEPT !.pc = pc]
    <2>1. Top \in DispatchFrame
        BY <1>6, TopType DEF PostRequired, Returned, DispatchPC
    <2>2. pc \in DispatchPC
        BY DEF DispatchPC
    <2> HIDE DEF pc
    <2>3. f \in Frame
        BY <2>1, <2>2 DEF Frame, DispatchFrame
    <2>4. Top.message \in Message /\ Top.required_fee \in Nat
        BY <2>1 DEF DispatchFrame
    <2>5. OutboundType'
        BY <1>1, <1>6, <2>4, AppendProperties DEF PostRequired, OutboundType
    <2>6. ValueType'
        BY <1>1, <1>6, <2>4 DEF PostRequired, ValueType
    <2>7. StackType'
        BY <1>1, <1>6, <2>3, ContinueType DEF PostRequired, Returned, pc
    <2>8. QED
        BY <1>2, <1>6, <2>5, <2>6, <2>7 DEF PostRequired
<1>7. ASSUME PayRequired
      PROVE  TypeOK'
    <2>1. [Top EXCEPT !.pc = "post_hook"] \in Frame
        BY <1>7, TopType DEF PayRequired, Returned, DispatchPC, Frame, DispatchFrame
    <2>2. QED
        BY <1>1, <1>2, <1>7, <2>1, ContinueType
        DEF PayRequired, Returned, OutboundType, ValueType, outbound, value
<1>8. ASSUME PostHook
      PROVE  TypeOK'
    <2>1. Top \in DispatchFrame
        BY <1>8, TopType DEF PostHook, Returned, DispatchPC
    <2>2. [Top EXCEPT !.pc = "pay_hook"] \in Frame /\ Top.hook_fee \in Nat
        BY <2>1 DEF DispatchPC, Frame, DispatchFrame
    <2>3. OutboundType' /\ ValueType'
        BY <1>1, <1>8, <2>2 DEF PostHook, OutboundType, ValueType, outbound
    <2>4. StackType'
        BY <1>1, <1>8, <2>2, ContinueType DEF PostHook, Returned
    <2>5. QED
        BY <1>2, <1>8, <2>3, <2>4 DEF PostHook, outbound
<1>9. ASSUME FinishDispatch
      PROVE  TypeOK'
    <2>1. OutboundType' /\ ValueType'
        BY <1>1, <1>9 DEF FinishDispatch, OutboundType, ValueType, value
    <2>2. StackType'
        BY <1>1, <1>9, PopType DEF FinishDispatch, Returned
    <2>3. QED
        BY <1>2, <1>9, <2>1, <2>2 DEF FinishDispatch
<1>10. QED
    BY <1>3, <1>4, <1>5, <1>6, <1>7, <1>8, <1>9 DEF DispatchStep

LEMMA ProcessType ==
    ASSUME TypeOK, ProcessStep
    PROVE  TypeOK'
<1>1. ConfigType /\ OutboundType /\ InboundType /\ ValueType /\ StackType
    BY TypeParts
<1>2. ASSUME UNCHANGED <<config, outbound, value>>, InboundType', StackType'
      PROVE  TypeOK'
    BY <1>1, <1>2, TypePartsNext
    DEF ConfigType, OutboundType, ValueType, config, outbound, value
<1>3. ASSUME NEW m \in Inbound, Process(m)
      PROVE  TypeOK'
    <2> DEFINE f == [op |-> "process", pc |-> "ism_query",
                     inbound |-> m, ism |-> NoContract, saved |-> Current]
    <2>1. f \in Frame
        BY DEF TypeOK, Frame, ProcessFrame, ProcessPC
    <2>2. stack' = Append(stack, f)
        BY <1>3 DEF Process
    <2> HIDE DEF f
    <2>3. StackType'
        BY <1>1, <2>1, <2>2, PushType
    <2>4. QED
        BY <1>1, <1>2, <1>3, <2>3 DEF Process, InboundType, inbound
<1>4. ASSUME Returned("ism_query"), NEW i \in Isms \cup {NoContract}, StartVerify(i)
      PROVE  Top \in ProcessFrame /\ Top.inbound \in Inbound /\ StackType'
    <2>1. Top \in ProcessFrame
        BY <1>4, TopType DEF Returned, ProcessPC
    <2>2. [Top EXCEPT !.pc = "verify", !.ism = i] \in Frame
        BY <2>1 DEF ProcessPC, Frame, ProcessFrame
    <2>3. QED
        BY <1>1, <1>4, <2>1, <2>2, ContinueType DEF StartVerify, Returned, ProcessFrame
<1>5. ASSUME NEW answer \in Isms \cup {NoContract}, ResolveIsm(answer)
      PROVE  TypeOK'
    <2> DEFINE i == IF answer = NoContract THEN default_ism ELSE answer
    <2>1. i \in Isms \cup {NoContract}
        BY <1>1 DEF ConfigType
    <2>2. Returned("ism_query") /\ StartVerify(i)
        BY <1>5 DEF ResolveIsm
    <2>3. Top.inbound \in Inbound /\ StackType'
        BY <1>4, <2>1, <2>2
    <2>4. InboundType'
        BY <1>1, <1>5, <2>3, AppendProperties DEF ResolveIsm, InboundType
    <2>5. QED
        BY <1>2, <1>5, <2>3, <2>4 DEF ResolveIsm
<1>6. ASSUME ResolveIsmFails
      PROVE  TypeOK'
    <2>1. Top.saved \in Storage
        BY <1>6, TopType DEF ResolveIsmFails, Returned
    <2>2. Top.saved.default_ism \in Isms \cup {NoContract}
        BY <2>1 DEF Storage
    <2>3. Top.inbound \in Inbound /\ StackType'
        BY <1>4, <1>6, <2>2 DEF ResolveIsmFails
    <2>4. ConfigType'
        BY <1>6, <2>1 DEF ResolveIsmFails, RestoreConfig, ConfigType, Storage
    <2>5. OutboundType' /\ ValueType'
        BY <1>6, <2>1
        DEF ResolveIsmFails, RestoreOutbound, RestoreValue, OutboundType, ValueType, Storage
    <2>6. Top.saved.processed_ids \in Seq(Inbound)
        BY <2>1 DEF Storage
    <2>7. InboundType'
        BY <1>6, <2>1, <2>3, <2>6, AppendProperties DEF ResolveIsmFails, InboundType, Storage
    <2>8. QED
        BY <2>3, <2>4, <2>5, <2>7, TypePartsNext
<1>7. ASSUME Verified
      PROVE  TypeOK'
    <2>1. Top \in ProcessFrame
        BY <1>7, TopType DEF Verified, Returned, ProcessPC
    <2>2. [Top EXCEPT !.pc = "handle"] \in Frame /\ Top.inbound \in Inbound
        BY <2>1 DEF ProcessPC, Frame, ProcessFrame
    <2>3. InboundType'
        BY <1>1, <1>7, <2>2 DEF Verified, InboundType
    <2>4. StackType'
        BY <1>1, <1>7, <2>2, ContinueType DEF Verified, Returned
    <2>5. QED
        BY <1>2, <1>7, <2>3, <2>4 DEF Verified
<1>8. ASSUME FinishProcess
      PROVE  TypeOK'
    BY <1>1, <1>2, <1>8, PopType DEF FinishProcess, Returned, InboundType, inbound
<1>9. QED
    BY <1>3, <1>5, <1>6, <1>7, <1>8 DEF ProcessStep

LEMMA AbortType ==
    ASSUME TypeOK, Abort
    PROVE  TypeOK'
<1>1. Top.saved \in Storage
    BY TopType DEF Abort
<1>2. ConfigType'
    BY <1>1 DEF Abort, RestoreConfig, ConfigType, Storage
<1>3. OutboundType'
    BY <1>1 DEF Abort, RestoreOutbound, OutboundType, Storage
<1>4. InboundType'
    BY <1>1 DEF Abort, RestoreInbound, InboundType, Storage
<1>5. ValueType'
    BY <1>1 DEF Abort, RestoreValue, ValueType, Storage
<1>6. StackType'
    BY TypeParts, PopType DEF Abort
<1>7. QED
    BY <1>2, <1>3, <1>4, <1>5, <1>6, TypePartsNext

LEMMA TypeStep == TypeOK /\ [Next]_vars => TypeOK'
<1> SUFFICES ASSUME TypeOK, [Next]_vars PROVE TypeOK'
    OBVIOUS
<1>1. CASE Next
    BY <1>1, AdminType, FeeCreditType, DispatchType, ProcessType, AbortType DEF Next
<1>2. CASE UNCHANGED vars
    BY <1>2, TypeParts, TypePartsNext
    DEF vars, config, outbound, inbound, value, ConfigType, OutboundType, InboundType,
        ValueType, StackType
<1>3. QED
    BY <1>1, <1>2

\* Every reachable state, in the middle of calls too, is well typed.
THEOREM TypeCorrect == Spec => []TypeOK
BY InitType, TypeStep, PTL DEF Spec

-----------------------------------------------------------------------------
(* The outbound log.                                                        *)
(*                                                                          *)
(* A failure makes the current state any of the states saved on the stack,  *)
(* so the invariant speaks of all of them: level j is the state frame j was *)
(* entered with, and the level above the top frame is the current state.    *)

Levels == [j \in 1..(Len(stack) + 1) |->
             IF j <= Len(stack) THEN stack[j].saved ELSE Current]

\* DispatchLog, of the state s.
LogOK(s) ==
    LET log == s.dispatched_messages
    IN  /\ Len(log) = s.nonce
        /\ \A i \in 1..Len(log) : log[i].nonce = i - 1
        /\ s.latest_dispatched_id =
             IF log = <<>> THEN NoMessage ELSE log[Len(log)]

\* What every state above the dispatch frame f keeps while f waits: before the
\* commit the nonce f's message carries is still free, and only while the
\* required hook runs is the log one message ahead of the hook.
InFlight(f, s) ==
    /\ f.pc \in {"quote_required", "quote_hook"} => s.nonce = f.message.nonce
    /\ IF f.pc = "post_required"
       THEN s.dispatched_messages = Append(s.posted, f.message)
       ELSE s.posted = s.dispatched_messages

\* The guard is down at every level below a dispatch frame and up above it,
\* which leaves room for one such frame.  F is a stack of n frames, L its levels.
Nested(n, F, L) ==
    /\ \A j \in 1..(n + 1) : LogOK(L[j])
    /\ \A j \in 1..(n + 1) : L[j].dispatching = FALSE => L[j].posted = L[j].dispatched_messages
    /\ \A j \in 1..(n + 1) : L[j].dispatching = TRUE => \E i \in 1..(j - 1) : F[i].op = "dispatch"
    /\ \A i \in 1..n : F[i].op = "dispatch" =>
          /\ L[i].dispatching = FALSE
          /\ \A j \in (i + 1)..(n + 1) : L[j].dispatching = TRUE /\ InFlight(F[i], L[j])

LogInv == Nested(Len(stack), stack, Levels)

\* The fields Nested reads.
SameEntries(s, t) ==
    /\ s.nonce = t.nonce
    /\ s.latest_dispatched_id = t.latest_dispatched_id
    /\ s.dispatched_messages = t.dispatched_messages
    /\ s.posted = t.posted

SameLog(s, t) == SameEntries(s, t) /\ s.dispatching = t.dispatching

LEMMA SameEntriesFacts ==
    ASSUME NEW s, NEW t, SameEntries(s, t)
    PROVE  /\ LogOK(t) => LogOK(s)
           /\ \A f : InFlight(f, t) => InFlight(f, s)
BY DEF SameEntries, LogOK, InFlight

\* Nothing moved.
LEMMA NestedKept ==
    ASSUME NEW n \in Nat, NEW F, NEW L, Nested(n, F, L), NEW L2,
           \A j \in 1..(n + 1) : SameLog(L2[j], L[j])
    PROVE  Nested(n, F, L2)
<1>1. \A j \in 1..(n + 1) :
         /\ LogOK(L[j]) => LogOK(L2[j])
         /\ \A f : InFlight(f, L[j]) => InFlight(f, L2[j])
    BY SameEntriesFacts DEF SameLog
<1>2. \A j \in 1..(n + 1) :
         /\ L2[j].dispatching = L[j].dispatching
         /\ L2[j].posted = L[j].posted
         /\ L2[j].dispatched_messages = L[j].dispatched_messages
    BY DEF SameLog, SameEntries
<1>3. \A i \in 1..n : F[i].op = "dispatch" =>
          /\ L2[i].dispatching = FALSE
          /\ \A j \in (i + 1)..(n + 1) : L2[j].dispatching = TRUE /\ InFlight(F[i], L2[j])
    <2> SUFFICES ASSUME NEW i \in 1..n, F[i].op = "dispatch"
                 PROVE  /\ L2[i].dispatching = FALSE
                        /\ \A j \in (i + 1)..(n + 1) :
                              L2[j].dispatching = TRUE /\ InFlight(F[i], L2[j])
        OBVIOUS
    <2>1. /\ i \in 1..(n + 1)
          /\ \A j \in (i + 1)..(n + 1) : j \in 1..(n + 1)
        OBVIOUS
    <2>2. /\ L[i].dispatching = FALSE
          /\ \A j \in (i + 1)..(n + 1) : L[j].dispatching = TRUE /\ InFlight(F[i], L[j])
        BY DEF Nested
    <2> QED
        BY <1>1, <1>2, <2>1, <2>2
<1>4. /\ \A j \in 1..(n + 1) : LogOK(L2[j])
      /\ \A j \in 1..(n + 1) :
            L2[j].dispatching = FALSE => L2[j].posted = L2[j].dispatched_messages
      /\ \A j \in 1..(n + 1) :
            L2[j].dispatching = TRUE => \E i \in 1..(j - 1) : F[i].op = "dispatch"
    BY <1>1, <1>2 DEF Nested
<1> QED
    BY <1>3, <1>4 DEF Nested

\* A process call was entered.
EnterProcess(n, F, L, F2, L2) ==
    /\ \A j \in 1..n : F2[j] = F[j]
    /\ F2[n + 1].op = "process"
    /\ \A j \in 1..(n + 1) : L2[j] = L[j]
    /\ SameLog(L2[n + 2], L[n + 1])

LEMMA NestedEnterProcess ==
    ASSUME NEW n \in Nat, NEW F, NEW L, Nested(n, F, L), NEW F2, NEW L2,
           EnterProcess(n, F, L, F2, L2)
    PROVE  Nested(n + 1, F2, L2)
<1>1. /\ LogOK(L[n + 1]) => LogOK(L2[n + 2])
      /\ \A f : InFlight(f, L[n + 1]) => InFlight(f, L2[n + 2])
    BY SameEntriesFacts DEF EnterProcess, SameLog
<1>2. /\ L2[n + 2].dispatching = L[n + 1].dispatching
      /\ L2[n + 2].posted = L[n + 1].posted
      /\ L2[n + 2].dispatched_messages = L[n + 1].dispatched_messages
    BY DEF EnterProcess, SameLog, SameEntries
<1>3. QED
    BY <1>1, <1>2, SMTT(30) DEF EnterProcess, Nested

\* A dispatch was entered: the guard was down and is now up.
EnterDispatch(n, F, L, F2, L2) ==
    /\ \A j \in 1..n : F2[j] = F[j]
    /\ F2[n + 1].op = "dispatch"
    /\ F2[n + 1].pc = "quote_required"
    /\ F2[n + 1].message.nonce = L[n + 1].nonce
    /\ \A j \in 1..(n + 1) : L2[j] = L[j]
    /\ L[n + 1].dispatching = FALSE
    /\ L2[n + 2].dispatching = TRUE
    /\ SameEntries(L2[n + 2], L[n + 1])

LEMMA NestedEnterDispatch ==
    ASSUME NEW n \in Nat, NEW F, NEW L, Nested(n, F, L), NEW F2, NEW L2,
           EnterDispatch(n, F, L, F2, L2)
    PROVE  Nested(n + 1, F2, L2)
<1>1. LogOK(L[n + 1]) /\ L[n + 1].posted = L[n + 1].dispatched_messages
    BY DEF EnterDispatch, Nested
<1>2. LogOK(L2[n + 2])
    BY <1>1, SameEntriesFacts DEF EnterDispatch
<1>3. InFlight(F2[n + 1], L2[n + 2])
    BY <1>1 DEF EnterDispatch, SameEntries, InFlight
<1>4. \A i \in 1..n : F[i].op # "dispatch"
    BY DEF EnterDispatch, Nested
<1>5. \A j \in 1..(n + 1) : LogOK(L2[j])
    BY DEF EnterDispatch, Nested
<1>6. \A j \in 1..(n + 1) : L2[j].dispatching = FALSE => L2[j].posted = L2[j].dispatched_messages
    <2>1. \A j \in 1..(n + 1) : L[j].dispatching = FALSE => L[j].posted = L[j].dispatched_messages
        BY DEF Nested
    <2>2. QED
        BY <2>1 DEF EnterDispatch
<1>7. \A j \in 1..(n + 1) : L2[j].dispatching # TRUE
    <2>1. \A j \in 1..(n + 1) : L[j].dispatching = TRUE => \E i \in 1..(j - 1) : F[i].op = "dispatch"
        BY DEF Nested
    <2>2. \A j \in 1..(n + 1) : L[j].dispatching # TRUE
        <3>1. \A j \in 1..(n + 1) : 1..(j - 1) \subseteq 1..n
            OBVIOUS
        <3>2. QED
            BY <1>4, <2>1, <3>1
    <2>3. QED
        BY <2>2 DEF EnterDispatch
<1>8. \A i \in 1..n : F2[i].op # "dispatch"
    BY <1>4 DEF EnterDispatch
<1>9. L2[n + 1].dispatching = FALSE /\ L2[n + 2].dispatching = TRUE /\ F2[n + 1].op = "dispatch"
    BY DEF EnterDispatch
<1>10. 1..(n + 2) = 1..(n + 1) \cup {n + 2} /\ 1..(n + 1) = 1..n \cup {n + 1}
    OBVIOUS
<1>11. \A j \in 1..(n + 2) : LogOK(L2[j])
    BY <1>2, <1>5, <1>10
<1>12. \A j \in 1..(n + 2) :
          L2[j].dispatching = FALSE => L2[j].posted = L2[j].dispatched_messages
    BY <1>6, <1>9, <1>10
<1>13. \A j \in 1..(n + 2) :
          L2[j].dispatching = TRUE => \E i \in 1..(j - 1) : F2[i].op = "dispatch"
    <2>1. ASSUME NEW j \in 1..(n + 2), L2[j].dispatching = TRUE
          PROVE  j = n + 2
        BY <1>7, <1>10, <2>1
    <2>2. n + 1 \in 1..((n + 2) - 1)
        OBVIOUS
    <2>3. QED
        BY <1>9, <2>1, <2>2
<1>14. \A i \in 1..(n + 1) : F2[i].op = "dispatch" =>
          /\ L2[i].dispatching = FALSE
          /\ \A j \in (i + 1)..(n + 2) : L2[j].dispatching = TRUE /\ InFlight(F2[i], L2[j])
    <2>1. ASSUME NEW i \in 1..(n + 1), F2[i].op = "dispatch"
          PROVE  i = n + 1 /\ (i + 1)..(n + 2) = {n + 2}
        BY <1>8, <1>10, <2>1
    <2>2. QED
        BY <1>3, <1>9, <2>1
<1>15. (n + 1) + 1 = n + 2
    OBVIOUS
<1>16. QED
    BY <1>11, <1>12, <1>13, <1>14, <1>15 DEF Nested

\* The top frame waits at another call, for which InFlight asks the same.
Wait(n, F, L, F2, L2) ==
    /\ \A j \in 1..(n - 1) : F2[j] = F[j]
    /\ F2[n].op = F[n].op
    /\ F[n].op = "dispatch" => \A s : InFlight(F[n], s) => InFlight(F2[n], s)
    /\ \A j \in 1..n : L2[j] = L[j]
    /\ SameLog(L2[n + 1], L[n + 1])

LEMMA NestedWait ==
    ASSUME NEW n \in Nat \ {0}, NEW F, NEW L, Nested(n, F, L), NEW F2, NEW L2,
           Wait(n, F, L, F2, L2)
    PROVE  Nested(n, F2, L2)
<1>1. \A j \in 1..n : F2[j].op = F[j].op
    BY DEF Wait
<1>2. \A j \in 1..(n + 1) : SameLog(L2[j], L[j])
    BY DEF Wait, SameLog, SameEntries
<1>3. Nested(n, F, L2)
    BY <1>2, NestedKept
<1>4. QED
    BY <1>1, <1>3 DEF Wait, Nested

\* The call a process frame made failed and the frame goes on from where it was
\* entered.
Undo(n, F, L, F2, L2) ==
    /\ \A j \in 1..(n - 1) : F2[j] = F[j]
    /\ F[n].op = "process"
    /\ F2[n].op = "process"
    /\ \A j \in 1..n : L2[j] = L[j]
    /\ SameLog(L2[n + 1], L[n])

LEMMA NestedUndo ==
    ASSUME NEW n \in Nat \ {0}, NEW F, NEW L, Nested(n, F, L), NEW F2, NEW L2,
           Undo(n, F, L, F2, L2)
    PROVE  Nested(n, F2, L2)
BY SameEntriesFacts DEF Undo, Nested, SameLog, SameEntries

\* A frame failed: its saved state is current again.
Fail(n, F, L, F2, L2) ==
    /\ \A j \in 1..(n - 1) : F2[j] = F[j]
    /\ \A j \in 1..(n - 1) : L2[j] = L[j]
    /\ SameLog(L2[n], L[n])

LEMMA NestedFail ==
    ASSUME NEW n \in Nat \ {0}, NEW F, NEW L, Nested(n, F, L), NEW F2, NEW L2,
           Fail(n, F, L, F2, L2)
    PROVE  Nested(n - 1, F2, L2)
BY SameEntriesFacts DEF Fail, Nested, SameLog, SameEntries

\* A process call returned.
LeaveProcess(n, F, L, F2, L2) ==
    /\ \A j \in 1..(n - 1) : F2[j] = F[j]
    /\ F[n].op = "process"
    /\ \A j \in 1..(n - 1) : L2[j] = L[j]
    /\ SameLog(L2[n], L[n + 1])

LEMMA NestedLeaveProcess ==
    ASSUME NEW n \in Nat \ {0}, NEW F, NEW L, Nested(n, F, L), NEW F2, NEW L2,
           LeaveProcess(n, F, L, F2, L2)
    PROVE  Nested(n - 1, F2, L2)
BY SameEntriesFacts DEF LeaveProcess, Nested, SameLog, SameEntries

\* A dispatch frame on top is the only one, and the log is its business alone.
LEMMA NestedTopDispatch ==
    ASSUME NEW n \in Nat \ {0}, NEW F, NEW L, Nested(n, F, L), F[n].op = "dispatch"
    PROVE  /\ \A i \in 1..(n - 1) : F[i].op # "dispatch"
           /\ \A j \in 1..n : L[j].dispatching = FALSE
           /\ LogOK(L[n + 1])
           /\ InFlight(F[n], L[n + 1])
           /\ L[n + 1].dispatching = TRUE
<1>1. L[n].dispatching = FALSE
    BY DEF Nested
<1>2. \A i \in 1..(n - 1) : F[i].op # "dispatch"
    BY <1>1 DEF Nested
<1>3. QED
    BY <1>1, <1>2 DEF Nested

\* A dispatch moved on or changed the log: enough that the current state is
\* right again.
Advance(n, F, L, F2, L2) ==
    /\ \A j \in 1..(n - 1) : F2[j] = F[j]
    /\ F[n].op = "dispatch"
    /\ F2[n].op = "dispatch"
    /\ \A j \in 1..n : L2[j] = L[j]
    /\ LogOK(L2[n + 1])
    /\ L2[n + 1].dispatching = TRUE
    /\ InFlight(F2[n], L2[n + 1])

LEMMA NestedAdvance ==
    ASSUME NEW n \in Nat \ {0}, NEW F, NEW L, Nested(n, F, L), NEW F2, NEW L2,
           Advance(n, F, L, F2, L2)
    PROVE  Nested(n, F2, L2)
BY NestedTopDispatch DEF Advance, Nested

\* A dispatch returned: the guard is down.
LeaveDispatch(n, F, L, F2, L2) ==
    /\ \A j \in 1..(n - 1) : F2[j] = F[j]
    /\ F[n].op = "dispatch"
    /\ F[n].pc \in {"post_hook", "pay_hook"}
    /\ \A j \in 1..(n - 1) : L2[j] = L[j]
    /\ L2[n].dispatching = FALSE
    /\ SameEntries(L2[n], L[n + 1])

LEMMA NestedLeaveDispatch ==
    ASSUME NEW n \in Nat \ {0}, NEW F, NEW L, Nested(n, F, L), NEW F2, NEW L2,
           LeaveDispatch(n, F, L, F2, L2)
    PROVE  Nested(n - 1, F2, L2)
<1>1. LogOK(L[n + 1]) /\ InFlight(F[n], L[n + 1])
    BY NestedTopDispatch DEF LeaveDispatch
<1>2. LogOK(L2[n])
    BY <1>1, SameEntriesFacts DEF LeaveDispatch
<1>3. L2[n].posted = L2[n].dispatched_messages
    BY <1>1 DEF LeaveDispatch, InFlight, SameEntries
<1>4. QED
    BY <1>2, <1>3, NestedTopDispatch DEF LeaveDispatch, Nested

\* The levels after a step, for each thing a step can do to the stack.
LEMMA LevelsPush ==
    ASSUME StackType, NEW n, n = Len(stack),
           NEW f \in Frame, stack' = Append(stack, f), f.saved = Current
    PROVE  /\ n \in Nat
           /\ Len(stack') = n + 1
           /\ \A j \in 1..n : stack'[j] = stack[j]
           /\ stack'[n + 1] = f
           /\ \A j \in 1..(n + 1) : Levels'[j] = Levels[j]
           /\ Levels'[n + 2] = Current'
           /\ Levels[n + 1] = Current
<1>1. /\ n \in Nat
      /\ Len(stack') = n + 1
      /\ \A j \in 1..n : stack'[j] = stack[j]
      /\ stack'[n + 1] = f
    BY AppendProperties, LenProperties DEF StackType
<1>2. \A j \in 1..n : Levels'[j] = Levels[j]
    BY <1>1 DEF Levels
<1>3. Levels'[n + 1] = Current /\ Levels[n + 1] = Current /\ Levels'[n + 2] = Current'
    BY <1>1 DEF Levels
<1>4. QED
    BY <1>1, <1>2, <1>3

LEMMA LevelsContinue ==
    ASSUME StackType, stack # <<>>, NEW n, n = Len(stack),
           NEW f \in Frame, Continue(f), f.saved = Top.saved
    PROVE  /\ n \in Nat \ {0}
           /\ Len(stack') = n
           /\ \A j \in 1..(n - 1) : stack'[j] = stack[j]
           /\ stack'[n] = f
           /\ \A j \in 1..n : Levels'[j] = Levels[j]
           /\ Levels'[n + 1] = Current'
           /\ Levels[n + 1] = Current
           /\ Levels[n] = Top.saved
<1>1. /\ n \in Nat \ {0}
      /\ Len(stack') = n
      /\ \A j \in 1..(n - 1) : stack'[j] = stack[j]
      /\ stack'[n] = f
    BY ContinueProperties, EmptySeq DEF StackType, Continue
<1>2. \A j \in 1..(n - 1) : Levels'[j] = Levels[j]
    BY <1>1 DEF Levels
<1>3. Levels'[n + 1] = Current' /\ Levels[n + 1] = Current
    BY <1>1 DEF Levels
<1>4. Levels'[n] = f.saved /\ Levels[n] = Top.saved
    BY <1>1 DEF Levels, Top
<1>5. QED
    BY <1>1, <1>2, <1>3, <1>4

LEMMA LevelsPop ==
    ASSUME StackType, stack # <<>>, NEW n, n = Len(stack), stack' = Pop
    PROVE  /\ n \in Nat \ {0}
           /\ Len(stack') = n - 1
           /\ \A j \in 1..(n - 1) : stack'[j] = stack[j]
           /\ \A j \in 1..(n - 1) : Levels'[j] = Levels[j]
           /\ Levels'[n] = Current'
           /\ Levels[n + 1] = Current
           /\ Levels[n] = Top.saved
<1>1. /\ n \in Nat \ {0}
      /\ Len(stack') = n - 1
      /\ \A j \in 1..(n - 1) : stack'[j] = stack[j]
    BY PopProperties, EmptySeq DEF StackType, Pop
<1>2. \A j \in 1..(n - 1) : Levels'[j] = Levels[j]
    BY <1>1 DEF Levels
<1>3. Levels'[n] = Current' /\ Levels[n + 1] = Current
    BY <1>1 DEF Levels
<1>4. Levels[n] = Top.saved
    BY <1>1 DEF Levels, Top
<1>5. QED
    BY <1>1, <1>2, <1>3, <1>4

LEMMA SameLogCurrent == UNCHANGED outbound => SameLog(Current', Current)
BY DEF outbound, SameLog, SameEntries, Current

\* A step that touches neither the log nor the stack.
LEMMA LogKept ==
    ASSUME StackType, LogInv, UNCHANGED <<outbound, stack>>
    PROVE  LogInv'
<1>1. PICK n : n = Len(stack)
    OBVIOUS
<1>2. n \in Nat /\ Len(stack') = n /\ stack' = stack
    BY <1>1, LenProperties DEF StackType
<1>3. \A j \in 1..(n + 1) : SameLog(Levels'[j], Levels[j])
    BY <1>1, <1>2, SameLogCurrent DEF SameLog, SameEntries, Levels
<1>4. Nested(n, stack, Levels')
    BY <1>1, <1>2, <1>3, NestedKept DEF LogInv
<1>5. QED
    BY <1>2, <1>4 DEF LogInv

LEMMA InitLog == Init => LogInv
<1>1. ASSUME Init PROVE LogInv
    <2>1. Len(stack) = 0 /\ Levels[1] = Current
        BY <1>1, EmptySeq DEF Init, Levels
    <2>2. /\ Current.posted = <<>>
          /\ Current.dispatched_messages = <<>>
          /\ Current.nonce = 0
          /\ Current.latest_dispatched_id = NoMessage
          /\ Current.dispatching = FALSE
        BY <1>1 DEF Init, Current
    <2>3. LogOK(Current)
        BY <2>2, EmptySeq DEF LogOK
    <2>4. QED
        BY <2>1, <2>2, <2>3 DEF LogInv, Nested
<1>2. QED
    BY <1>1

LEMMA DispatchStepLog ==
    ASSUME TypeOK, LogInv, DispatchStep
    PROVE  LogInv'
<1>1. ConfigType /\ OutboundType /\ InboundType /\ ValueType /\ StackType
    BY TypeParts
<1>2. PICK n : n = Len(stack)
    OBVIOUS
<1>3. Nested(n, stack, Levels)
    BY <1>2 DEF LogInv
<1>4. ASSUME NEW caller \in Callers, NEW hook \in Hooks \cup {NoContract},
             Dispatch(caller, hook)
      PROVE  LogInv'
    <2> DEFINE f == EnteredDispatch(caller, hook)
    <2>1. f \in Frame
        BY EnteredDispatchType
    <2>2. stack' = Append(stack, f) /\ f.saved = Current
        BY <1>4 DEF Dispatch, EnteredDispatch
    <2>3. /\ f.op = "dispatch" /\ f.pc = "quote_required"
          /\ f.message.nonce = Current.nonce
          /\ Current.dispatching = FALSE
          /\ Current'.dispatching = TRUE
          /\ SameEntries(Current', Current)
        BY <1>1, <1>4 DEF Dispatch, EnteredDispatch, Current, SameEntries, OutboundType
    <2> HIDE DEF f
    <2>4. /\ n \in Nat
          /\ Len(stack') = n + 1
          /\ \A j \in 1..n : stack'[j] = stack[j]
          /\ stack'[n + 1] = f
          /\ \A j \in 1..(n + 1) : Levels'[j] = Levels[j]
          /\ Levels'[n + 2] = Current'
          /\ Levels[n + 1] = Current
        BY <1>1, <1>2, <2>1, <2>2, LevelsPush
    <2>5. EnterDispatch(n, stack, Levels, stack', Levels')
        BY <2>3, <2>4 DEF EnterDispatch
    <2>6. Nested(n + 1, stack', Levels')
        BY <1>3, <2>4, <2>5, NestedEnterDispatch
    <2>7. QED
        BY <2>4, <2>6 DEF LogInv
<1>5. ASSUME Top \in DispatchFrame, NEW f \in DispatchFrame,
             stack # <<>>, Continue(f), f.saved = Top.saved,
             \A s : InFlight(Top, s) => InFlight(f, s),
             SameLog(Current', Current)
      PROVE  LogInv'
    <2>1. f \in Frame /\ f.op = "dispatch" /\ Top.op = "dispatch" /\ Top = stack[n]
        BY <1>2, <1>5 DEF Frame, DispatchFrame, Top
    <2>2. /\ n \in Nat \ {0}
          /\ Len(stack') = n
          /\ \A j \in 1..(n - 1) : stack'[j] = stack[j]
          /\ stack'[n] = f
          /\ \A j \in 1..n : Levels'[j] = Levels[j]
          /\ Levels'[n + 1] = Current'
          /\ Levels[n + 1] = Current
        BY <1>1, <1>2, <1>5, <2>1, LevelsContinue
    <2>3. Wait(n, stack, Levels, stack', Levels')
        BY <1>5, <2>1, <2>2 DEF Wait
    <2>4. QED
        BY <1>3, <2>2, <2>3, NestedWait DEF LogInv
<1>6. ASSUME Top \in DispatchFrame, NEW f \in DispatchFrame,
             stack # <<>>, Continue(f), f.saved = Top.saved,
             LogOK(Current) /\ InFlight(Top, Current) /\ Current.dispatching = TRUE
                => LogOK(Current') /\ InFlight(f, Current') /\ Current'.dispatching = TRUE
      PROVE  LogInv'
    <2>1. f \in Frame /\ f.op = "dispatch" /\ Top.op = "dispatch" /\ Top = stack[n]
        BY <1>2, <1>6 DEF Frame, DispatchFrame, Top
    <2>2. /\ n \in Nat \ {0}
          /\ Len(stack') = n
          /\ \A j \in 1..(n - 1) : stack'[j] = stack[j]
          /\ stack'[n] = f
          /\ \A j \in 1..n : Levels'[j] = Levels[j]
          /\ Levels'[n + 1] = Current'
          /\ Levels[n + 1] = Current
        BY <1>1, <1>2, <1>6, <2>1, LevelsContinue
    <2>3. LogOK(Current) /\ InFlight(Top, Current) /\ Current.dispatching = TRUE
        BY <1>3, <2>1, <2>2, NestedTopDispatch
    <2>4. Advance(n, stack, Levels, stack', Levels')
        BY <1>6, <2>1, <2>2, <2>3 DEF Advance
    <2>5. QED
        BY <1>3, <2>2, <2>4, NestedAdvance DEF LogInv
<1>7. ASSUME NEW fee \in Fees, QuoteRequired(fee)
      PROVE  LogInv'
    <2> DEFINE f == [Top EXCEPT !.pc = "quote_hook", !.required_fee = fee]
    <2>1. Top \in DispatchFrame /\ Top.pc = "quote_required"
        BY <1>7, TopType DEF QuoteRequired, Returned, DispatchPC
    <2>2. f \in DispatchFrame
        BY <2>1, MailboxAssumption DEF DispatchFrame, DispatchPC
    <2>3. f.saved = Top.saved /\ \A s : InFlight(Top, s) => InFlight(f, s)
        BY <2>1 DEF DispatchFrame, InFlight
    <2>4. QED
        BY <1>5, <1>7, <2>1, <2>2, <2>3, SameLogCurrent DEF QuoteRequired, Returned
<1>8. ASSUME NEW fee \in Fees, QuoteHook(fee)
      PROVE  LogInv'
    <2> DEFINE f == [Top EXCEPT !.pc = "post_required", !.hook_fee = fee,
                                !.required = required_hook]
               m == Top.message
    <2>1. Top \in DispatchFrame /\ Top.pc = "quote_hook" /\ m \in Message
        BY <1>8, TopType DEF QuoteHook, Returned, DispatchPC, DispatchFrame
    <2>2. f \in DispatchFrame /\ f.saved = Top.saved /\ f.message = m /\ f.pc = "post_required"
        BY <1>1, <2>1, MailboxAssumption DEF DispatchFrame, DispatchPC, ConfigType
    <2>3. /\ latest_dispatched_id' = m
          /\ dispatched_messages' = Append(dispatched_messages, m)
          /\ nonce' = nonce + 1
          /\ UNCHANGED <<dispatching, posted>>
          /\ stack # <<>> /\ Continue(f)
        BY <1>8 DEF QuoteHook, Returned
    <2> HIDE DEF f, m
    <2>4. ASSUME LogOK(Current), InFlight(Top, Current), Current.dispatching = TRUE
          PROVE  LogOK(Current') /\ InFlight(f, Current') /\ Current'.dispatching = TRUE
        <3>1. /\ Current.nonce = m.nonce
              /\ Current.posted = Current.dispatched_messages
            BY <2>1, <2>4 DEF InFlight, m
        <3>2. /\ Current'.dispatching = TRUE
              /\ Current'.posted = Current.posted
              /\ Current'.dispatched_messages = Append(Current.dispatched_messages, m)
              /\ Current'.nonce = Current.nonce + 1
              /\ Current'.latest_dispatched_id = m
            BY <2>3, <2>4 DEF Current
        <3>3. Current.dispatched_messages \in Seq(Message)
            BY <1>1 DEF Current, OutboundType
        <3>4. LET log == Current.dispatched_messages
                  log2 == Current'.dispatched_messages
              IN  /\ Len(log2) = Len(log) + 1
                  /\ \A i \in 1..Len(log) : log2[i] = log[i]
                  /\ log2[Len(log) + 1] = m
                  /\ log2 # <<>>
            BY <2>1, <3>2, <3>3, AppendProperties, EmptySeq
        <3>5. LogOK(Current')
            BY <2>4, <3>1, <3>2, <3>3, <3>4, LenProperties DEF LogOK
        <3>6. InFlight(f, Current')
            BY <2>2, <3>1, <3>2 DEF InFlight
        <3>7. QED
            BY <3>2, <3>5, <3>6
    <2>5. QED
        BY <1>6, <2>1, <2>2, <2>3, <2>4
<1>9. ASSUME PostRequired
      PROVE  LogInv'
    <2> DEFINE pc == IF Top.required_fee = 0 THEN "post_hook" ELSE "pay_required"
               f == [Top EXCEPT !.pc = pc]
    <2>1. Top \in DispatchFrame /\ Top.pc = "post_required"
        BY <1>9, TopType DEF PostRequired, Returned, DispatchPC
    <2>2. pc \in DispatchPC /\ pc \in {"post_hook", "pay_required"}
        BY DEF DispatchPC
    <2>3. Continue(f) /\ stack # <<>>
        BY <1>9 DEF PostRequired, Returned
    <2> HIDE DEF pc
    <2>4. f \in DispatchFrame /\ f.saved = Top.saved /\ f.pc \in {"post_hook", "pay_required"}
        BY <2>1, <2>2 DEF DispatchFrame
    <2> HIDE DEF f
    <2>5. ASSUME LogOK(Current), InFlight(Top, Current), Current.dispatching = TRUE
          PROVE  LogOK(Current') /\ InFlight(f, Current') /\ Current'.dispatching = TRUE
        <3>1. Current.dispatched_messages = Append(Current.posted, Top.message)
            BY <2>1, <2>5 DEF InFlight
        <3>2. /\ Current'.dispatching = Current.dispatching
              /\ Current'.posted = Append(Current.posted, Top.message)
              /\ Current'.dispatched_messages = Current.dispatched_messages
              /\ Current'.nonce = Current.nonce
              /\ Current'.latest_dispatched_id = Current.latest_dispatched_id
            BY <1>9 DEF PostRequired, Current
        <3>3. LogOK(Current')
            BY <2>5, <3>2 DEF LogOK
        <3>4. InFlight(f, Current')
            BY <2>4, <3>1, <3>2 DEF InFlight
        <3>5. QED
            BY <2>5, <3>2, <3>3, <3>4
    <2>6. QED
        BY <1>6, <2>1, <2>3, <2>4, <2>5
<1>10. ASSUME PayRequired
       PROVE  LogInv'
    <2> DEFINE f == [Top EXCEPT !.pc = "post_hook"]
    <2>1. Top \in DispatchFrame /\ Top.pc = "pay_required"
        BY <1>10, TopType DEF PayRequired, Returned, DispatchPC
    <2>2. f \in DispatchFrame
        BY <2>1 DEF DispatchFrame, DispatchPC
    <2>3. f.saved = Top.saved /\ \A s : InFlight(Top, s) => InFlight(f, s)
        BY <2>1 DEF DispatchFrame, InFlight
    <2>4. QED
        BY <1>5, <1>10, <2>1, <2>2, <2>3, SameLogCurrent DEF PayRequired, Returned
<1>11. ASSUME PostHook
       PROVE  LogInv'
    <2> DEFINE f == [Top EXCEPT !.pc = "pay_hook"]
    <2>1. Top \in DispatchFrame /\ Top.pc = "post_hook"
        BY <1>11, TopType DEF PostHook, Returned, DispatchPC
    <2>2. f \in DispatchFrame
        BY <2>1 DEF DispatchFrame, DispatchPC
    <2>3. f.saved = Top.saved /\ \A s : InFlight(Top, s) => InFlight(f, s)
        BY <2>1 DEF DispatchFrame, InFlight
    <2>4. QED
        BY <1>5, <1>11, <2>1, <2>2, <2>3, SameLogCurrent DEF PostHook, Returned
<1>12. ASSUME FinishDispatch
       PROVE  LogInv'
    <2>1. stack # <<>> /\ Top.pc \in {"post_hook", "pay_hook"} /\ Top = stack[n] /\ stack' = Pop
        BY <1>2, <1>12 DEF FinishDispatch, Returned, Top
    <2>2. Top.op = "dispatch"
        BY <2>1, TopType DEF DispatchPC, DispatchFrame
    <2>3. /\ n \in Nat \ {0}
          /\ Len(stack') = n - 1
          /\ \A j \in 1..(n - 1) : stack'[j] = stack[j]
          /\ \A j \in 1..(n - 1) : Levels'[j] = Levels[j]
          /\ Levels'[n] = Current'
          /\ Levels[n + 1] = Current
        BY <1>1, <1>2, <2>1, LevelsPop
    <2>4. Current'.dispatching = FALSE /\ SameEntries(Current', Current)
        BY <1>12 DEF FinishDispatch, Current, SameEntries
    <2>5. LeaveDispatch(n, stack, Levels, stack', Levels')
        BY <2>1, <2>2, <2>3, <2>4 DEF LeaveDispatch
    <2>6. QED
        BY <1>3, <2>3, <2>5, NestedLeaveDispatch DEF LogInv
<1>13. QED
    BY <1>4, <1>7, <1>8, <1>9, <1>10, <1>11, <1>12 DEF DispatchStep

\* What a failing call or the frame's saved state puts back, as a level.
LEMMA Restored ==
    ASSUME NEW s, RestoreOutbound(s)
    PROVE  SameLog(Current', s)
BY DEF RestoreOutbound, SameLog, SameEntries, Current

LEMMA ProcessStepLog ==
    ASSUME TypeOK, LogInv, ProcessStep
    PROVE  LogInv'
<1>1. ConfigType /\ OutboundType /\ InboundType /\ ValueType /\ StackType
    BY TypeParts
<1>2. PICK n : n = Len(stack)
    OBVIOUS
<1>3. Nested(n, stack, Levels)
    BY <1>2 DEF LogInv
<1>4. ASSUME NEW m \in Inbound, Process(m)
      PROVE  LogInv'
    <2> DEFINE f == [op |-> "process", pc |-> "ism_query",
                     inbound |-> m, ism |-> NoContract, saved |-> Current]
    <2>1. f \in Frame
        BY DEF TypeOK, Frame, ProcessFrame, ProcessPC
    <2>2. stack' = Append(stack, f) /\ f.saved = Current /\ f.op = "process"
        BY <1>4 DEF Process
    <2>3. SameLog(Current', Current)
        BY <1>4, SameLogCurrent DEF Process
    <2> HIDE DEF f
    <2>4. /\ n \in Nat
          /\ Len(stack') = n + 1
          /\ \A j \in 1..n : stack'[j] = stack[j]
          /\ stack'[n + 1] = f
          /\ \A j \in 1..(n + 1) : Levels'[j] = Levels[j]
          /\ Levels'[n + 2] = Current'
          /\ Levels[n + 1] = Current
        BY <1>1, <1>2, <2>1, <2>2, LevelsPush
    <2>5. EnterProcess(n, stack, Levels, stack', Levels')
        BY <2>2, <2>3, <2>4 DEF EnterProcess
    <2>6. Nested(n + 1, stack', Levels')
        BY <1>3, <2>4, <2>5, NestedEnterProcess
    <2>7. QED
        BY <2>4, <2>6 DEF LogInv
<1>5. ASSUME stack # <<>>, Top \in ProcessFrame, NEW f \in ProcessFrame,
             Continue(f), f.saved = Top.saved
      PROVE  /\ n \in Nat \ {0}
             /\ Len(stack') = n
             /\ stack[n].op = "process"
             /\ stack'[n].op = "process"
             /\ \A j \in 1..(n - 1) : stack'[j] = stack[j]
             /\ \A j \in 1..n : Levels'[j] = Levels[j]
             /\ Levels'[n + 1] = Current'
             /\ Levels[n + 1] = Current
             /\ Levels[n] = Top.saved
    <2>1. f \in Frame /\ f.op = "process" /\ Top.op = "process" /\ Top = stack[n]
        BY <1>2, <1>5 DEF Frame, ProcessFrame, Top
    <2>2. /\ n \in Nat \ {0}
          /\ Len(stack') = n
          /\ \A j \in 1..(n - 1) : stack'[j] = stack[j]
          /\ stack'[n] = f
          /\ \A j \in 1..n : Levels'[j] = Levels[j]
          /\ Levels'[n + 1] = Current'
          /\ Levels[n + 1] = Current
          /\ Levels[n] = Top.saved
        BY <1>1, <1>2, <1>5, <2>1, LevelsContinue
    <2>3. QED
        BY <2>1, <2>2
<1>6. ASSUME stack # <<>>, Top \in ProcessFrame, NEW f \in ProcessFrame,
             Continue(f), f.saved = Top.saved, SameLog(Current', Current)
      PROVE  LogInv'
    <2>1. n \in Nat \ {0} /\ Len(stack') = n
        BY <1>5, <1>6
    <2>2. Wait(n, stack, Levels, stack', Levels')
        BY <1>5, <1>6 DEF Wait
    <2>3. QED
        BY <1>3, <2>1, <2>2, NestedWait DEF LogInv
<1>7. ASSUME Returned("ism_query"), NEW i \in Isms \cup {NoContract}, StartVerify(i)
      PROVE  /\ Top \in ProcessFrame
             /\ \E f \in ProcessFrame : Continue(f) /\ f.saved = Top.saved
    <2>1. Top \in ProcessFrame
        BY <1>7, TopType DEF Returned, ProcessPC
    <2> DEFINE f == [Top EXCEPT !.pc = "verify", !.ism = i]
    <2>2. f \in ProcessFrame /\ f.saved = Top.saved
        BY <2>1 DEF ProcessPC, ProcessFrame
    <2>3. Continue(f)
        BY <1>7 DEF StartVerify
    <2>4. QED
        BY <2>1, <2>2, <2>3
<1>8. ASSUME NEW answer \in Isms \cup {NoContract}, ResolveIsm(answer)
      PROVE  LogInv'
    <2> DEFINE i == IF answer = NoContract THEN default_ism ELSE answer
    <2>1. i \in Isms \cup {NoContract}
        BY <1>1 DEF ConfigType
    <2>2. Returned("ism_query") /\ StartVerify(i) /\ stack # <<>>
        BY <1>8 DEF ResolveIsm, Returned
    <2>3. SameLog(Current', Current)
        BY <1>8, SameLogCurrent DEF ResolveIsm
    <2>4. QED
        BY <1>6, <1>7, <2>1, <2>2, <2>3
<1>9. ASSUME ResolveIsmFails
      PROVE  LogInv'
    <2>1. Returned("ism_query") /\ StartVerify(Top.saved.default_ism) /\ stack # <<>>
        BY <1>9 DEF ResolveIsmFails, Returned
    <2>2. Top.saved.default_ism \in Isms \cup {NoContract}
        BY <2>1, TopType DEF Storage
    <2>3. SameLog(Current', Top.saved)
        BY <1>9, Restored DEF ResolveIsmFails
    <2>4. PICK f \in ProcessFrame : Continue(f) /\ f.saved = Top.saved
        BY <1>7, <2>1, <2>2
    <2>5. Top \in ProcessFrame
        BY <1>7, <2>1, <2>2
    <2>6. n \in Nat \ {0} /\ Len(stack') = n
        BY <1>5, <2>1, <2>4, <2>5
    <2>7. Undo(n, stack, Levels, stack', Levels')
        BY <1>5, <2>1, <2>3, <2>4, <2>5 DEF Undo
    <2>8. QED
        BY <1>3, <2>6, <2>7, NestedUndo DEF LogInv
<1>10. ASSUME Verified
       PROVE  LogInv'
    <2> DEFINE f == [Top EXCEPT !.pc = "handle"]
    <2>1. Top \in ProcessFrame /\ stack # <<>>
        BY <1>10, TopType DEF Verified, Returned, ProcessPC
    <2>2. f \in ProcessFrame /\ f.saved = Top.saved
        BY <2>1 DEF ProcessPC, ProcessFrame
    <2>3. Continue(f)
        BY <1>10 DEF Verified
    <2>4. SameLog(Current', Current)
        BY <1>10, SameLogCurrent DEF Verified
    <2>5. QED
        BY <1>6, <2>1, <2>2, <2>3, <2>4
<1>11. ASSUME FinishProcess
       PROVE  LogInv'
    <2>1. stack # <<>> /\ Top.pc = "handle" /\ Top = stack[n] /\ stack' = Pop
        BY <1>2, <1>11 DEF FinishProcess, Returned, Top
    <2>2. Top.op = "process"
        BY <2>1, TopType DEF ProcessPC, ProcessFrame
    <2>3. /\ n \in Nat \ {0}
          /\ Len(stack') = n - 1
          /\ \A j \in 1..(n - 1) : stack'[j] = stack[j]
          /\ \A j \in 1..(n - 1) : Levels'[j] = Levels[j]
          /\ Levels'[n] = Current'
          /\ Levels[n + 1] = Current
        BY <1>1, <1>2, <2>1, LevelsPop
    <2>4. SameLog(Current', Current)
        BY <1>11, SameLogCurrent DEF FinishProcess
    <2>5. LeaveProcess(n, stack, Levels, stack', Levels')
        BY <2>1, <2>2, <2>3, <2>4 DEF LeaveProcess
    <2>6. QED
        BY <1>3, <2>3, <2>5, NestedLeaveProcess DEF LogInv
<1>12. QED
    BY <1>4, <1>8, <1>9, <1>10, <1>11 DEF ProcessStep

LEMMA AbortLog ==
    ASSUME TypeOK, LogInv, Abort
    PROVE  LogInv'
<1>1. StackType
    BY TypeParts
<1>2. PICK n : n = Len(stack)
    OBVIOUS
<1>3. Nested(n, stack, Levels)
    BY <1>2 DEF LogInv
<1>4. stack # <<>> /\ stack' = Pop /\ SameLog(Current', Top.saved)
    BY Restored DEF Abort
<1>5. /\ n \in Nat \ {0}
      /\ Len(stack') = n - 1
      /\ \A j \in 1..(n - 1) : stack'[j] = stack[j]
      /\ \A j \in 1..(n - 1) : Levels'[j] = Levels[j]
      /\ Levels'[n] = Current'
      /\ Levels[n] = Top.saved
    BY <1>1, <1>2, <1>4, LevelsPop
<1>6. Fail(n, stack, Levels, stack', Levels')
    BY <1>4, <1>5 DEF Fail
<1>7. QED
    BY <1>3, <1>5, <1>6, NestedFail DEF LogInv

LEMMA OtherStepsLog ==
    ASSUME TypeOK, LogInv, Deploy \/ FeeCredit \/ Admin \/ UNCHANGED vars
    PROVE  LogInv'
<1>1. StackType
    BY TypeParts
<1>2. UNCHANGED <<outbound, stack>>
    <2>1. CASE Deploy
        BY <2>1 DEF Deploy, Initialize
    <2>2. CASE FeeCredit
        BY <2>2 DEF FeeCredit, FundDispatch, WithdrawDispatchCredit
    <2>3. CASE Admin
        BY <2>3 DEF Admin, SetDefaultIsm, SetDefaultHook, SetRequiredHook,
                    TransferOwnership, RenounceOwnership
    <2>4. CASE UNCHANGED vars
        BY <2>4 DEF vars
    <2>5. QED
        BY <2>1, <2>2, <2>3, <2>4
<1>3. QED
    BY <1>1, <1>2, LogKept

\* Every state a failure can fall back to, and the current one, has a
\* consistent log, guard and required hook (LogInv), in every reachable state.
THEOREM LogCorrect == Spec => []LogInv
<1>1. TypeOK /\ LogInv /\ [Next]_vars => LogInv'
    <2> SUFFICES ASSUME TypeOK, LogInv, [Next]_vars PROVE LogInv'
        OBVIOUS
    <2>1. QED
        BY DispatchStepLog, ProcessStepLog, AbortLog, OtherStepsLog DEF Next
<1>2. QED
    BY InitLog, TypeCorrect, <1>1, PTL DEF Spec

\* The dispatch frames and the current state, as LogInv sees them.
LEMMA LogInvCurrent ==
    ASSUME TypeOK, LogInv
    PROVE  /\ LogOK(Current)
           /\ ~Current.dispatching => Current.posted = Current.dispatched_messages
           /\ Current.dispatching => Dispatching # {}
           /\ \A i \in Dispatching : Current.dispatching /\ InFlight(stack[i], Current)
           /\ \A i, j \in Dispatching : i = j
<1>1. StackType /\ OutboundType
    BY TypeParts
<1>2. PICK n : n = Len(stack)
    OBVIOUS
<1>3. n \in Nat /\ DOMAIN stack = 1..n
    BY <1>1, <1>2, LenProperties DEF StackType
<1>4. Nested(n, stack, Levels) /\ Levels[n + 1] = Current
    BY <1>2, <1>3 DEF LogInv, Levels
<1>5. Current.dispatching \in BOOLEAN
    BY <1>1 DEF OutboundType, Current
<1>6. Dispatching = {i \in 1..n : stack[i].op = "dispatch"}
    BY <1>3 DEF Dispatching
<1>7. LogOK(Current)
    BY <1>3, <1>4 DEF Nested
<1>8. ~Current.dispatching => Current.posted = Current.dispatched_messages
    BY <1>3, <1>4, <1>5 DEF Nested
<1>9. Current.dispatching => Dispatching # {}
    BY <1>3, <1>4, <1>5, <1>6 DEF Nested
<1>10. \A i \in Dispatching : Current.dispatching = TRUE /\ InFlight(stack[i], Current)
    BY <1>3, <1>4, <1>6 DEF Nested
<1>11. \A i \in Dispatching, j \in Dispatching : ~(i < j)
    <2>1. SUFFICES ASSUME NEW i \in Dispatching, NEW j \in Dispatching, i < j PROVE FALSE
        OBVIOUS
    <2>2. Levels[j].dispatching = TRUE
        BY <1>3, <1>4, <1>6, <2>1 DEF Nested
    <2>3. Levels[j].dispatching = FALSE
        BY <1>3, <1>4, <1>6, <2>1 DEF Nested
    <2>4. QED
        BY <2>2, <2>3
<1>12. \A i, j \in Dispatching : i = j
    BY <1>3, <1>6, <1>11
<1>13. QED
    BY <1>7, <1>8, <1>9, <1>10, <1>12

\* Slot n of the outbound log holds the message with nonce n and the latest id
\* is the last slot's, for any hooks, recipients and number of calls.
THEOREM DispatchLogCorrect == Spec => []DispatchLog
<1>1. TypeOK /\ LogInv => DispatchLog
    BY LogInvCurrent DEF LogOK, Current, DispatchLog
<1>2. QED
    BY <1>1, TypeCorrect, LogCorrect, PTL

\* The recursion guard is up exactly while the one dispatch in progress runs.
THEOREM GuardCorrect == Spec => []GuardTracksDispatch
<1>1. ASSUME TypeOK, LogInv PROVE GuardTracksDispatch
    <2>1. Current.dispatching = dispatching
        BY DEF Current
    <2>2. \A i \in Dispatching : dispatching
        BY <1>1, <2>1, LogInvCurrent
    <2>3. dispatching => Dispatching # {}
        BY <1>1, <2>1, LogInvCurrent
    <2>4. \A i, j \in Dispatching : i = j
        BY <1>1, LogInvCurrent
    <2>5. dispatching \in BOOLEAN
        BY <1>1, TypeParts DEF OutboundType
    <2>6. QED
        BY <2>2, <2>3, <2>4, <2>5 DEF GuardTracksDispatch
<1>2. QED
    BY <1>1, TypeCorrect, LogCorrect, PTL

\* The required hook sees every message once and in nonce order.
THEOREM HookOrderCorrect == Spec => []RequiredHookOrder
<1>1. ASSUME TypeOK, LogInv PROVE RequiredHookOrder
    <2>1. /\ Current.dispatching = dispatching
          /\ Current.posted = posted
          /\ Current.dispatched_messages = dispatched_messages
        BY DEF Current
    <2>2. CASE Dispatching = {}
        <3>1. ~Current.dispatching
            BY <1>1, <2>2, LogInvCurrent
        <3>2. QED
            BY <1>1, <2>1, <3>1, LogInvCurrent DEF RequiredHookOrder
    <2>3. CASE Dispatching # {}
        <3>1. PICK i \in Dispatching : InFlight(stack[i], Current)
            BY <1>1, <2>3, LogInvCurrent
        <3>2. QED
            BY <2>1, <3>1 DEF InFlight, RequiredHookOrder
    <2>4. QED
        BY <2>2, <2>3
<1>2. QED
    BY <1>1, TypeCorrect, LogCorrect, PTL

-----------------------------------------------------------------------------
(* Renouncing.  Of the levels of the log's proof, the lowest is what is      *)
(* committed; the others are where a transaction in progress has got to.     *)

Renounced(s) == s.owner = NoOwner /\ s.default_ism # NoContract

SameConfig(s, t) == s.owner = t.owner /\ s.default_ism = t.default_ism

\* Once it is committed that nobody owns the Mailbox, no state it can still
\* commit or fall back to has an owner.
RenouncedInv ==
    Renounced(Levels[1]) => \A j \in 1..(Len(stack) + 1) : Renounced(Levels[j])

\* A step that brings no configuration of its own.
Inherited ==
    /\ stack' # <<>> => SameConfig(Levels'[1], Levels[1])
    /\ \A j \in 1..(Len(stack') + 1) :
        \E k \in 1..(Len(stack) + 1) : SameConfig(Levels'[j], Levels[k])

LEMMA InheritedPush ==
    ASSUME StackType, NEW f \in Frame, stack' = Append(stack, f), f.saved = Current,
           UNCHANGED config
    PROVE  Inherited
<1>1. PICK n : n = Len(stack)
    OBVIOUS
<1>2. /\ n \in Nat
      /\ Len(stack') = n + 1
      /\ \A j \in 1..(n + 1) : Levels'[j] = Levels[j]
      /\ Levels'[n + 2] = Current'
      /\ Levels[n + 1] = Current
    BY <1>1, LevelsPush
<1>3. SameConfig(Current', Current)
    BY DEF config, SameConfig, Current
<1>4. SameConfig(Levels'[1], Levels[1])
    BY <1>2 DEF SameConfig
<1>5. ASSUME NEW j \in 1..(n + 2)
      PROVE  \E k \in 1..(n + 1) : SameConfig(Levels'[j], Levels[k])
    <2>1. CASE j = n + 2
        BY <1>2, <1>3, <2>1 DEF SameConfig
    <2>2. CASE j \in 1..(n + 1)
        BY <1>2, <2>2 DEF SameConfig
    <2>3. QED
        BY <1>2, <2>1, <2>2
<1>6. QED
    BY <1>1, <1>2, <1>4, <1>5 DEF Inherited

LEMMA InheritedContinue ==
    ASSUME StackType, stack # <<>>, NEW f \in Frame, Continue(f), f.saved = Top.saved,
           UNCHANGED config \/ RestoreConfig(Top.saved)
    PROVE  Inherited
<1>1. PICK n : n = Len(stack)
    OBVIOUS
<1>2. /\ n \in Nat \ {0}
      /\ Len(stack') = n
      /\ \A j \in 1..n : Levels'[j] = Levels[j]
      /\ Levels'[n + 1] = Current'
      /\ Levels[n + 1] = Current
      /\ Levels[n] = Top.saved
    BY <1>1, LevelsContinue
<1>3. SameConfig(Current', Current) \/ SameConfig(Current', Top.saved)
    BY DEF config, RestoreConfig, SameConfig, Current
<1>4. SameConfig(Levels'[1], Levels[1])
    BY <1>2 DEF SameConfig
<1>5. ASSUME NEW j \in 1..(n + 1)
      PROVE  \E k \in 1..(n + 1) : SameConfig(Levels'[j], Levels[k])
    <2>1. CASE j = n + 1
        BY <1>2, <1>3, <2>1
    <2>2. CASE j \in 1..n
        BY <1>2, <2>2 DEF SameConfig
    <2>3. QED
        BY <1>2, <2>1, <2>2
<1>6. QED
    BY <1>1, <1>2, <1>4, <1>5 DEF Inherited

LEMMA InheritedPop ==
    ASSUME StackType, stack # <<>>, stack' = Pop,
           UNCHANGED config \/ RestoreConfig(Top.saved)
    PROVE  Inherited
<1>1. PICK n : n = Len(stack)
    OBVIOUS
<1>2. /\ n \in Nat \ {0}
      /\ Len(stack') = n - 1
      /\ \A j \in 1..(n - 1) : Levels'[j] = Levels[j]
      /\ Levels'[n] = Current'
      /\ Levels[n + 1] = Current
      /\ Levels[n] = Top.saved
    BY <1>1, LevelsPop
<1>3. SameConfig(Current', Current) \/ SameConfig(Current', Top.saved)
    BY DEF config, RestoreConfig, SameConfig, Current
<1>4. stack' # <<>> => SameConfig(Levels'[1], Levels[1])
    <2>1. stack' # <<>> => n # 1
        BY <1>2, PopProperties, EmptySeq DEF StackType, Pop
    <2>2. QED
        BY <1>2, <2>1 DEF SameConfig
<1>5. ASSUME NEW j \in 1..n
      PROVE  \E k \in 1..(n + 1) : SameConfig(Levels'[j], Levels[k])
    <2>1. CASE j = n
        BY <1>2, <1>3, <2>1
    <2>2. CASE j \in 1..(n - 1)
        BY <1>2, <2>2 DEF SameConfig
    <2>3. QED
        BY <1>2, <2>1, <2>2
<1>6. QED
    BY <1>1, <1>2, <1>4, <1>5 DEF Inherited

\* No dispatch changes the configuration, but through the calls it makes.
LEMMA DispatchInherits ==
    ASSUME TypeOK, DispatchStep
    PROVE  Inherited
<1>1. ConfigType /\ OutboundType /\ InboundType /\ ValueType /\ StackType
    BY TypeParts
<1>2. ASSUME NEW caller \in Callers, NEW hook \in Hooks \cup {NoContract},
             Dispatch(caller, hook)
      PROVE  Inherited
    <2>1. EnteredDispatch(caller, hook) \in Frame
        BY EnteredDispatchType
    <2>2. /\ stack' = Append(stack, EnteredDispatch(caller, hook))
          /\ EnteredDispatch(caller, hook).saved = Current
          /\ UNCHANGED config
        BY <1>2 DEF Dispatch, EnteredDispatch
    <2>3. QED
        BY <1>1, <2>1, <2>2, InheritedPush
<1>3. ASSUME NEW fee \in Fees, QuoteRequired(fee)
      PROVE  Inherited
    <2> DEFINE f == [Top EXCEPT !.pc = "quote_hook", !.required_fee = fee]
    <2>1. Top \in DispatchFrame
        BY <1>3, TopType DEF QuoteRequired, Returned, DispatchPC
    <2>2. f \in Frame /\ f.saved = Top.saved
        BY <2>1, MailboxAssumption DEF Frame, DispatchFrame, DispatchPC
    <2>3. stack # <<>> /\ Continue(f) /\ UNCHANGED config
        BY <1>3 DEF QuoteRequired, Returned
    <2>4. QED
        BY <1>1, <2>2, <2>3, InheritedContinue
<1>4. ASSUME NEW fee \in Fees, QuoteHook(fee)
      PROVE  Inherited
    <2> DEFINE f == [Top EXCEPT !.pc = "post_required", !.hook_fee = fee,
                                !.required = required_hook]
    <2>1. Top \in DispatchFrame
        BY <1>4, TopType DEF QuoteHook, Returned, DispatchPC
    <2>2. f \in Frame /\ f.saved = Top.saved
        BY <1>1, <2>1, MailboxAssumption DEF Frame, DispatchFrame, DispatchPC, ConfigType
    <2>3. stack # <<>> /\ Continue(f) /\ UNCHANGED config
        BY <1>4 DEF QuoteHook, Returned
    <2>4. QED
        BY <1>1, <2>2, <2>3, InheritedContinue
<1>5. ASSUME NEW pc \in DispatchPC, NEW f, f = [Top EXCEPT !.pc = pc],
             Top \in DispatchFrame, stack # <<>>, Continue(f), UNCHANGED config
      PROVE  Inherited
    <2>1. f \in Frame /\ f.saved = Top.saved
        BY <1>5 DEF Frame, DispatchFrame
    <2>2. QED
        BY <1>1, <1>5, <2>1, InheritedContinue
<1>6. ASSUME PostRequired PROVE Inherited
    <2>1. Top \in DispatchFrame
        BY <1>6, TopType DEF PostRequired, Returned, DispatchPC
    <2>2. (IF Top.required_fee = 0 THEN "post_hook" ELSE "pay_required") \in DispatchPC
        BY DEF DispatchPC
    <2>3. QED
        BY <1>5, <1>6, <2>1, <2>2 DEF PostRequired, Returned
<1>7. ASSUME PayRequired PROVE Inherited
    <2>1. Top \in DispatchFrame /\ "post_hook" \in DispatchPC
        BY <1>7, TopType DEF PayRequired, Returned, DispatchPC
    <2>2. QED
        BY <1>5, <1>7, <2>1 DEF PayRequired, Returned
<1>8. ASSUME PostHook PROVE Inherited
    <2>1. Top \in DispatchFrame /\ "pay_hook" \in DispatchPC
        BY <1>8, TopType DEF PostHook, Returned, DispatchPC
    <2>2. QED
        BY <1>5, <1>8, <2>1 DEF PostHook, Returned
<1>9. ASSUME FinishDispatch PROVE Inherited
    BY <1>1, <1>9, InheritedPop DEF FinishDispatch, Returned
<1>10. QED
    BY <1>2, <1>3, <1>4, <1>6, <1>7, <1>8, <1>9 DEF DispatchStep

LEMMA ProcessInherits ==
    ASSUME TypeOK, ProcessStep
    PROVE  Inherited
<1>1. ConfigType /\ OutboundType /\ InboundType /\ ValueType /\ StackType
    BY TypeParts
<1>2. ASSUME NEW m \in Inbound, Process(m)
      PROVE  Inherited
    <2> DEFINE f == [op |-> "process", pc |-> "ism_query",
                     inbound |-> m, ism |-> NoContract, saved |-> Current]
    <2>1. f \in Frame
        BY DEF TypeOK, Frame, ProcessFrame, ProcessPC
    <2>2. stack' = Append(stack, f) /\ f.saved = Current /\ UNCHANGED config
        BY <1>2 DEF Process
    <2>3. QED
        BY <1>1, <2>1, <2>2, InheritedPush
<1>3. ASSUME NEW i \in Isms \cup {NoContract}, Returned("ism_query"), StartVerify(i),
             UNCHANGED config \/ RestoreConfig(Top.saved)
      PROVE  Inherited
    <2> DEFINE f == [Top EXCEPT !.pc = "verify", !.ism = i]
    <2>1. stack # <<>> /\ Top \in ProcessFrame
        BY <1>3, TopType DEF Returned, ProcessPC
    <2>2. f \in Frame /\ f.saved = Top.saved
        BY <2>1 DEF Frame, ProcessPC, ProcessFrame
    <2>3. Continue(f)
        BY <1>3 DEF StartVerify
    <2>4. QED
        BY <1>1, <1>3, <2>1, <2>2, <2>3, InheritedContinue
<1>4. ASSUME NEW answer \in Isms \cup {NoContract}, ResolveIsm(answer)
      PROVE  Inherited
    <2> DEFINE i == IF answer = NoContract THEN default_ism ELSE answer
    <2>1. i \in Isms \cup {NoContract}
        BY <1>1 DEF ConfigType
    <2>2. Returned("ism_query") /\ StartVerify(i) /\ UNCHANGED config
        BY <1>4 DEF ResolveIsm
    <2>3. QED
        BY <1>3, <2>1, <2>2
<1>5. ASSUME ResolveIsmFails PROVE Inherited
    <2>1. /\ Returned("ism_query") /\ StartVerify(Top.saved.default_ism)
          /\ stack # <<>> /\ RestoreConfig(Top.saved)
        BY <1>5 DEF ResolveIsmFails, Returned
    <2>2. Top.saved.default_ism \in Isms \cup {NoContract}
        BY <2>1, TopType DEF Storage
    <2>3. QED
        BY <1>3, <2>1, <2>2
<1>6. ASSUME Verified PROVE Inherited
    <2> DEFINE f == [Top EXCEPT !.pc = "handle"]
    <2>1. stack # <<>> /\ Top \in ProcessFrame
        BY <1>6, TopType DEF Verified, Returned, ProcessPC
    <2>2. f \in Frame /\ f.saved = Top.saved
        BY <2>1 DEF Frame, ProcessPC, ProcessFrame
    <2>3. Continue(f) /\ UNCHANGED config
        BY <1>6 DEF Verified
    <2>4. QED
        BY <1>1, <2>1, <2>2, <2>3, InheritedContinue
<1>7. ASSUME FinishProcess PROVE Inherited
    BY <1>1, <1>7, InheritedPop DEF FinishProcess, Returned
<1>8. QED
    BY <1>2, <1>4, <1>5, <1>6, <1>7 DEF ProcessStep

\* The owner is needed to install an owner, and no owner lets nobody through;
\* init runs only where there has never been a default ISM.
LEMMA RenouncedStep ==
    ASSUME TypeOK, RenouncedInv, [Next]_vars
    PROVE  /\ RenouncedInv'
           /\ Renounced(Levels[1]) => Renounced(Levels'[1])
<1>1. StackType
    BY TypeParts
<1>2. PICK n : n = Len(stack)
    OBVIOUS
<1>3. /\ n \in Nat /\ (n = 0 <=> stack = <<>>)
      /\ Levels[n + 1] = Current
      /\ \A j \in 1..n : Levels[j] = stack[j].saved
    BY <1>1, <1>2, LenProperties, EmptySeq DEF StackType, Levels
<1>4. ASSUME Inherited
      PROVE  /\ RenouncedInv'
             /\ Renounced(Levels[1]) => Renounced(Levels'[1])
    <2>1. CASE Renounced(Levels[1])
        <3>1. \A k \in 1..(n + 1) : Renounced(Levels[k])
            BY <1>2, <2>1 DEF RenouncedInv
        <3>2. \A j \in 1..(Len(stack') + 1) : Renounced(Levels'[j])
            BY <1>2, <1>4, <3>1 DEF Inherited, SameConfig, Renounced
        <3>3. Len(stack') \in Nat
            BY TypeStep, TypePartsNext, LenProperties DEF StackType
        <3>4. QED
            BY <3>2, <3>3 DEF RenouncedInv
    <2>2. CASE ~Renounced(Levels[1]) /\ stack' # <<>>
        BY <1>4, <2>2 DEF Inherited, SameConfig, Renounced, RenouncedInv
    <2>3. CASE ~Renounced(Levels[1]) /\ stack' = <<>>
        BY <2>3, EmptySeq DEF RenouncedInv
    <2>4. QED
        BY <2>1, <2>2, <2>3
<1>5. ASSUME Deploy \/ Admin \/ FeeCredit \/ UNCHANGED vars
      PROVE  /\ RenouncedInv'
             /\ Renounced(Levels[1]) => Renounced(Levels'[1])
    <2>1. stack' = stack
        BY <1>5 DEF Deploy, Initialize, Admin, SetDefaultIsm, SetDefaultHook,
                    SetRequiredHook, TransferOwnership, RenounceOwnership,
                    FeeCredit, FundDispatch, WithdrawDispatchCredit, vars
    <2>2. /\ \A j \in 1..n : Levels'[j] = Levels[j]
          /\ Levels'[n + 1] = Current'
        BY <1>2, <1>3, <2>1 DEF Levels
    <2>3. Renounced(Current) => Renounced(Current')
        <3>1. SUFFICES ASSUME owner = NoOwner, default_ism # NoContract
                       PROVE  UNCHANGED <<owner, default_ism>>
            BY DEF Renounced, Current
        <3>2. CASE Deploy
            BY <3>1, <3>2 DEF Deploy, Initialize
        <3>3. CASE Admin
            BY <3>1, <3>3 DEF Admin, SetDefaultIsm, SetDefaultHook, SetRequiredHook,
                              TransferOwnership, RenounceOwnership, OnlyOwner
        <3>4. CASE FeeCredit
            BY <3>4 DEF FeeCredit, FundDispatch, WithdrawDispatchCredit, config
        <3>5. CASE UNCHANGED vars
            BY <3>5 DEF vars, config
        <3>6. QED
            BY <1>5, <3>2, <3>3, <3>4, <3>5
    <2>4. CASE Renounced(Levels[1])
        BY <1>2, <1>3, <2>1, <2>2, <2>3, <2>4 DEF RenouncedInv
    <2>5. CASE ~Renounced(Levels[1])
        <3>1. CASE n = 0
            <4>1. Len(stack') = 0
                BY <1>2, <2>1, <3>1
            <4>2. \A j \in 1..(0 + 1) : j = 1
                OBVIOUS
            <4>3. RenouncedInv'
                BY <4>1, <4>2 DEF RenouncedInv
            <4>4. QED
                BY <2>5, <4>3
        <3>2. CASE n # 0
            BY <1>2, <1>3, <2>1, <2>2, <2>5, <3>2 DEF RenouncedInv
        <3>3. QED
            BY <3>1, <3>2
    <2>6. QED
        BY <2>4, <2>5
<1>6. CASE Abort
    BY <1>1, <1>4, <1>6, InheritedPop DEF Abort
<1>7. QED
    BY <1>4, <1>5, <1>6, DispatchInherits, ProcessInherits DEF Next

LEMMA RenouncedInit == Init => RenouncedInv
<1>1. Init => Len(stack) = 0
    BY EmptySeq DEF Init
<1>2. QED
    BY <1>1 DEF RenouncedInv

\* Renouncing is final: once it is committed no later call, init included,
\* installs an owner, and no transaction in progress still can.
THEOREM RenouncedCorrect == Spec => RenouncedForever
<1>1. TypeOK /\ RenouncedInv /\ [Next]_vars => RenouncedInv'
    BY RenouncedStep
<1>2. TypeOK /\ RenouncedInv /\ [Next]_vars
        => [Committed.owner = NoOwner /\ Committed.default_ism # NoContract
              => Committed'.owner = NoOwner]_vars
    <2>1. ASSUME TypeOK PROVE Levels[1] = Committed
        <3>1. stack \in Seq(Frame)
            BY <2>1, TypeParts DEF StackType
        <3>2. CASE stack = <<>>
            BY <3>2, EmptySeq DEF Levels, Committed
        <3>3. CASE stack # <<>>
            BY <3>1, <3>3, EmptySeq DEF Levels, Committed
        <3>4. QED
            BY <3>2, <3>3
    <2>2. ASSUME TypeOK' PROVE Levels'[1] = Committed'
        <3>1. stack' \in Seq(Frame)
            BY <2>2, TypePartsNext DEF StackType
        <3>2. CASE stack' = <<>>
            BY <3>2, EmptySeq DEF Levels, Committed
        <3>3. CASE stack' # <<>>
            BY <3>1, <3>3, EmptySeq DEF Levels, Committed
        <3>4. QED
            BY <3>2, <3>3
    <2>3. QED
        BY <2>1, <2>2, RenouncedStep, TypeStep DEF Renounced
<1>3. QED
    BY <1>1, <1>2, RenouncedInit, TypeCorrect, PTL DEF Spec, RenouncedForever

-----------------------------------------------------------------------------
(* The sum of the fee credits, counted unit by unit.                        *)

Units(credits) == {u \in Identities \X (1..MaxU64) : u[2] <= credits[u[1]]}

Credits == [Identities -> 0..MaxU64]

\* The units are finitely many, and their number is the liability.
LEMMA UnitsFinite ==
    ASSUME IsFiniteSet(Identities), NEW credits
    PROVE  IsFiniteSet(Units(credits)) /\ Liability(credits) = Cardinality(Units(credits))
           /\ Liability(credits) \in Nat
<1>1. IsFiniteSet(1..MaxU64)
    BY MailboxAssumption, FS_Interval
<1>2. IsFiniteSet(Identities \X (1..MaxU64))
    BY <1>1, FS_Product
<1>3. Units(credits) \in SUBSET (Identities \X (1..MaxU64))
    BY DEF Units
<1>4. IsFiniteSet(Units(credits))
    BY <1>2, <1>3, FS_Subset
<1>5. QED
    BY <1>4, FS_CardinalityType DEF Liability, Units

\* Nobody has credit: nothing is owed.
LEMMA LiabilityNone ==
    ASSUME NEW credits, \A p \in Identities : credits[p] = 0
    PROVE  Liability(credits) = 0
<1>1. Units(credits) = {}
    BY MailboxAssumption DEF Units
<1>2. QED
    BY <1>1, FS_EmptySet DEF Liability, Units

\* Crediting one identity raises the sum of the credits by as much.
LEMMA LiabilityAdd ==
    ASSUME IsFiniteSet(Identities),
           NEW credits \in Credits, NEW p \in Identities, NEW amount \in Nat,
           credits[p] + amount <= MaxU64
    PROVE  Liability([credits EXCEPT ![p] = @ + amount]) = Liability(credits) + amount
<1> DEFINE c == credits[p]
           more == [credits EXCEPT ![p] = @ + amount]
           new == {p} \X ((c + 1)..(c + amount))
<1>1. MaxU64 \in Nat /\ c \in Nat /\ c + amount <= MaxU64
    BY MailboxAssumption DEF Credits
<1>2. more[p] = c + amount /\ \A q \in Identities : q # p => more[q] = credits[q]
    BY DEF Credits
<1>a. \A u \in Identities \X (1..MaxU64) :
         u[1] \in Identities /\ u[2] \in 1..MaxU64 /\ credits[u[1]] \in Nat
    BY MailboxAssumption DEF Credits
<1> HIDE DEF more
<1>3. Units(more) = Units(credits) \cup new
    <2>1. ASSUME NEW u \in Units(more) PROVE u \in Units(credits) \cup new
        <3>1. u \in Identities \X (1..MaxU64) /\ u[2] <= more[u[1]]
            BY <2>1 DEF Units
        <3>2. CASE u[1] # p
            BY <1>2, <3>1, <3>2 DEF Units
        <3>3. CASE u[1] = p /\ u[2] <= c
            BY <3>1, <3>3 DEF Units
        <3>4. CASE u[1] = p /\ ~(u[2] <= c)
            <4>1. u[2] \in (c + 1)..(c + amount)
                BY <1>1, <1>2, <3>1, <3>4
            <4>2. u = <<p, u[2]>>
                BY <3>1, <3>4
            <4>3. QED
                BY <4>1, <4>2
        <3>5. QED
            BY <3>2, <3>3, <3>4
    <2>2. ASSUME NEW u \in Units(credits) PROVE u \in Units(more)
        <3>1. u \in Identities \X (1..MaxU64) /\ u[2] <= credits[u[1]]
            BY <2>2 DEF Units
        <3>2. u[2] <= more[u[1]]
            BY <1>1, <1>2, <1>a, <3>1
        <3>3. QED
            BY <3>1, <3>2 DEF Units
    <2>3. ASSUME NEW u \in new PROVE u \in Units(more)
        <3>1. u = <<p, u[2]>> /\ u[1] = p /\ u[2] \in (c + 1)..(c + amount)
            BY <2>3
        <3>2. u[2] \in 1..MaxU64 /\ u[2] <= c + amount
            BY <1>1, <3>1
        <3>3. u \in Identities \X (1..MaxU64)
            BY <3>1, <3>2
        <3>4. u[2] <= more[u[1]]
            BY <1>2, <3>1, <3>2
        <3>5. QED
            BY <3>3, <3>4 DEF Units
    <2>4. QED
        BY <2>1, <2>2, <2>3
<1>4. Units(credits) \cap new = {}
    <2>1. ASSUME NEW u \in new PROVE u \notin Units(credits)
        <3>1. u[1] = p /\ u[2] \in (c + 1)..(c + amount)
            BY <2>1
        <3>2. QED
            BY <1>1, <3>1 DEF Units
    <2>2. QED
        BY <2>1
<1>5. IsFiniteSet(new) /\ Cardinality(new) = amount
    <2> DEFINE from == c + 1
               to == c + amount
               one == {p}
               range == from..to
    <2>1. IsFiniteSet(one) /\ Cardinality(one) = 1
        BY FS_Singleton
    <2>2. from \in Int /\ to \in Int /\ to - from + 1 = amount /\ (from > to => amount = 0)
        BY <1>1
    <2> HIDE DEF one, from, to
    <2>3. IsFiniteSet(range) /\ Cardinality(range) = IF from > to THEN 0 ELSE to - from + 1
        BY <2>2, FS_Interval
    <2>4. Cardinality(range) = amount
        BY <2>2, <2>3
    <2> HIDE DEF range
    <2>5. IsFiniteSet(one \X range) /\ Cardinality(one \X range) = Cardinality(one) * Cardinality(range)
        BY <2>1, <2>3, FS_Product
    <2>6. Cardinality(one) * Cardinality(range) = amount
        BY <2>1, <2>4
    <2>7. QED
        BY <2>5, <2>6 DEF one, range, from, to
<1> HIDE DEF new
<1>6. Cardinality(Units(credits) \cup new) = Cardinality(Units(credits)) + amount
    <2>1. /\ IsFiniteSet(Units(credits)) /\ Cardinality(Units(credits)) \in Nat
        BY UnitsFinite, FS_CardinalityType
    <2>2. Cardinality(Units(credits) \cup new)
             = Cardinality(Units(credits)) + Cardinality(new) - Cardinality({})
        BY <1>4, <1>5, <2>1, FS_Union
    <2>3. QED
        BY <1>5, <2>1, <2>2, FS_EmptySet
<1>7. QED
    BY <1>3, <1>6, UnitsFinite DEF more

\* And taking it away lowers it.
LEMMA LiabilitySub ==
    ASSUME IsFiniteSet(Identities),
           NEW credits \in Credits, NEW p \in Identities, NEW amount \in Nat,
           credits[p] >= amount
    PROVE  Liability([credits EXCEPT ![p] = @ - amount]) = Liability(credits) - amount
<1> DEFINE less == [credits EXCEPT ![p] = @ - amount]
<1>1. credits[p] \in 0..MaxU64 /\ MaxU64 \in Nat
    BY MailboxAssumption DEF Credits
<1>2. credits[p] - amount \in 0..MaxU64 /\ (credits[p] - amount) + amount = credits[p]
    BY <1>1
<1>3. less \in Credits /\ less[p] = credits[p] - amount
    BY <1>2 DEF Credits
<1>4. credits = [less EXCEPT ![p] = @ + amount]
    BY <1>2 DEF Credits
<1> HIDE DEF less
<1>5. Liability(credits) = Liability(less) + amount
    BY <1>1, <1>2, <1>3, <1>4, LiabilityAdd
<1>6. QED
    BY <1>5, UnitsFinite DEF less

-----------------------------------------------------------------------------
(* Solvency.  The invariant speaks of all levels again.                     *)

\* What a state's custody holds beyond what it owes.
Surplus(s) == s.custody - Liability(s.fee_credits)

\* A state outside any dispatch has no surplus; one reached inside a dispatch
\* has as much as that dispatch has reserved and not yet paid.
Balanced(n, F, L) ==
    \A j \in 1..(n + 1) :
        /\ (\A i \in 1..(j - 1) : F[i].op # "dispatch") => Surplus(L[j]) = 0
        /\ \A i \in 1..(j - 1) : F[i].op = "dispatch" => Surplus(L[j]) = Unpaid(F[i])

BalancedInv == Balanced(Len(stack), stack, Levels)

\* What a step can do to a stack F of n frames and its levels L: push a frame,
\* replace the top one, or pop it.
Pushed(n, F, L, F2, L2) ==
    /\ \A j \in 1..n : F2[j] = F[j]
    /\ \A j \in 1..(n + 1) : L2[j] = L[j]

Replaced(n, F, L, F2, L2) ==
    /\ \A j \in 1..(n - 1) : F2[j] = F[j]
    /\ F2[n].op = F[n].op
    /\ \A j \in 1..n : L2[j] = L[j]

Popped(n, F, L, F2, L2) ==
    /\ \A j \in 1..(n - 1) : F2[j] = F[j]
    /\ \A j \in 1..(n - 1) : L2[j] = L[j]

LEMMA BalancedPush ==
    ASSUME NEW n \in Nat, NEW F, NEW L, Balanced(n, F, L), NEW F2, NEW L2,
           Pushed(n, F, L, F2, L2),
           Surplus(L2[n + 2]) = Surplus(L[n + 1]),
           F2[n + 1].op = "dispatch" =>
              Unpaid(F2[n + 1]) = 0 /\ \A i \in 1..n : F[i].op # "dispatch"
    PROVE  Balanced(n + 1, F2, L2)
<1>1. 1..(n + 2) = 1..(n + 1) \cup {n + 2} /\ 1..(n + 1) = 1..n \cup {n + 1}
    OBVIOUS
<1>2. ASSUME NEW j \in 1..(n + 1)
      PROVE  /\ (\A i \in 1..(j - 1) : F2[i].op # "dispatch") => Surplus(L2[j]) = 0
             /\ \A i \in 1..(j - 1) : F2[i].op = "dispatch" => Surplus(L2[j]) = Unpaid(F2[i])
    <2>1. \A i \in 1..(j - 1) : F2[i] = F[i]
        BY DEF Pushed
    <2>2. L2[j] = L[j]
        BY DEF Pushed
    <2>3. QED
        BY <2>1, <2>2 DEF Balanced
<1>3. \A i \in 1..n : F2[i] = F[i]
    BY DEF Pushed
<1>4. (\A i \in 1..(n + 1) : F2[i].op # "dispatch") => Surplus(L2[n + 2]) = 0
    <2>1. (\A i \in 1..((n + 1) - 1) : F[i].op # "dispatch") => Surplus(L[n + 1]) = 0
        BY DEF Balanced
    <2>2. QED
        BY <1>1, <1>3, <2>1
<1>5. ASSUME NEW i \in 1..(n + 1), F2[i].op = "dispatch"
      PROVE  Surplus(L2[n + 2]) = Unpaid(F2[i])
    <2>1. CASE i = n + 1
        <3>1. (\A k \in 1..((n + 1) - 1) : F[k].op # "dispatch") => Surplus(L[n + 1]) = 0
            BY DEF Balanced
        <3>2. QED
            BY <1>5, <2>1, <3>1
    <2>2. CASE i \in 1..n
        <3>1. F[i].op = "dispatch" /\ i \in 1..((n + 1) - 1)
            BY <1>3, <1>5, <2>2
        <3>2. Surplus(L[n + 1]) = Unpaid(F[i])
            BY <3>1 DEF Balanced
        <3>3. QED
            BY <1>3, <2>2, <3>2
    <2>3. QED
        BY <1>1, <2>1, <2>2
<1>6. (n + 2) - 1 = n + 1 /\ (n + 1) + 1 = n + 2
    OBVIOUS
<1>7. QED
    BY <1>1, <1>2, <1>4, <1>5, <1>6 DEF Balanced

LEMMA BalancedReplace ==
    ASSUME NEW n \in Nat \ {0}, NEW F, NEW L, Balanced(n, F, L), NEW F2, NEW L2,
           Replaced(n, F, L, F2, L2),
           F[n].op = "dispatch" =>
              /\ Surplus(L[n + 1]) = Unpaid(F[n]) => Surplus(L2[n + 1]) = Unpaid(F2[n])
              /\ \A i \in 1..(n - 1) : F[i].op # "dispatch",
           F[n].op # "dispatch" =>
              Surplus(L2[n + 1]) = Surplus(L[n + 1]) \/ Surplus(L2[n + 1]) = Surplus(L[n])
    PROVE  Balanced(n, F2, L2)
<1>1. 1..(n + 1) = 1..n \cup {n + 1} /\ 1..n = 1..(n - 1) \cup {n}
    OBVIOUS
<1>2. ASSUME NEW j \in 1..n
      PROVE  /\ (\A i \in 1..(j - 1) : F2[i].op # "dispatch") => Surplus(L2[j]) = 0
             /\ \A i \in 1..(j - 1) : F2[i].op = "dispatch" => Surplus(L2[j]) = Unpaid(F2[i])
    <2>1. \A i \in 1..(j - 1) : F2[i] = F[i]
        BY DEF Replaced
    <2>2. L2[j] = L[j]
        BY DEF Replaced
    <2>3. QED
        BY <2>1, <2>2 DEF Balanced
<1>3. \A i \in 1..(n - 1) : F2[i] = F[i]
    BY DEF Replaced
<1>4. /\ (\A i \in 1..n : F[i].op # "dispatch") => Surplus(L[n + 1]) = 0
      /\ \A i \in 1..n : F[i].op = "dispatch" => Surplus(L[n + 1]) = Unpaid(F[i])
    <2>1. n + 1 \in 1..(n + 1) /\ (n + 1) - 1 = n
        OBVIOUS
    <2>2. QED
        BY <2>1 DEF Balanced
<1>5. /\ (\A i \in 1..(n - 1) : F[i].op # "dispatch") => Surplus(L[n]) = 0
      /\ \A i \in 1..(n - 1) : F[i].op = "dispatch" => Surplus(L[n]) = Unpaid(F[i])
    BY DEF Balanced
<1>6. F2[n].op = F[n].op
    BY DEF Replaced
<1>7. CASE F[n].op = "dispatch"
    <2>1. Surplus(L2[n + 1]) = Unpaid(F2[n])
        BY <1>4, <1>7
    <2>2. \A i \in 1..n : F2[i].op = "dispatch" => i = n
        BY <1>1, <1>3, <1>7
    <2>3. /\ (\A i \in 1..n : F2[i].op # "dispatch") => Surplus(L2[n + 1]) = 0
          /\ \A i \in 1..n : F2[i].op = "dispatch" => Surplus(L2[n + 1]) = Unpaid(F2[i])
        BY <1>6, <1>7, <2>1, <2>2
    <2>4. QED
        BY <1>1, <1>2, <2>3 DEF Balanced
<1>8. CASE F[n].op # "dispatch"
    <2>1. (\A i \in 1..n : F2[i].op # "dispatch") => Surplus(L2[n + 1]) = 0
        BY <1>1, <1>3, <1>4, <1>5, <1>8
    <2>2. ASSUME NEW i \in 1..n, F2[i].op = "dispatch"
          PROVE  Surplus(L2[n + 1]) = Unpaid(F2[i])
        <3>1. i \in 1..(n - 1) /\ F2[i] = F[i]
            BY <1>1, <1>3, <1>6, <1>8, <2>2
        <3>2. QED
            BY <1>4, <1>5, <1>8, <2>2, <3>1
    <2>3. QED
        BY <1>1, <1>2, <2>1, <2>2 DEF Balanced
<1>9. QED
    BY <1>7, <1>8

LEMMA BalancedPop ==
    ASSUME NEW n \in Nat \ {0}, NEW F, NEW L, Balanced(n, F, L), NEW F2, NEW L2,
           Popped(n, F, L, F2, L2),
           \/ Surplus(L2[n]) = Surplus(L[n])
           \/ /\ Surplus(L2[n]) = Surplus(L[n + 1])
              /\ F[n].op = "dispatch" => /\ Unpaid(F[n]) = 0
                                         /\ \A i \in 1..(n - 1) : F[i].op # "dispatch"
    PROVE  Balanced(n - 1, F2, L2)
<1>1. 1..n = 1..(n - 1) \cup {n} /\ (n - 1) + 1 = n
    OBVIOUS
<1>2. ASSUME NEW j \in 1..(n - 1)
      PROVE  /\ (\A i \in 1..(j - 1) : F2[i].op # "dispatch") => Surplus(L2[j]) = 0
             /\ \A i \in 1..(j - 1) : F2[i].op = "dispatch" => Surplus(L2[j]) = Unpaid(F2[i])
    <2>1. \A i \in 1..(j - 1) : F2[i] = F[i]
        BY DEF Popped
    <2>2. L2[j] = L[j]
        BY DEF Popped
    <2>3. QED
        BY <2>1, <2>2 DEF Balanced
<1>3. \A i \in 1..(n - 1) : F2[i] = F[i]
    BY DEF Popped
<1>4. /\ (\A i \in 1..n : F[i].op # "dispatch") => Surplus(L[n + 1]) = 0
      /\ \A i \in 1..n : F[i].op = "dispatch" => Surplus(L[n + 1]) = Unpaid(F[i])
    <2>1. n + 1 \in 1..(n + 1) /\ (n + 1) - 1 = n
        OBVIOUS
    <2>2. QED
        BY <2>1 DEF Balanced
<1>5. /\ (\A i \in 1..(n - 1) : F[i].op # "dispatch") => Surplus(L[n]) = 0
      /\ \A i \in 1..(n - 1) : F[i].op = "dispatch" => Surplus(L[n]) = Unpaid(F[i])
    BY DEF Balanced
<1>6. /\ (\A i \in 1..(n - 1) : F2[i].op # "dispatch") => Surplus(L2[n]) = 0
      /\ \A i \in 1..(n - 1) : F2[i].op = "dispatch" => Surplus(L2[n]) = Unpaid(F2[i])
    BY <1>1, <1>3, <1>4, <1>5
<1>7. QED
    BY <1>1, <1>2, <1>6 DEF Balanced

LEMMA UnpaidCases ==
    ASSUME NEW f
    PROVE  /\ f.pc = "post_required" => Unpaid(f) = f.required_fee + f.hook_fee
           /\ f.pc \in {"pay_required", "post_hook"} => Unpaid(f) = f.hook_fee
           /\ f.pc \in {"quote_required", "quote_hook", "pay_hook"} => Unpaid(f) = 0
BY DEF Unpaid

LEMMA SurplusKept == UNCHANGED value => Surplus(Current') = Surplus(Current)
BY DEF value, Surplus, Current

LEMMA BalancedKept ==
    ASSUME StackType, BalancedInv, UNCHANGED stack, Surplus(Current') = Surplus(Current)
    PROVE  BalancedInv'
<1>1. PICK n : n = Len(stack)
    OBVIOUS
<1>2. n \in Nat /\ Len(stack') = n /\ stack' = stack
    BY <1>1, LenProperties DEF StackType
<1>3. \A j \in 1..(n + 1) : Surplus(Levels'[j]) = Surplus(Levels[j])
    BY <1>1, <1>2 DEF Levels
<1>4. Balanced(n, stack, Levels)
    BY <1>1 DEF BalancedInv
<1>5. Balanced(n, stack', Levels')
    BY <1>2, <1>3, <1>4 DEF Balanced
<1>6. QED
    BY <1>2, <1>5 DEF BalancedInv

\* A call was entered.
LEMMA BalancedEnter ==
    ASSUME StackType, BalancedInv, NEW f \in Frame, stack' = Append(stack, f),
           f.saved = Current, UNCHANGED value,
           f.op = "dispatch" => f.pc = "quote_required" /\ Dispatching = {}
    PROVE  BalancedInv'
<1>1. PICK n : n = Len(stack)
    OBVIOUS
<1>2. /\ n \in Nat
      /\ Len(stack') = n + 1
      /\ \A j \in 1..n : stack'[j] = stack[j]
      /\ stack'[n + 1] = f
      /\ \A j \in 1..(n + 1) : Levels'[j] = Levels[j]
      /\ Levels'[n + 2] = Current'
      /\ Levels[n + 1] = Current
    BY <1>1, LevelsPush
<1>3. Balanced(n, stack, Levels)
    BY <1>1 DEF BalancedInv
<1>4. Pushed(n, stack, Levels, stack', Levels')
    BY <1>2 DEF Pushed
<1>5. Surplus(Levels'[n + 2]) = Surplus(Levels[n + 1])
    BY <1>2, SurplusKept
<1>6. f.op = "dispatch" => Unpaid(f) = 0 /\ \A i \in 1..n : stack[i].op # "dispatch"
    BY <1>1, <1>2, UnpaidCases, LenProperties DEF Dispatching, StackType
<1>7. Balanced(n + 1, stack', Levels')
    BY <1>2, <1>3, <1>4, <1>5, <1>6, BalancedPush
<1>8. QED
    BY <1>2, <1>7 DEF BalancedInv

\* The top frame went on.
LEMMA BalancedContinue ==
    ASSUME StackType, LogInv, BalancedInv, stack # <<>>,
           NEW f \in Frame, Continue(f), f.saved = Top.saved, f.op = Top.op,
           Top.op = "dispatch" =>
              (Surplus(Current) = Unpaid(Top) => Surplus(Current') = Unpaid(f)),
           Top.op # "dispatch" =>
              Surplus(Current') = Surplus(Current) \/ Surplus(Current') = Surplus(Top.saved)
    PROVE  BalancedInv'
<1>1. PICK n : n = Len(stack)
    OBVIOUS
<1>2. /\ n \in Nat \ {0}
      /\ Len(stack') = n
      /\ \A j \in 1..(n - 1) : stack'[j] = stack[j]
      /\ stack'[n] = f
      /\ \A j \in 1..n : Levels'[j] = Levels[j]
      /\ Levels'[n + 1] = Current'
      /\ Levels[n + 1] = Current
      /\ Levels[n] = Top.saved
    BY <1>1, LevelsContinue
<1>3. Top = stack[n]
    BY <1>1 DEF Top
<1>4. Balanced(n, stack, Levels) /\ Nested(n, stack, Levels)
    BY <1>1 DEF BalancedInv, LogInv
<1>5. Replaced(n, stack, Levels, stack', Levels')
    BY <1>2, <1>3 DEF Replaced
<1>6. Top.op = "dispatch" => \A i \in 1..(n - 1) : stack[i].op # "dispatch"
    BY <1>2, <1>3, <1>4, NestedTopDispatch
<1>7. Balanced(n, stack', Levels')
    BY <1>2, <1>3, <1>4, <1>5, <1>6, BalancedReplace
<1>8. QED
    BY <1>2, <1>7 DEF BalancedInv

\* The top frame returned, or failed.
LEMMA BalancedLeave ==
    ASSUME StackType, LogInv, BalancedInv, stack # <<>>, stack' = Pop,
           \/ Surplus(Current') = Surplus(Top.saved)
           \/ /\ Surplus(Current') = Surplus(Current)
              /\ Top.op = "dispatch" => Unpaid(Top) = 0
    PROVE  BalancedInv'
<1>1. PICK n : n = Len(stack)
    OBVIOUS
<1>2. /\ n \in Nat \ {0}
      /\ Len(stack') = n - 1
      /\ \A j \in 1..(n - 1) : stack'[j] = stack[j]
      /\ \A j \in 1..(n - 1) : Levels'[j] = Levels[j]
      /\ Levels'[n] = Current'
      /\ Levels[n + 1] = Current
      /\ Levels[n] = Top.saved
    BY <1>1, LevelsPop
<1>3. Top = stack[n]
    BY <1>1 DEF Top
<1>4. Balanced(n, stack, Levels) /\ Nested(n, stack, Levels)
    BY <1>1 DEF BalancedInv, LogInv
<1>5. Popped(n, stack, Levels, stack', Levels')
    BY <1>2 DEF Popped
<1>6. Top.op = "dispatch" => \A i \in 1..(n - 1) : stack[i].op # "dispatch"
    BY <1>2, <1>3, <1>4, NestedTopDispatch
<1>7. Balanced(n - 1, stack', Levels')
    BY <1>2, <1>3, <1>4, <1>5, <1>6, BalancedPop
<1>8. QED
    BY <1>2, <1>7 DEF BalancedInv

-----------------------------------------------------------------------------
(* What each step does to the top frame.                                    *)

\* Two frames of one dispatch.
SameDispatch(f, g) ==
    /\ f.op = "dispatch" /\ g.op = "dispatch"
    /\ f.message = g.message /\ f.hook = g.hook /\ f.quoted = g.quoted
    /\ f.saved = g.saved

LEMMA QuoteRequiredFrame ==
    ASSUME TypeOK, NEW fee \in Fees, QuoteRequired(fee)
    PROVE  /\ stack # <<>> /\ Top \in DispatchFrame /\ Top.pc = "quote_required"
           /\ \E f \in DispatchFrame :
                 /\ Continue(f) /\ SameDispatch(f, Top)
                 /\ f.pc = "quote_hook" /\ f.required_fee = fee
                 /\ f.hook_fee = Top.hook_fee /\ f.required = Top.required
<1> DEFINE f == [Top EXCEPT !.pc = "quote_hook", !.required_fee = fee]
<1>1. stack # <<>> /\ Top \in DispatchFrame /\ Top.pc = "quote_required" /\ Continue(f)
    BY TopType DEF QuoteRequired, Returned, DispatchPC
<1>2. f \in DispatchFrame
    BY <1>1, MailboxAssumption DEF DispatchFrame, DispatchPC
<1>3. /\ f.pc = "quote_hook" /\ f.required_fee = fee
      /\ f.hook_fee = Top.hook_fee /\ f.required = Top.required
      /\ SameDispatch(f, Top)
    BY <1>1 DEF DispatchFrame, SameDispatch
<1> HIDE DEF f
<1>4. QED
    BY <1>1, <1>2, <1>3

LEMMA QuoteHookFrame ==
    ASSUME TypeOK, NEW fee \in Fees, QuoteHook(fee)
    PROVE  /\ stack # <<>> /\ Top \in DispatchFrame /\ Top.pc = "quote_hook"
           /\ \E f \in DispatchFrame :
                 /\ Continue(f) /\ SameDispatch(f, Top)
                 /\ f.pc = "post_required" /\ f.hook_fee = fee
                 /\ f.required_fee = Top.required_fee /\ f.required = required_hook
<1> DEFINE f == [Top EXCEPT !.pc = "post_required", !.hook_fee = fee,
                            !.required = required_hook]
<1>1. stack # <<>> /\ Top \in DispatchFrame /\ Top.pc = "quote_hook" /\ Continue(f)
    BY TopType DEF QuoteHook, Returned, DispatchPC
<1>2. f \in DispatchFrame
    BY <1>1, MailboxAssumption, TypeParts DEF DispatchFrame, DispatchPC, ConfigType
<1>3. /\ f.pc = "post_required" /\ f.hook_fee = fee
      /\ f.required_fee = Top.required_fee /\ f.required = required_hook
      /\ SameDispatch(f, Top)
    BY <1>1 DEF DispatchFrame, SameDispatch
<1> HIDE DEF f
<1>4. QED
    BY <1>1, <1>2, <1>3

\* f is g at another program counter.
Moved(f, g, pc) ==
    /\ Continue(f) /\ SameDispatch(f, g)
    /\ f.pc = pc
    /\ f.required_fee = g.required_fee /\ f.hook_fee = g.hook_fee
    /\ f.required = g.required

LEMMA MovedFrame ==
    ASSUME NEW pc \in DispatchPC, Top \in DispatchFrame, Continue([Top EXCEPT !.pc = pc])
    PROVE  \E f \in DispatchFrame : Moved(f, Top, pc)
<1> DEFINE f == [Top EXCEPT !.pc = pc]
<1>1. f \in DispatchFrame
    BY DEF DispatchFrame
<1>2. Moved(f, Top, pc)
    BY DEF DispatchFrame, SameDispatch, Moved
<1> HIDE DEF f
<1>3. QED
    BY <1>1, <1>2

LEMMA PostRequiredFrame ==
    ASSUME TypeOK, PostRequired
    PROVE  /\ stack # <<>> /\ Top \in DispatchFrame /\ Top.pc = "post_required"
           /\ \E pc \in {"post_hook", "pay_required"}, f \in DispatchFrame : Moved(f, Top, pc)
<1> DEFINE pc == IF Top.required_fee = 0 THEN "post_hook" ELSE "pay_required"
<1>1. stack # <<>> /\ Top \in DispatchFrame /\ Top.pc = "post_required"
    BY TopType DEF PostRequired, Returned, DispatchPC
<1>2. Continue([Top EXCEPT !.pc = pc])
    BY DEF PostRequired
<1>3. pc \in {"post_hook", "pay_required"} /\ pc \in DispatchPC
    BY DEF DispatchPC
<1> HIDE DEF pc
<1>4. QED
    BY <1>1, <1>2, <1>3, MovedFrame

LEMMA PayRequiredFrame ==
    ASSUME TypeOK, PayRequired
    PROVE  /\ stack # <<>> /\ Top \in DispatchFrame /\ Top.pc = "pay_required"
           /\ \E f \in DispatchFrame : Moved(f, Top, "post_hook")
<1>1. stack # <<>> /\ Top \in DispatchFrame /\ Top.pc = "pay_required"
    BY TopType DEF PayRequired, Returned, DispatchPC
<1>2. QED
    BY <1>1, MovedFrame DEF PayRequired, DispatchPC

LEMMA PostHookFrame ==
    ASSUME TypeOK, PostHook
    PROVE  /\ stack # <<>> /\ Top \in DispatchFrame /\ Top.pc = "post_hook"
           /\ \E f \in DispatchFrame : Moved(f, Top, "pay_hook")
<1>1. stack # <<>> /\ Top \in DispatchFrame /\ Top.pc = "post_hook"
    BY TopType DEF PostHook, Returned, DispatchPC
<1>2. QED
    BY <1>1, MovedFrame DEF PostHook, DispatchPC

LEMMA FinishDispatchFrame ==
    ASSUME TypeOK, FinishDispatch
    PROVE  /\ stack # <<>> /\ Top \in DispatchFrame /\ stack' = Pop
           /\ \/ Top.pc = "post_hook" /\ Top.hook_fee = 0
              \/ Top.pc = "pay_hook"
<1>1. stack # <<>> /\ stack' = Pop
      /\ ((Top.pc = "post_hook" /\ Top.hook_fee = 0) \/ Top.pc = "pay_hook")
    BY DEF FinishDispatch, Returned
<1>2. QED
    BY <1>1, TopType DEF DispatchPC

\* Two frames of one delivery.
SameProcess(f, g) ==
    /\ f.op = "process" /\ g.op = "process"
    /\ f.inbound = g.inbound /\ f.saved = g.saved

LEMMA StartVerifyFrame ==
    ASSUME TypeOK, Returned("ism_query"), NEW i \in Isms \cup {NoContract}, StartVerify(i)
    PROVE  /\ stack # <<>> /\ Top \in ProcessFrame /\ Top.pc = "ism_query"
           /\ \E f \in ProcessFrame : Continue(f) /\ SameProcess(f, Top) /\ f.pc = "verify"
<1> DEFINE f == [Top EXCEPT !.pc = "verify", !.ism = i]
<1>1. stack # <<>> /\ Top \in ProcessFrame /\ Top.pc = "ism_query" /\ Continue(f)
    BY TopType DEF Returned, StartVerify, ProcessPC
<1>2. f \in ProcessFrame
    BY <1>1 DEF ProcessFrame, ProcessPC
<1>3. SameProcess(f, Top) /\ f.pc = "verify"
    BY <1>1 DEF ProcessFrame, SameProcess
<1> HIDE DEF f
<1>4. QED
    BY <1>1, <1>2, <1>3

LEMMA ResolveIsmFrame ==
    ASSUME TypeOK, NEW answer \in Isms \cup {NoContract}, ResolveIsm(answer)
    PROVE  /\ stack # <<>> /\ Top \in ProcessFrame /\ Top.pc = "ism_query"
           /\ \E f \in ProcessFrame : Continue(f) /\ SameProcess(f, Top) /\ f.pc = "verify"
<1> DEFINE i == IF answer = NoContract THEN default_ism ELSE answer
<1>1. i \in Isms \cup {NoContract}
    BY TypeParts DEF ConfigType
<1>2. Returned("ism_query") /\ StartVerify(i)
    BY DEF ResolveIsm
<1> HIDE DEF i
<1>3. QED
    BY <1>1, <1>2, StartVerifyFrame

LEMMA ResolveIsmFailsFrame ==
    ASSUME TypeOK, ResolveIsmFails
    PROVE  /\ stack # <<>> /\ Top \in ProcessFrame /\ Top.pc = "ism_query"
           /\ \E f \in ProcessFrame : Continue(f) /\ SameProcess(f, Top) /\ f.pc = "verify"
<1> DEFINE i == Top.saved.default_ism
<1>1. Returned("ism_query") /\ StartVerify(i)
    BY DEF ResolveIsmFails
<1>2. i \in Isms \cup {NoContract}
    BY <1>1, TopType DEF Storage, Returned
<1> HIDE DEF i
<1>3. QED
    BY <1>1, <1>2, StartVerifyFrame

LEMMA VerifiedFrame ==
    ASSUME TypeOK, Verified
    PROVE  /\ stack # <<>> /\ Top \in ProcessFrame /\ Top.pc = "verify"
           /\ \E f \in ProcessFrame : Continue(f) /\ SameProcess(f, Top) /\ f.pc = "handle"
<1> DEFINE f == [Top EXCEPT !.pc = "handle"]
<1>1. stack # <<>> /\ Top \in ProcessFrame /\ Top.pc = "verify" /\ Continue(f)
    BY TopType DEF Verified, Returned, ProcessPC
<1>2. f \in ProcessFrame
    BY <1>1 DEF ProcessFrame, ProcessPC
<1>3. SameProcess(f, Top) /\ f.pc = "handle"
    BY <1>1 DEF ProcessFrame, SameProcess
<1> HIDE DEF f
<1>4. QED
    BY <1>1, <1>2, <1>3

LEMMA FinishProcessFrame ==
    ASSUME TypeOK, FinishProcess
    PROVE  stack # <<>> /\ Top \in ProcessFrame /\ Top.pc = "handle" /\ stack' = Pop
BY TopType DEF FinishProcess, Returned, ProcessPC

-----------------------------------------------------------------------------
(* The Mailbox is solvent.                                                  *)

LEMMA InitBalanced == Init => BalancedInv
<1>1. ASSUME Init PROVE BalancedInv
    <2>1. Len(stack) = 0 /\ Levels[1] = Current
        BY <1>1, EmptySeq DEF Init, Levels
    <2>2. Current.custody = 0 /\ \A p \in Identities : Current.fee_credits[p] = 0
        BY <1>1 DEF Init, Current
    <2>3. Surplus(Current) = 0
        BY <2>2, LiabilityNone DEF Surplus
    <2>4. QED
        BY <2>1, <2>3 DEF BalancedInv, Balanced
<1>2. QED
    BY <1>1

\* Funding and withdrawing move custody and credit by the same amount.
LEMMA FeeCreditSurplus ==
    ASSUME IsFiniteSet(Identities), TypeOK, FeeCredit
    PROVE  Surplus(Current') = Surplus(Current)
<1>1. fee_credits \in Credits /\ custody \in Int /\ MaxU64 \in Nat
    BY TypeParts, MailboxAssumption DEF ValueType, Credits
<1>2. Liability(fee_credits) \in Nat
    BY UnitsFinite
<1>3. ASSUME NEW amount \in Amounts, NEW payer \in Identities, FundDispatch(payer, amount)
      PROVE  Surplus(Current') = Surplus(Current)
    <2>1. amount \in Nat
        BY MailboxAssumption
    <2>2. Liability(fee_credits') = Liability(fee_credits) + amount
        BY <1>1, <1>3, <2>1, LiabilityAdd DEF FundDispatch
    <2>3. custody' = custody + amount
        BY <1>3 DEF FundDispatch
    <2>4. QED
        BY <1>1, <1>2, <2>1, <2>2, <2>3 DEF Surplus, Current
<1>4. ASSUME NEW amount \in Amounts, NEW caller \in Callers,
             WithdrawDispatchCredit(caller, amount)
      PROVE  Surplus(Current') = Surplus(Current)
    <2>1. amount \in Nat /\ caller \in Identities
        BY MailboxAssumption DEF Callers, Identities
    <2>2. Liability(fee_credits') = Liability(fee_credits) - amount
        BY <1>1, <1>4, <2>1, LiabilitySub DEF WithdrawDispatchCredit
    <2>3. custody' = custody - amount
        BY <1>4 DEF WithdrawDispatchCredit
    <2>4. QED
        BY <1>1, <1>2, <2>1, <2>2, <2>3 DEF Surplus, Current
<1>5. QED
    BY <1>3, <1>4 DEF FeeCredit

LEMMA DispatchStepBalanced ==
    ASSUME IsFiniteSet(Identities), TypeOK, LogInv, BalancedInv, DispatchStep
    PROVE  BalancedInv'
<1>1. StackType /\ ConfigType /\ OutboundType
    BY TypeParts
<1>a. fee_credits \in Credits /\ custody \in Int /\ MaxU64 \in Nat
    BY TypeParts, MailboxAssumption DEF ValueType, Credits
<1>b. Liability(fee_credits) \in Nat
    BY UnitsFinite
<1>2. ASSUME NEW caller \in Callers, NEW hook \in Hooks \cup {NoContract},
             Dispatch(caller, hook)
      PROVE  BalancedInv'
    <2> DEFINE f == EnteredDispatch(caller, hook)
    <2>1. f \in Frame
        BY EnteredDispatchType, TypeParts
    <2>2. stack' = Append(stack, f) /\ f.saved = Current /\ f.pc = "quote_required"
        BY <1>2 DEF Dispatch, EnteredDispatch
    <2>3. Dispatching = {}
        <3>1. ~Current.dispatching
            BY <1>2 DEF Dispatch, Current
        <3>2. QED
            BY <3>1, LogInvCurrent
    <2>4. UNCHANGED value
        BY <1>2 DEF Dispatch
    <2> HIDE DEF f
    <2>5. QED
        BY <1>1, <2>1, <2>2, <2>3, <2>4, BalancedEnter
<1>3. ASSUME Top \in DispatchFrame, stack # <<>>, NEW f \in DispatchFrame, Continue(f),
             SameDispatch(f, Top),
             Surplus(Current) = Unpaid(Top) => Surplus(Current') = Unpaid(f)
      PROVE  BalancedInv'
    <2>1. f \in Frame /\ f.saved = Top.saved /\ f.op = Top.op /\ Top.op = "dispatch"
        BY <1>3 DEF Frame, SameDispatch
    <2>2. QED
        BY <1>1, <1>3, <2>1, BalancedContinue
<1>4. ASSUME NEW fee \in Fees, QuoteRequired(fee)
      PROVE  BalancedInv'
    <2>1. PICK f \in DispatchFrame : Continue(f) /\ SameDispatch(f, Top) /\ f.pc = "quote_hook"
        BY <1>4, QuoteRequiredFrame
    <2>2. Top \in DispatchFrame /\ stack # <<>> /\ Top.pc = "quote_required"
        BY <1>4, QuoteRequiredFrame
    <2>3. Surplus(Current') = Surplus(Current)
        BY <1>4, SurplusKept DEF QuoteRequired
    <2>4. QED
        BY <1>3, <2>1, <2>2, <2>3, UnpaidCases
<1>5. ASSUME NEW fee \in Fees, QuoteHook(fee)
      PROVE  BalancedInv'
    <2> DEFINE total == Top.required_fee + fee
               sender == Top.message.sender
    <2>1. PICK f \in DispatchFrame :
              /\ Continue(f) /\ SameDispatch(f, Top)
              /\ f.pc = "post_required" /\ f.hook_fee = fee /\ f.required_fee = Top.required_fee
        BY <1>5, QuoteHookFrame
    <2>2. Top \in DispatchFrame /\ stack # <<>> /\ Top.pc = "quote_hook"
        BY <1>5, QuoteHookFrame
    <2>3. total \in Nat /\ sender \in Identities
        BY <1>a, <2>2, MailboxAssumption DEF DispatchFrame, Message
    <2>4. /\ fee_credits[sender] >= total
          /\ fee_credits' = [fee_credits EXCEPT ![sender] = @ - total]
          /\ custody' = custody
        BY <1>5 DEF QuoteHook
    <2>5. Unpaid(f) = total /\ Unpaid(Top) = 0
        BY <2>1, <2>2, UnpaidCases
    <2> HIDE DEF total, sender
    <2>6. Liability(fee_credits') = Liability(fee_credits) - total
        BY <1>a, <2>3, <2>4, LiabilitySub
    <2>7. Surplus(Current) = 0 => Surplus(Current') = total
        BY <1>a, <1>b, <2>3, <2>4, <2>6 DEF Surplus, Current
    <2>8. QED
        BY <1>3, <2>1, <2>2, <2>5, <2>7
<1>6. ASSUME PostRequired
      PROVE  BalancedInv'
    <2>1. PICK pc \in {"post_hook", "pay_required"}, f \in DispatchFrame : Moved(f, Top, pc)
        BY <1>6, PostRequiredFrame
    <2>2. Top \in DispatchFrame /\ stack # <<>> /\ Top.pc = "post_required"
        BY <1>6, PostRequiredFrame
    <2>3. Unpaid(Top) = Top.required_fee + Top.hook_fee /\ Unpaid(f) = Top.hook_fee
        BY <2>1, <2>2, UnpaidCases DEF Moved
    <2>4. custody' = custody - Top.required_fee /\ fee_credits' = fee_credits
        BY <1>6 DEF PostRequired
    <2>5. Top.required_fee \in Nat /\ Top.hook_fee \in Nat
        BY <1>a, <2>2 DEF DispatchFrame
    <2>6. Surplus(Current) = Top.required_fee + Top.hook_fee => Surplus(Current') = Top.hook_fee
        BY <1>a, <1>b, <2>4, <2>5 DEF Surplus, Current
    <2>7. QED
        BY <1>3, <2>1, <2>2, <2>3, <2>6 DEF Moved
<1>7. ASSUME PayRequired
      PROVE  BalancedInv'
    <2>1. PICK f \in DispatchFrame : Moved(f, Top, "post_hook")
        BY <1>7, PayRequiredFrame
    <2>2. Top \in DispatchFrame /\ stack # <<>> /\ Top.pc = "pay_required"
        BY <1>7, PayRequiredFrame
    <2>3. Unpaid(f) = Unpaid(Top)
        BY <2>1, <2>2, UnpaidCases DEF Moved
    <2>4. Surplus(Current') = Surplus(Current)
        BY <1>7, SurplusKept DEF PayRequired
    <2>5. QED
        BY <1>3, <2>1, <2>2, <2>3, <2>4 DEF Moved
<1>8. ASSUME PostHook
      PROVE  BalancedInv'
    <2>1. PICK f \in DispatchFrame : Moved(f, Top, "pay_hook")
        BY <1>8, PostHookFrame
    <2>2. Top \in DispatchFrame /\ stack # <<>> /\ Top.pc = "post_hook"
        BY <1>8, PostHookFrame
    <2>3. Unpaid(f) = 0 /\ Unpaid(Top) = Top.hook_fee
        BY <2>1, <2>2, UnpaidCases DEF Moved
    <2>4. custody' = custody - Top.hook_fee /\ fee_credits' = fee_credits
        BY <1>8 DEF PostHook
    <2>5. Top.hook_fee \in Nat
        BY <1>a, <2>2 DEF DispatchFrame
    <2>6. Surplus(Current) = Top.hook_fee => Surplus(Current') = 0
        BY <1>a, <1>b, <2>4, <2>5 DEF Surplus, Current
    <2>7. QED
        BY <1>3, <2>1, <2>2, <2>3, <2>6 DEF Moved
<1>9. ASSUME FinishDispatch
      PROVE  BalancedInv'
    <2>1. stack # <<>> /\ stack' = Pop
        BY <1>9, FinishDispatchFrame
    <2>2. Unpaid(Top) = 0
        BY <1>9, FinishDispatchFrame, UnpaidCases
    <2>3. Surplus(Current') = Surplus(Current)
        BY <1>9, SurplusKept DEF FinishDispatch
    <2>4. QED
        BY <1>1, <2>1, <2>2, <2>3, BalancedLeave
<1>10. QED
    BY <1>2, <1>4, <1>5, <1>6, <1>7, <1>8, <1>9 DEF DispatchStep

LEMMA SurplusRestored ==
    ASSUME NEW s, RestoreValue(s)
    PROVE  Surplus(Current') = Surplus(s)
BY DEF RestoreValue, Surplus, Current

LEMMA ProcessStepBalanced ==
    ASSUME TypeOK, LogInv, BalancedInv, ProcessStep
    PROVE  BalancedInv'
<1>1. StackType
    BY TypeParts
<1>2. ASSUME NEW m \in Inbound, Process(m)
      PROVE  BalancedInv'
    <2> DEFINE f == [op |-> "process", pc |-> "ism_query",
                     inbound |-> m, ism |-> NoContract, saved |-> Current]
    <2>1. f \in Frame
        BY DEF TypeOK, Frame, ProcessFrame, ProcessPC
    <2>2. stack' = Append(stack, f) /\ f.saved = Current /\ f.op = "process"
        BY <1>2 DEF Process
    <2>3. UNCHANGED value
        BY <1>2 DEF Process
    <2> HIDE DEF f
    <2>4. QED
        BY <1>1, <2>1, <2>2, <2>3, BalancedEnter
<1>3. ASSUME stack # <<>>, Top \in ProcessFrame, NEW f \in ProcessFrame, Continue(f),
             SameProcess(f, Top),
             Surplus(Current') = Surplus(Current) \/ Surplus(Current') = Surplus(Top.saved)
      PROVE  BalancedInv'
    <2>1. f \in Frame /\ f.saved = Top.saved /\ f.op = Top.op /\ Top.op = "process"
        BY <1>3 DEF Frame, SameProcess
    <2>2. QED
        BY <1>1, <1>3, <2>1, BalancedContinue
<1>4. ASSUME NEW answer \in Isms \cup {NoContract}, ResolveIsm(answer)
      PROVE  BalancedInv'
    <2>1. Surplus(Current') = Surplus(Current)
        BY <1>4, SurplusKept DEF ResolveIsm
    <2>2. QED
        BY <1>3, <1>4, <2>1, ResolveIsmFrame
<1>5. ASSUME ResolveIsmFails
      PROVE  BalancedInv'
    <2>1. Surplus(Current') = Surplus(Top.saved)
        BY <1>5, SurplusRestored DEF ResolveIsmFails
    <2>2. QED
        BY <1>3, <1>5, <2>1, ResolveIsmFailsFrame
<1>6. ASSUME Verified
      PROVE  BalancedInv'
    <2>1. Surplus(Current') = Surplus(Current)
        BY <1>6, SurplusKept DEF Verified
    <2>2. QED
        BY <1>3, <1>6, <2>1, VerifiedFrame
<1>7. ASSUME FinishProcess
      PROVE  BalancedInv'
    <2>1. Surplus(Current') = Surplus(Current)
        BY <1>7, SurplusKept DEF FinishProcess
    <2>2. stack # <<>> /\ stack' = Pop /\ Top.op = "process"
        BY <1>7, FinishProcessFrame DEF ProcessFrame
    <2>3. QED
        BY <1>1, <2>1, <2>2, BalancedLeave
<1>8. QED
    BY <1>2, <1>4, <1>5, <1>6, <1>7 DEF ProcessStep

LEMMA OtherStepsBalanced ==
    ASSUME IsFiniteSet(Identities), TypeOK, LogInv, BalancedInv,
           Deploy \/ FeeCredit \/ Admin \/ Abort \/ UNCHANGED vars
    PROVE  BalancedInv'
<1>1. StackType
    BY TypeParts
<1>2. CASE Abort
    <2>1. stack # <<>> /\ stack' = Pop /\ Surplus(Current') = Surplus(Top.saved)
        BY <1>2, SurplusRestored DEF Abort
    <2>2. QED
        BY <1>1, <2>1, BalancedLeave
<1>3. CASE FeeCredit
    <2>1. UNCHANGED stack
        BY <1>3 DEF FeeCredit, FundDispatch, WithdrawDispatchCredit
    <2>2. QED
        BY <1>1, <1>3, <2>1, FeeCreditSurplus, BalancedKept
<1>4. CASE Deploy \/ Admin \/ UNCHANGED vars
    <2>1. UNCHANGED <<value, stack>>
        BY <1>4 DEF Deploy, Initialize, vars, Admin, SetDefaultIsm, SetDefaultHook,
                    SetRequiredHook, TransferOwnership, RenounceOwnership
    <2>2. QED
        BY <1>1, <2>1, SurplusKept, BalancedKept
<1>5. QED
    BY <1>2, <1>3, <1>4

\* Every state a failure can fall back to, and the current one, holds what it
\* owes and what the dispatch around it has reserved (BalancedInv).
THEOREM BalancedCorrect ==
    ASSUME IsFiniteSet(Identities)
    PROVE  Spec => []BalancedInv
<1>1. TypeOK /\ LogInv /\ BalancedInv /\ [Next]_vars => BalancedInv'
    BY DispatchStepBalanced, ProcessStepBalanced, OtherStepsBalanced DEF Next
<1>2. QED
    BY InitBalanced, TypeCorrect, LogCorrect, <1>1, PTL DEF Spec

\* The Mailbox's custody is the sum of all fee credits and of what a running
\* dispatch has reserved, for any number of payers, calls and failures.
THEOREM SolventCorrect ==
    ASSUME IsFiniteSet(Identities)
    PROVE  Spec => []Solvent
<1>1. ASSUME TypeOK, LogInv, BalancedInv PROVE Solvent
    <2>1. PICK n : n = Len(stack)
        OBVIOUS
    <2>2. n \in Nat /\ DOMAIN stack = 1..n
        BY <1>1, <2>1, TypeParts, LenProperties DEF StackType
    <2>3. Levels[n + 1] = Current
        BY <2>1, <2>2 DEF Levels
    <2>4. Balanced(n, stack, Levels) /\ (n + 1) - 1 = n /\ n + 1 \in 1..(n + 1)
        BY <1>1, <2>1, <2>2 DEF BalancedInv
    <2>5. Dispatching = {i \in 1..n : stack[i].op = "dispatch"}
        BY <2>2 DEF Dispatching
    <2>6. Surplus(Current) = Reserved
        <3>1. CASE Dispatching = {}
            BY <2>3, <2>4, <2>5, <3>1 DEF Balanced, Reserved
        <3>2. CASE Dispatching # {}
            <4> DEFINE i == CHOOSE i \in Dispatching : TRUE
            <4>1. i \in Dispatching
                BY <3>2
            <4>2. Reserved = Unpaid(stack[i])
                BY <3>2 DEF Reserved
            <4> HIDE DEF i
            <4>3. QED
                BY <2>3, <2>4, <2>5, <4>1, <4>2 DEF Balanced
        <3>3. QED
            BY <3>1, <3>2
    <2>7. custody \in Int /\ Liability(fee_credits) \in Nat
        BY <1>1, TypeParts, UnitsFinite DEF ValueType
    <2>8. QED
        BY <2>6, <2>7 DEF Surplus, Current, Solvent
<1>2. Spec => []BalancedInv
    BY BalancedCorrect
<1>3. QED
    BY <1>1, <1>2, TypeCorrect, LogCorrect, PTL

-----------------------------------------------------------------------------
(* A dispatch calls and pays the required hook it took the quote from.  The *)
(* owner could change that hook in between, but a callback comes from a     *)
(* contract: it cannot act for an owner that is none.  So what a frame was  *)
(* entered with holds above it for as long as it is in progress, unless a   *)
(* contract owned the Mailbox then.                                         *)

SameSettings(s, t) == s.owner = t.owner /\ s.required_hook = t.required_hook

\* State s, at or above frame f, has the settings f was entered with.
Kept(f, s) == f.saved.owner \notin Contracts => SameSettings(f.saved, s)

\* The hooks of a dispatch are those of the settings it was entered with.
KeptHooks(f) ==
    f.op = "dispatch" =>
        /\ f.quoted = f.saved.required_hook
        /\ f.hook # f.saved.required_hook
        /\ f.saved.owner \notin Contracts => f.required = f.saved.required_hook

SettledInv ==
    /\ \A i \in 1..Len(stack) : KeptHooks(stack[i]) /\ Kept(stack[i], Current)
    /\ \A i, j \in 1..Len(stack) : i < j => Kept(stack[i], stack[j].saved)

LEMMA KeptSame ==
    ASSUME NEW s, NEW t, SameSettings(t, s), NEW f, Kept(f, s)
    PROVE  Kept(f, t)
BY DEF SameSettings, Kept

\* The settings stay when a call is entered, goes on, returns or fails.
LEMMA SettledEnter ==
    ASSUME StackType, SettledInv, NEW f \in Frame, stack' = Append(stack, f),
           SameSettings(Current', Current), f.saved = Current, KeptHooks(f)
    PROVE  SettledInv'
<1>1. PICK n : n = Len(stack)
    OBVIOUS
<1>2. /\ n \in Nat
      /\ Len(stack') = n + 1
      /\ \A j \in 1..n : stack'[j] = stack[j]
      /\ stack'[n + 1] = f
    BY <1>1, AppendProperties, LenProperties DEF StackType
<1>3. \A i \in 1..n : KeptHooks(stack[i]) /\ Kept(stack[i], Current)
    BY <1>1 DEF SettledInv
<1>4. Kept(f, Current)
    BY DEF Kept, SameSettings
<1>5. \A i \in 1..(n + 1) : KeptHooks(stack'[i]) /\ Kept(stack'[i], Current)
    BY <1>2, <1>3, <1>4
<1>6. \A i \in 1..(n + 1) : KeptHooks(stack'[i]) /\ Kept(stack'[i], Current')
    BY <1>5, KeptSame
<1>7. ASSUME NEW i \in 1..(n + 1), NEW j \in 1..(n + 1), i < j
      PROVE  Kept(stack'[i], stack'[j].saved)
    <2>1. i \in 1..n /\ stack'[i] = stack[i]
        BY <1>2, <1>7
    <2>2. CASE j = n + 1
        BY <1>2, <1>3, <2>1, <2>2
    <2>3. CASE j # n + 1
        <3>1. j \in 1..n /\ stack'[j] = stack[j]
            BY <1>2, <2>3
        <3>2. QED
            BY <1>1, <1>7, <2>1, <3>1 DEF SettledInv
    <2>4. QED
        BY <2>2, <2>3
<1>8. QED
    BY <1>2, <1>6, <1>7 DEF SettledInv

\* A call goes on with the settings there are, or those it was entered with.
LEMMA SettledContinue ==
    ASSUME StackType, SettledInv, stack # <<>>, NEW f \in Frame, Continue(f),
           SameSettings(Current', Current) \/ SameSettings(Current', Top.saved),
           f.saved = Top.saved, KeptHooks(f)
    PROVE  SettledInv'
<1>1. PICK n : n = Len(stack)
    OBVIOUS
<1>2. /\ n \in Nat \ {0}
      /\ Len(stack') = n
      /\ \A j \in 1..(n - 1) : stack'[j] = stack[j]
      /\ stack'[n] = f
      /\ Top = stack[n]
    BY <1>1, ContinueProperties, EmptySeq DEF StackType, Continue, Top
<1>3. \A i \in 1..n : KeptHooks(stack[i]) /\ Kept(stack[i], Current)
    BY <1>1 DEF SettledInv
<1>4. \A i \in 1..(n - 1) : Kept(stack[i], Top.saved)
    BY <1>1, <1>2 DEF SettledInv
<1>5. \A i \in 1..n : KeptHooks(stack'[i])
    BY <1>2, <1>3
<1>6. \A i \in 1..n : stack'[i].saved = stack[i].saved
    BY <1>2
<1>7. Kept(Top, Current')
    <2>1. CASE SameSettings(Current', Current)
        BY <1>2, <1>3, <2>1, KeptSame
    <2>2. CASE SameSettings(Current', Top.saved)
        BY <2>2 DEF Kept, SameSettings
    <2>3. QED
        BY <2>1, <2>2
<1>8. \A i \in 1..(n - 1) : Kept(stack[i], Current')
    <2>1. CASE SameSettings(Current', Current)
        BY <1>2, <1>3, <2>1, KeptSame
    <2>2. CASE SameSettings(Current', Top.saved)
        BY <1>4, <2>2, KeptSame
    <2>3. QED
        BY <2>1, <2>2
<1>9. \A i \in 1..n : Kept(stack[i], Current')
    BY <1>2, <1>7, <1>8
<1>10. \A i \in 1..n : Kept(stack'[i], Current')
    BY <1>6, <1>9 DEF Kept
<1>11. \A i, j \in 1..n : i < j => Kept(stack'[i], stack'[j].saved)
    <2>1. \A i, j \in 1..n : i < j => Kept(stack[i], stack[j].saved)
        BY <1>1 DEF SettledInv
    <2>2. QED
        BY <1>6, <2>1 DEF Kept
<1>12. QED
    BY <1>2, <1>5, <1>10, <1>11 DEF SettledInv

\* A call returns with the settings there are, or fails and puts back its own.
LEMMA SettledLeave ==
    ASSUME StackType, SettledInv, stack # <<>>, stack' = Pop,
           SameSettings(Current', Current) \/ SameSettings(Current', Top.saved)
    PROVE  SettledInv'
<1>1. PICK n : n = Len(stack)
    OBVIOUS
<1>2. /\ n \in Nat \ {0}
      /\ Len(stack') = n - 1
      /\ \A j \in 1..(n - 1) : stack'[j] = stack[j]
      /\ Top = stack[n]
    BY <1>1, PopProperties, EmptySeq DEF StackType, Pop, Top
<1>3. \A i \in 1..(n - 1) : /\ KeptHooks(stack[i])
                            /\ Kept(stack[i], Current) /\ Kept(stack[i], Top.saved)
    BY <1>1, <1>2 DEF SettledInv
<1>4. \A i \in 1..(n - 1) : KeptHooks(stack[i]) /\ Kept(stack[i], Current')
    BY <1>3, KeptSame
<1>5. \A i, j \in 1..(n - 1) : i < j => Kept(stack[i], stack[j].saved)
    BY <1>1, <1>2 DEF SettledInv
<1>6. QED
    BY <1>2, <1>4, <1>5 DEF SettledInv

LEMMA SettledKept ==
    ASSUME SettledInv, UNCHANGED stack, SameSettings(Current', Current)
    PROVE  SettledInv'
<1>1. \A i \in 1..Len(stack) : KeptHooks(stack[i]) /\ Kept(stack[i], Current')
    BY KeptSame DEF SettledInv
<1>2. QED
    BY <1>1 DEF SettledInv

\* The top frame, and the state a failure of it restores.
LEMMA SettledTop ==
    ASSUME StackType, SettledInv, stack # <<>>
    PROVE  KeptHooks(Top) /\ Kept(Top, Current)
<1>1. Len(stack) \in 1..Len(stack)
    BY EmptySeq DEF StackType
<1>2. QED
    BY <1>1 DEF SettledInv, Top

LEMMA SettingsKept ==
    /\ UNCHANGED config => SameSettings(Current', Current)
    /\ \A s : RestoreConfig(s) => SameSettings(Current', s)
BY DEF config, RestoreConfig, SameSettings, Current

LEMMA InitSettled == Init => SettledInv
<1>1. ASSUME Init PROVE SettledInv
    <2>1. Len(stack) = 0
        BY <1>1, EmptySeq DEF Init
    <2>2. QED
        BY <2>1 DEF SettledInv
<1>2. QED
    BY <1>1

\* Settings are changed by a call from outside, or inside a call by a contract that
\* owns the Mailbox: no frame was then entered with an owner that is none.
LEMMA AdminSettled ==
    ASSUME StackType, SettledInv, Deploy \/ Admin
    PROVE  SettledInv'
<1>1. UNCHANGED stack
    BY DEF Deploy, Initialize, Admin, SetDefaultIsm, SetDefaultHook, SetRequiredHook,
           TransferOwnership, RenounceOwnership
<1>2. CASE stack = <<>>
    <2>1. Len(stack') = 0
        BY <1>1, <1>2, EmptySeq
    <2>2. QED
        BY <2>1 DEF SettledInv
<1>3. CASE stack # <<>>
    <2>1. Admin
        BY <1>3 DEF Deploy, Initialize
    <2>2. \E caller \in Callers : caller = Current.owner
        BY <2>1 DEF Admin, SetDefaultIsm, SetDefaultHook, SetRequiredHook,
                    TransferOwnership, RenounceOwnership, OnlyOwner, Current
    <2>3. Current.owner \in Contracts
        BY <1>3, <2>2 DEF Callers
    <2>4. \A i \in 1..Len(stack) : stack[i].saved.owner \in Contracts
        BY <2>3 DEF SettledInv, Kept, SameSettings
    <2>5. \A i \in 1..Len(stack) : Kept(stack[i], Current')
        BY <2>4 DEF Kept
    <2>6. QED
        BY <1>1, <2>5 DEF SettledInv
<1>4. QED
    BY <1>2, <1>3

LEMMA DispatchStepSettled ==
    ASSUME TypeOK, SettledInv, DispatchStep
    PROVE  SettledInv'
<1>1. StackType /\ ConfigType /\ OutboundType
    BY TypeParts
<1>2. SameSettings(Current', Current)
    <2>1. UNCHANGED config
        BY DEF DispatchStep, Dispatch, QuoteRequired, QuoteHook, PostRequired, PayRequired,
               PostHook, FinishDispatch
    <2>2. QED
        BY <2>1, SettingsKept
<1>3. ASSUME NEW caller \in Callers, NEW hook \in Hooks \cup {NoContract},
             Dispatch(caller, hook)
      PROVE  SettledInv'
    <2> DEFINE f == EnteredDispatch(caller, hook)
    <2>1. f \in Frame
        BY <1>1, EnteredDispatchType
    <2>2. stack' = Append(stack, f)
        BY <1>3 DEF Dispatch, EnteredDispatch
    <2>3. f.saved = Current /\ KeptHooks(f)
        BY <1>3 DEF Dispatch, EnteredDispatch, KeptHooks, Current
    <2> HIDE DEF f
    <2>4. QED
        BY <1>1, <1>2, <2>1, <2>2, <2>3, SettledEnter
<1>4. ASSUME stack # <<>>, NEW f \in DispatchFrame, Continue(f), SameDispatch(f, Top),
             f.required = Top.required \/ f.required = required_hook
      PROVE  SettledInv'
    <2>1. f \in Frame
        BY DEF Frame
    <2>2. KeptHooks(Top) /\ Kept(Top, Current) /\ Current.required_hook = required_hook
        BY <1>1, <1>4, SettledTop DEF Current
    <2>3. f.saved = Top.saved /\ KeptHooks(f)
        BY <1>4, <2>2 DEF KeptHooks, Kept, SameSettings, SameDispatch
    <2>4. QED
        BY <1>1, <1>2, <1>4, <2>1, <2>3, SettledContinue
<1>5. ASSUME NEW fee \in Fees, QuoteRequired(fee)
      PROVE  SettledInv'
    BY <1>4, <1>5, QuoteRequiredFrame
<1>6. ASSUME NEW fee \in Fees, QuoteHook(fee)
      PROVE  SettledInv'
    BY <1>4, <1>6, QuoteHookFrame
<1>7. CASE PostRequired
    BY <1>4, <1>7, PostRequiredFrame DEF Moved
<1>8. CASE PayRequired
    BY <1>4, <1>8, PayRequiredFrame DEF Moved
<1>9. CASE PostHook
    BY <1>4, <1>9, PostHookFrame DEF Moved
<1>10. CASE FinishDispatch
    BY <1>1, <1>2, <1>10, FinishDispatchFrame, SettledLeave
<1>11. QED
    BY <1>3, <1>5, <1>6, <1>7, <1>8, <1>9, <1>10 DEF DispatchStep

LEMMA ProcessStepSettled ==
    ASSUME TypeOK, SettledInv, ProcessStep
    PROVE  SettledInv'
<1>1. StackType
    BY TypeParts
<1>2. SameSettings(Current', Current) \/ SameSettings(Current', Top.saved)
    <2>1. CASE ResolveIsmFails
        <3>1. RestoreConfig(Top.saved)
            BY <2>1 DEF ResolveIsmFails
        <3>2. QED
            BY <3>1, SettingsKept
    <2>2. CASE ~ResolveIsmFails
        <3>1. UNCHANGED config
            BY <2>2 DEF ProcessStep, Process, ResolveIsm, Verified, FinishProcess
        <3>2. QED
            BY <3>1, SettingsKept
    <2>3. QED
        BY <2>1, <2>2
<1>3. ASSUME NEW m \in Inbound, Process(m)
      PROVE  SettledInv'
    <2> DEFINE f == [op |-> "process", pc |-> "ism_query",
                     inbound |-> m, ism |-> NoContract, saved |-> Current]
    <2>1. f \in Frame
        BY DEF TypeOK, Frame, ProcessFrame, ProcessPC
    <2>2. stack' = Append(stack, f) /\ f.op = "process"
        BY <1>3 DEF Process
    <2>3. f.saved = Current /\ KeptHooks(f)
        BY <2>2 DEF KeptHooks
    <2>4. SameSettings(Current', Current)
        BY <1>3, SettingsKept DEF Process
    <2> HIDE DEF f
    <2>5. QED
        BY <1>1, <2>1, <2>2, <2>3, <2>4, SettledEnter
<1>4. ASSUME stack # <<>>, NEW f \in ProcessFrame, Continue(f), SameProcess(f, Top)
      PROVE  SettledInv'
    <2>1. f \in Frame
        BY DEF Frame
    <2>2. f.saved = Top.saved /\ KeptHooks(f)
        BY <1>4 DEF KeptHooks, SameProcess
    <2>3. QED
        BY <1>1, <1>2, <1>4, <2>1, <2>2, SettledContinue
<1>5. ASSUME NEW answer \in Isms \cup {NoContract}, ResolveIsm(answer)
      PROVE  SettledInv'
    BY <1>4, <1>5, ResolveIsmFrame
<1>6. CASE ResolveIsmFails
    BY <1>4, <1>6, ResolveIsmFailsFrame
<1>7. CASE Verified
    BY <1>4, <1>7, VerifiedFrame
<1>8. CASE FinishProcess
    BY <1>1, <1>2, <1>8, FinishProcessFrame, SettledLeave
<1>9. QED
    BY <1>3, <1>5, <1>6, <1>7, <1>8 DEF ProcessStep

LEMMA OtherStepsSettled ==
    ASSUME TypeOK, SettledInv, FeeCredit \/ Abort \/ UNCHANGED vars
    PROVE  SettledInv'
<1>1. StackType
    BY TypeParts
<1>2. CASE Abort
    <2>1. stack # <<>> /\ stack' = Pop /\ RestoreConfig(Top.saved)
        BY <1>2 DEF Abort
    <2>2. SameSettings(Current', Top.saved)
        BY <2>1, SettingsKept
    <2>3. QED
        BY <1>1, <2>1, <2>2, SettledLeave
<1>3. CASE FeeCredit \/ UNCHANGED vars
    <2>1. UNCHANGED <<config, stack>>
        BY <1>3 DEF FeeCredit, FundDispatch, WithdrawDispatchCredit, vars
    <2>2. QED
        BY <2>1, SettingsKept, SettledKept
<1>4. QED
    BY <1>2, <1>3

\* No callback moves the settings under a running call, unless a contract owned the
\* Mailbox when that call was entered.
THEOREM SettledCorrect == Spec => []SettledInv
<1>1. TypeOK /\ SettledInv /\ [Next]_vars => SettledInv'
    <2> SUFFICES ASSUME TypeOK, SettledInv, [Next]_vars PROVE SettledInv'
        OBVIOUS
    <2>1. StackType
        BY TypeParts
    <2>2. QED
        BY <2>1, AdminSettled, DispatchStepSettled, ProcessStepSettled, OtherStepsSettled DEF Next
<1>2. QED
    BY InitSettled, TypeCorrect, <1>1, PTL DEF Spec

\* The required hook a dispatch calls and pays is the one that gave the quote, and
\* it is never the selected hook as well, whatever is called back in between: whoever
\* owns the Mailbox, it takes a contract that owned it when the dispatch began.
THEOREM PaidCorrect == Spec => []PaidAsQuoted
<1>1. TypeOK /\ SettledInv => PaidAsQuoted
    <2>1. ASSUME TypeOK, SettledInv PROVE PaidAsQuoted
        <3>1. DOMAIN stack = 1..Len(stack)
            BY <2>1, TypeParts, LenProperties DEF StackType
        <3>2. QED
            BY <2>1, <3>1 DEF SettledInv, KeptHooks, PaidAsQuoted, Dispatching
    <2>2. QED
        BY <2>1
<1>2. Spec => []SettledInv
    BY SettledCorrect
<1>3. QED
    BY <1>1, <1>2, TypeCorrect, PTL

-----------------------------------------------------------------------------
(* Deliveries.                                                              *)

Ids(s) == {s.processed_ids[k] : k \in DOMAIN s.processed_ids}

Verifying(f, m) == f.op = "process" /\ f.pc = "verify" /\ f.inbound = m

\* A frame that has recorded its delivery.
Marked(f) == f.op = "process" /\ f.pc # "ism_query"

\* In a state s under the first k frames of F the index and the records agree, a
\* message that was handed over is recorded, and one that is recorded but was not
\* handed over is still being verified by one of the frames.
Explained(s, F, k) ==
    /\ s.delivered = Ids(s)
    /\ \A m \in Inbound : s.handled[m] > 0 => m \in s.delivered
    /\ \A m \in Inbound : m \in s.delivered /\ s.handled[m] = 0 =>
          \E i \in 1..k : Verifying(F[i], m)
    /\ \A i \in 1..k : Marked(F[i]) => F[i].inbound \in s.delivered

Recorded(n, F, L) == \A j \in 1..(n + 1) : Explained(L[j], F, j - 1)

RecordedInv == Recorded(Len(stack), stack, Levels)

\* In such a state no message was handed over or indexed twice, or handed over
\* while it is still being verified.
OnceAt(s, F, k) ==
    /\ \A m \in Inbound : s.handled[m] <= 1
    /\ \A a, b \in DOMAIN s.processed_ids : a # b => s.processed_ids[a] # s.processed_ids[b]
    /\ \A i \in 1..k : \A m \in Inbound : Verifying(F[i], m) => s.handled[m] = 0

\* A delivery began before its message was recorded, and nothing is called while
\* it asks the recipient for an ISM.
Fresh(n, F, L) ==
    /\ \A i \in 1..n : F[i].op = "process" => F[i].inbound \notin L[i].delivered
    /\ \A i \in 1..n : F[i].op = "process" /\ F[i].pc = "ism_query" =>
          i = n /\ F[n].inbound \notin L[n + 1].delivered

Once(n, F, L) == Fresh(n, F, L) /\ \A j \in 1..(n + 1) : OnceAt(L[j], F, j - 1)

OnceInv == Once(Len(stack), stack, Levels)

SameInbound(s, t) ==
    s.delivered = t.delivered /\ s.processed_ids = t.processed_ids /\ s.handled = t.handled

LEMMA SameInboundFacts ==
    ASSUME NEW s, NEW t, SameInbound(s, t), NEW F, NEW k
    PROVE  /\ Explained(t, F, k) => Explained(s, F, k)
           /\ OnceAt(t, F, k) => OnceAt(s, F, k)
BY DEF SameInbound, Explained, OnceAt, Ids

\* Only the first k frames matter.
LEMMA SameFramesFacts ==
    ASSUME NEW s, NEW F, NEW k \in Nat, NEW F2, \A i \in 1..k : F2[i] = F[i]
    PROVE  /\ Explained(s, F, k) => Explained(s, F2, k)
           /\ OnceAt(s, F, k) => OnceAt(s, F2, k)
BY DEF Explained, OnceAt

\* One more frame that has recorded nothing.
LEMMA ExtendFacts ==
    ASSUME NEW s, NEW F, NEW k \in Nat, ~Marked(F[k + 1])
    PROVE  /\ Explained(s, F, k) => Explained(s, F, k + 1)
           /\ OnceAt(s, F, k) => OnceAt(s, F, k + 1)
<1>1. 1..(k + 1) = 1..k \cup {k + 1}
    OBVIOUS
<1>2. \A m : ~Verifying(F[k + 1], m)
    BY DEF Marked, Verifying
<1>3. QED
    BY <1>1, <1>2 DEF Explained, OnceAt

\* One frame less, when it is not verifying.
LEMMA ShrinkFacts ==
    ASSUME NEW s, NEW F, NEW k \in Nat, \A m : ~Verifying(F[k + 1], m)
    PROVE  /\ Explained(s, F, k + 1) => Explained(s, F, k)
           /\ OnceAt(s, F, k + 1) => OnceAt(s, F, k)
<1>1. 1..(k + 1) = 1..k \cup {k + 1}
    OBVIOUS
<1>2. QED
    BY <1>1 DEF Explained, OnceAt

\* Below the top everything is as it was.
LEMMA LowerFacts ==
    ASSUME NEW n \in Nat, NEW F, NEW L, NEW F2, NEW L2, NEW k \in 0..n,
           \A i \in 1..k : F2[i] = F[i],
           \A j \in 1..(k + 1) : L2[j] = L[j]
    PROVE  /\ Recorded(n, F, L) => \A j \in 1..(k + 1) : Explained(L2[j], F2, j - 1)
           /\ (\A j \in 1..(n + 1) : OnceAt(L[j], F, j - 1))
                 => \A j \in 1..(k + 1) : OnceAt(L2[j], F2, j - 1)
<1>1. ASSUME NEW j \in 1..(k + 1)
      PROVE  /\ Explained(L[j], F, j - 1) => Explained(L2[j], F2, j - 1)
             /\ OnceAt(L[j], F, j - 1) => OnceAt(L2[j], F2, j - 1)
    <2>1. j - 1 \in Nat /\ 1..(j - 1) \subseteq 1..k /\ L2[j] = L[j]
        OBVIOUS
    <2>2. \A i \in 1..(j - 1) : F2[i] = F[i]
        BY <2>1
    <2>3. QED
        BY <2>1, <2>2, SameFramesFacts
<1>2. 1..(k + 1) \subseteq 1..(n + 1)
    OBVIOUS
<1>3. QED
    BY <1>1, <1>2 DEF Recorded

LEMMA RecordedPush ==
    ASSUME NEW n \in Nat, NEW F, NEW L, Recorded(n, F, L), NEW F2, NEW L2,
           Pushed(n, F, L, F2, L2), ~Marked(F2[n + 1]),
           SameInbound(L2[n + 2], L[n + 1])
    PROVE  Recorded(n + 1, F2, L2)
<1>1. 1..(n + 2) = 1..(n + 1) \cup {n + 2} /\ n \in 0..n /\ (n + 1) + 1 = n + 2
      /\ (n + 2) - 1 = n + 1 /\ (n + 1) - 1 = n
    OBVIOUS
<1>2. \A j \in 1..(n + 1) : Explained(L2[j], F2, j - 1)
    BY <1>1, LowerFacts DEF Pushed
<1>3. Explained(L[n + 1], F, n)
    BY <1>1 DEF Recorded
<1>4. Explained(L2[n + 2], F2, n)
    BY <1>3, SameInboundFacts, SameFramesFacts DEF Pushed
<1>5. Explained(L2[n + 2], F2, n + 1)
    BY <1>4, ExtendFacts
<1>6. QED
    BY <1>1, <1>2, <1>5 DEF Recorded

LEMMA RecordedReplace ==
    ASSUME NEW n \in Nat \ {0}, NEW F, NEW L, Recorded(n, F, L), NEW F2, NEW L2,
           Replaced(n, F, L, F2, L2), Explained(L2[n + 1], F2, n)
    PROVE  Recorded(n, F2, L2)
<1>1. 1..(n + 1) = 1..n \cup {n + 1} /\ n - 1 \in 0..n /\ (n - 1) + 1 = n /\ (n + 1) - 1 = n
    OBVIOUS
<1>2. \A j \in 1..n : Explained(L2[j], F2, j - 1)
    BY <1>1, LowerFacts DEF Replaced
<1>3. QED
    BY <1>1, <1>2 DEF Recorded

LEMMA RecordedPop ==
    ASSUME NEW n \in Nat \ {0}, NEW F, NEW L, Recorded(n, F, L), NEW F2, NEW L2,
           Popped(n, F, L, F2, L2),
           \/ SameInbound(L2[n], L[n])
           \/ SameInbound(L2[n], L[n + 1]) /\ \A m : ~Verifying(F[n], m)
    PROVE  Recorded(n - 1, F2, L2)
<1>1. n - 1 \in Nat /\ (n - 1) + 1 = n /\ (n + 1) - 1 = n /\ 1..n = 1..(n - 1) \cup {n}
      /\ n \in 1..(n + 1) /\ n + 1 \in 1..(n + 1)
    OBVIOUS
<1>2. Explained(L[n], F, n - 1) /\ Explained(L[n + 1], F, n)
    BY <1>1 DEF Recorded
<1>3. (\A m : ~Verifying(F[n], m)) => Explained(L[n + 1], F, n - 1)
    BY <1>1, <1>2, ShrinkFacts
<1>4. Explained(L2[n], F, n - 1)
    BY <1>2, <1>3, SameInboundFacts
<1>5. Explained(L2[n], F2, n - 1)
    BY <1>1, <1>4, SameFramesFacts DEF Popped
<1>6. ASSUME NEW j \in 1..(n - 1) PROVE Explained(L2[j], F2, j - 1)
    <2>1. j - 1 \in Nat /\ L2[j] = L[j] /\ 1..(j - 1) \subseteq 1..(n - 1) /\ j \in 1..(n + 1)
        BY DEF Popped
    <2>2. \A i \in 1..(j - 1) : F2[i] = F[i]
        BY <2>1 DEF Popped
    <2>3. Explained(L[j], F, j - 1)
        BY <2>1 DEF Recorded
    <2>4. QED
        BY <2>1, <2>2, <2>3, SameFramesFacts
<1>7. QED
    BY <1>1, <1>5, <1>6 DEF Recorded

\* The delivery of m is recorded on top of the state b.
Marks(b, t, m) ==
    /\ t.processed_ids = Append(b.processed_ids, m)
    /\ t.delivered = b.delivered \cup {m}
    /\ t.handled = b.handled

LEMMA MarkExplained ==
    ASSUME NEW b, b.processed_ids \in Seq(Inbound), NEW t, NEW m \in Inbound, Marks(b, t, m),
           NEW F, NEW k \in Nat, Explained(b, F, k), Verifying(F[k + 1], m)
    PROVE  Explained(t, F, k + 1)
<1>1. 1..(k + 1) = 1..k \cup {k + 1}
    OBVIOUS
<1>2. Ids(t) = Ids(b) \cup {m}
    <2> DEFINE p == b.processed_ids
    <2>1. /\ Len(p) \in Nat /\ DOMAIN p = 1..Len(p)
          /\ DOMAIN t.processed_ids = 1..(Len(p) + 1)
          /\ \A k1 \in 1..Len(p) : t.processed_ids[k1] = p[k1]
          /\ t.processed_ids[Len(p) + 1] = m
        BY AppendProperties, LenProperties DEF Marks
    <2>2. 1..(Len(p) + 1) = 1..Len(p) \cup {Len(p) + 1}
        BY <2>1
    <2>3. Ids(b) = {p[k1] : k1 \in 1..Len(p)}
        BY <2>1 DEF Ids
    <2>4. Ids(t) = {t.processed_ids[k1] : k1 \in 1..(Len(p) + 1)}
        BY <2>1 DEF Ids
    <2> HIDE DEF p
    <2>5. ASSUME NEW x PROVE x \in Ids(t) <=> x \in Ids(b) \/ x = m
        BY <2>1, <2>2, <2>3, <2>4
    <2>6. QED
        BY <2>5
<1>3. t.delivered = Ids(t)
    BY <1>2 DEF Explained, Marks
<1>4. \A m1 \in Inbound : t.handled[m1] > 0 => m1 \in t.delivered
    BY DEF Explained, Marks
<1>5. \A m1 \in Inbound : m1 \in t.delivered /\ t.handled[m1] = 0 =>
          \E i \in 1..(k + 1) : Verifying(F[i], m1)
    BY <1>1 DEF Explained, Marks
<1>6. \A i \in 1..(k + 1) : Marked(F[i]) => F[i].inbound \in t.delivered
    BY <1>1 DEF Explained, Marks, Verifying
<1>7. QED
    BY <1>3, <1>4, <1>5, <1>6 DEF Explained

\* The verified message m is handed over.
Hands(s, t, m) ==
    /\ t.processed_ids = s.processed_ids
    /\ t.delivered = s.delivered
    /\ t.handled = [s.handled EXCEPT ![m] = @ + 1]

LEMMA HandExplained ==
    ASSUME NEW s, s.handled \in [Inbound -> Nat], NEW t, NEW m \in Inbound, Hands(s, t, m),
           NEW F, NEW F2, NEW n \in Nat \ {0}, Explained(s, F, n),
           \A i \in 1..(n - 1) : F2[i] = F[i], Verifying(F[n], m),
           F2[n].op = "process", F2[n].pc = "handle", F2[n].inbound = m
    PROVE  Explained(t, F2, n)
<1>1. 1..n = 1..(n - 1) \cup {n}
    OBVIOUS
<1>2. m \in s.delivered
    BY DEF Explained, Verifying, Marked
<1>3. t.handled[m] > 0 /\ \A m1 \in Inbound : m1 # m => t.handled[m1] = s.handled[m1]
    BY DEF Hands
<1>4. t.delivered = Ids(t)
    BY DEF Explained, Hands, Ids
<1>5. \A m1 \in Inbound : t.handled[m1] > 0 => m1 \in t.delivered
    BY <1>2, <1>3 DEF Explained, Hands
<1>6. ASSUME NEW m1 \in Inbound, m1 \in t.delivered, t.handled[m1] = 0
      PROVE  \E i \in 1..n : Verifying(F2[i], m1)
    <2>1. m1 # m
        BY <1>3, <1>6
    <2>2. PICK i \in 1..n : Verifying(F[i], m1)
        BY <1>3, <1>6, <2>1 DEF Explained, Hands
    <2>3. i \in 1..(n - 1)
        BY <1>1, <2>1, <2>2 DEF Verifying
    <2>4. QED
        BY <2>2, <2>3
<1>7. \A i \in 1..n : Marked(F2[i]) => F2[i].inbound \in t.delivered
    BY <1>1, <1>2 DEF Explained, Hands
<1>8. QED
    BY <1>4, <1>5, <1>6, <1>7 DEF Explained

\* As states: the stack grows, keeps its height or shrinks.
LEMMA RecordedEnter ==
    ASSUME StackType, RecordedInv, NEW f \in Frame, stack' = Append(stack, f),
           f.saved = Current, ~Marked(f), UNCHANGED inbound
    PROVE  RecordedInv'
<1>1. PICK n : n = Len(stack)
    OBVIOUS
<1>2. /\ n \in Nat
      /\ Len(stack') = n + 1
      /\ \A j \in 1..n : stack'[j] = stack[j]
      /\ stack'[n + 1] = f
      /\ \A j \in 1..(n + 1) : Levels'[j] = Levels[j]
      /\ Levels'[n + 2] = Current'
      /\ Levels[n + 1] = Current
    BY <1>1, LevelsPush
<1>3. Recorded(n, stack, Levels)
    BY <1>1 DEF RecordedInv
<1>4. Pushed(n, stack, Levels, stack', Levels')
    BY <1>2 DEF Pushed
<1>5. SameInbound(Levels'[n + 2], Levels[n + 1])
    BY <1>2 DEF SameInbound, inbound, Current
<1>6. Recorded(n + 1, stack', Levels')
    BY <1>2, <1>3, <1>4, <1>5, RecordedPush
<1>7. QED
    BY <1>2, <1>6 DEF RecordedInv

\* What the invariant says of the top frame and of the two states next to it.
LEMMA RecordedTop ==
    ASSUME StackType, RecordedInv, stack # <<>>, NEW n, n = Len(stack)
    PROVE  /\ n \in Nat \ {0} /\ Top = stack[n] /\ (n - 1) + 1 = n
           /\ Explained(Current, stack, n)
           /\ Explained(Top.saved, stack, n - 1)
<1>1. n \in Nat \ {0} /\ (n - 1) + 1 = n /\ (n + 1) - 1 = n
      /\ n \in 1..(n + 1) /\ n + 1 \in 1..(n + 1)
    BY EmptySeq DEF StackType
<1>2. Levels[n] = Top.saved /\ Levels[n + 1] = Current /\ Top = stack[n]
    BY <1>1 DEF Levels, Top
<1>3. Explained(Levels[n + 1], stack, n) /\ Explained(Levels[n], stack, n - 1)
    BY <1>1 DEF RecordedInv, Recorded
<1>4. QED
    BY <1>1, <1>2, <1>3

LEMMA RecordedContinue ==
    ASSUME StackType, RecordedInv, stack # <<>>,
           NEW f \in Frame, Continue(f), f.saved = Top.saved, f.op = Top.op,
           Explained(Current', stack', Len(stack))
    PROVE  RecordedInv'
<1>1. PICK n : n = Len(stack)
    OBVIOUS
<1>2. /\ n \in Nat \ {0}
      /\ Len(stack') = n
      /\ \A j \in 1..(n - 1) : stack'[j] = stack[j]
      /\ stack'[n] = f
      /\ \A j \in 1..n : Levels'[j] = Levels[j]
      /\ Levels'[n + 1] = Current'
    BY <1>1, LevelsContinue
<1>3. Recorded(n, stack, Levels)
    BY <1>1 DEF RecordedInv
<1>4. Replaced(n, stack, Levels, stack', Levels')
    BY <1>1, <1>2 DEF Replaced, Top
<1>5. Recorded(n, stack', Levels')
    BY <1>1, <1>2, <1>3, <1>4, RecordedReplace
<1>6. QED
    BY <1>2, <1>5 DEF RecordedInv

LEMMA RecordedLeave ==
    ASSUME StackType, RecordedInv, stack # <<>>, stack' = Pop,
           \/ SameInbound(Current', Top.saved)
           \/ SameInbound(Current', Current) /\ \A m : ~Verifying(Top, m)
    PROVE  RecordedInv'
<1>1. PICK n : n = Len(stack)
    OBVIOUS
<1>2. /\ n \in Nat \ {0}
      /\ Len(stack') = n - 1
      /\ \A j \in 1..(n - 1) : stack'[j] = stack[j]
      /\ \A j \in 1..(n - 1) : Levels'[j] = Levels[j]
      /\ Levels'[n] = Current'
      /\ Levels[n + 1] = Current
      /\ Levels[n] = Top.saved
    BY <1>1, LevelsPop
<1>3. Top = stack[n]
    BY <1>1 DEF Top
<1>4. Recorded(n, stack, Levels)
    BY <1>1 DEF RecordedInv
<1>5. Popped(n, stack, Levels, stack', Levels')
    BY <1>2 DEF Popped
<1>6. Recorded(n - 1, stack', Levels')
    BY <1>2, <1>3, <1>4, <1>5, RecordedPop
<1>7. QED
    BY <1>2, <1>6 DEF RecordedInv

LEMMA RecordedKept ==
    ASSUME StackType, RecordedInv, UNCHANGED <<inbound, stack>>
    PROVE  RecordedInv'
<1>1. PICK n : n = Len(stack)
    OBVIOUS
<1>2. n \in Nat /\ Len(stack') = n /\ stack' = stack
    BY <1>1, LenProperties DEF StackType
<1>3. \A j \in 1..(n + 1) : SameInbound(Levels'[j], Levels[j])
    BY <1>1, <1>2 DEF Levels, SameInbound, inbound, Current
<1>4. \A j \in 1..(n + 1) : Explained(Levels'[j], stack, j - 1)
    BY <1>1, <1>3, SameInboundFacts DEF RecordedInv, Recorded
<1>5. QED
    BY <1>2, <1>4 DEF RecordedInv, Recorded

\* The stack after Continue(f).
LEMMA ContinueStack ==
    ASSUME StackType, stack # <<>>, NEW f \in Frame, Continue(f), NEW n, n = Len(stack)
    PROVE  /\ Len(stack') = n /\ stack'[n] = f
           /\ \A j \in 1..(n - 1) : stack'[j] = stack[j]
BY ContinueProperties DEF StackType, Continue

LEMMA InboundRestored ==
    ASSUME NEW s, RestoreInbound(s)
    PROVE  SameInbound(Current', s)
BY DEF RestoreInbound, SameInbound, Current

LEMMA InboundKept == UNCHANGED inbound => SameInbound(Current', Current)
BY DEF inbound, SameInbound, Current

LEMMA InitRecorded == Init => RecordedInv
<1>1. ASSUME Init PROVE RecordedInv
    <2>1. Len(stack) = 0 /\ Levels[1] = Current
        BY <1>1, EmptySeq DEF Init, Levels
    <2>2. /\ Current.delivered = {} /\ Current.processed_ids = <<>>
          /\ \A m \in Inbound : Current.handled[m] = 0
        BY <1>1 DEF Init, Current
    <2>3. Ids(Current) = {}
        BY <2>2 DEF Ids
    <2>4. Explained(Current, stack, 0)
        BY <2>2, <2>3 DEF Explained
    <2>5. QED
        BY <2>1, <2>4 DEF RecordedInv, Recorded
<1>2. QED
    BY <1>1

LEMMA DispatchStepRecorded ==
    ASSUME TypeOK, RecordedInv, DispatchStep
    PROVE  RecordedInv'
<1>1. StackType /\ ConfigType /\ OutboundType
    BY TypeParts
<1>2. UNCHANGED inbound
    BY DEF DispatchStep, Dispatch, QuoteRequired, QuoteHook, PostRequired, PayRequired,
           PostHook, FinishDispatch
<1>3. ASSUME NEW caller \in Callers, NEW hook \in Hooks \cup {NoContract},
             Dispatch(caller, hook)
      PROVE  RecordedInv'
    <2> DEFINE f == EnteredDispatch(caller, hook)
    <2>1. f \in Frame
        BY <1>1, EnteredDispatchType
    <2>2. stack' = Append(stack, f) /\ f.saved = Current /\ ~Marked(f)
        BY <1>3 DEF Dispatch, EnteredDispatch, Marked
    <2> HIDE DEF f
    <2>3. QED
        BY <1>1, <1>2, <2>1, <2>2, RecordedEnter
<1>4. ASSUME stack # <<>>, NEW f \in DispatchFrame, Continue(f), SameDispatch(f, Top)
      PROVE  RecordedInv'
    <2>1. f \in Frame /\ f.saved = Top.saved /\ f.op = Top.op /\ ~Marked(f)
          /\ \A m : ~Verifying(Top, m)
        BY <1>4 DEF Frame, SameDispatch, Marked, Verifying
    <2>2. PICK n : n = Len(stack)
        OBVIOUS
    <2>3. /\ n \in Nat \ {0} /\ Top = stack[n] /\ (n - 1) + 1 = n /\ n - 1 \in Nat
          /\ Explained(Current, stack, n)
        BY <1>1, <1>4, <2>2, RecordedTop
    <2>4. stack'[n] = f /\ \A j \in 1..(n - 1) : stack'[j] = stack[j]
        BY <1>1, <1>4, <2>1, <2>2, ContinueStack
    <2>a. Explained(Current, stack, (n - 1) + 1) /\ \A m : ~Verifying(stack[(n - 1) + 1], m)
        BY <2>1, <2>3
    <2>5. Explained(Current, stack, n - 1)
        BY <2>3, <2>a, ShrinkFacts
    <2>6. Explained(Current, stack', n - 1)
        BY <2>3, <2>4, <2>5, SameFramesFacts
    <2>7. Explained(Current, stack', n)
        BY <2>1, <2>3, <2>4, <2>6, ExtendFacts
    <2>8. Explained(Current', stack', n)
        BY <1>2, <2>7, InboundKept, SameInboundFacts
    <2>9. QED
        BY <1>1, <1>4, <2>1, <2>2, <2>8, RecordedContinue
<1>5. ASSUME NEW fee \in Fees, QuoteRequired(fee)
      PROVE  RecordedInv'
    BY <1>4, <1>5, QuoteRequiredFrame
<1>6. ASSUME NEW fee \in Fees, QuoteHook(fee)
      PROVE  RecordedInv'
    BY <1>4, <1>6, QuoteHookFrame
<1>7. CASE PostRequired
    BY <1>4, <1>7, PostRequiredFrame DEF Moved
<1>8. CASE PayRequired
    BY <1>4, <1>8, PayRequiredFrame DEF Moved
<1>9. CASE PostHook
    BY <1>4, <1>9, PostHookFrame DEF Moved
<1>10. CASE FinishDispatch
    <2>1. stack # <<>> /\ stack' = Pop /\ \A m : ~Verifying(Top, m)
        BY <1>10, FinishDispatchFrame DEF DispatchFrame, Verifying
    <2>2. QED
        BY <1>1, <1>2, <2>1, InboundKept, RecordedLeave
<1>11. QED
    BY <1>3, <1>5, <1>6, <1>7, <1>8, <1>9, <1>10 DEF DispatchStep

LEMMA ProcessStepRecorded ==
    ASSUME TypeOK, RecordedInv, ProcessStep
    PROVE  RecordedInv'
<1>1. StackType /\ InboundType
    BY TypeParts
<1>2. ASSUME NEW m \in Inbound, Process(m)
      PROVE  RecordedInv'
    <2> DEFINE f == [op |-> "process", pc |-> "ism_query",
                     inbound |-> m, ism |-> NoContract, saved |-> Current]
    <2>1. f \in Frame
        BY DEF TypeOK, Frame, ProcessFrame, ProcessPC
    <2>2. stack' = Append(stack, f) /\ f.saved = Current /\ ~Marked(f)
        BY <1>2 DEF Process, Marked
    <2>3. UNCHANGED inbound
        BY <1>2 DEF Process
    <2> HIDE DEF f
    <2>4. QED
        BY <1>1, <2>1, <2>2, <2>3, RecordedEnter
<1>3. ASSUME stack # <<>>, Top \in ProcessFrame, Top.pc = "ism_query",
             NEW f \in ProcessFrame, Continue(f), SameProcess(f, Top), f.pc = "verify",
             Marks(Current, Current', Top.inbound) \/ Marks(Top.saved, Current', Top.inbound)
      PROVE  RecordedInv'
    <2>1. f \in Frame /\ f.saved = Top.saved /\ f.op = Top.op /\ Top.inbound \in Inbound
          /\ (\A m : ~Verifying(Top, m)) /\ Verifying(f, Top.inbound)
        BY <1>3 DEF Frame, SameProcess, Verifying, ProcessFrame
    <2>2. PICK n : n = Len(stack)
        OBVIOUS
    <2>3. /\ n \in Nat \ {0} /\ Top = stack[n] /\ (n - 1) + 1 = n /\ n - 1 \in Nat
          /\ Explained(Current, stack, n) /\ Explained(Top.saved, stack, n - 1)
        BY <1>1, <1>3, <2>2, RecordedTop
    <2>4. stack'[n] = f /\ \A j \in 1..(n - 1) : stack'[j] = stack[j]
        BY <1>1, <1>3, <2>1, <2>2, ContinueStack
    <2>5. Explained(Current, stack', n - 1) /\ Explained(Top.saved, stack', n - 1)
        BY <2>1, <2>3, <2>4, ShrinkFacts, SameFramesFacts
    <2>6. Current.processed_ids \in Seq(Inbound) /\ Top.saved.processed_ids \in Seq(Inbound)
        BY <1>3, TypeParts DEF InboundType, Current, ProcessFrame, Storage
    <2>7. Explained(Current', stack', n)
        BY <1>3, <2>1, <2>3, <2>4, <2>5, <2>6, MarkExplained
    <2>8. QED
        BY <1>1, <1>3, <2>1, <2>2, <2>7, RecordedContinue
<1>4. ASSUME NEW answer \in Isms \cup {NoContract}, ResolveIsm(answer)
      PROVE  RecordedInv'
    <2>1. Marks(Current, Current', Top.inbound)
        BY <1>4 DEF ResolveIsm, Marks, Current
    <2>2. QED
        BY <1>3, <1>4, <2>1, ResolveIsmFrame
<1>5. CASE ResolveIsmFails
    <2>1. Marks(Top.saved, Current', Top.inbound)
        BY <1>5 DEF ResolveIsmFails, Marks, Current
    <2>2. QED
        BY <1>3, <1>5, <2>1, ResolveIsmFailsFrame
<1>6. CASE Verified
    <2>1. stack # <<>> /\ Top \in ProcessFrame /\ Top.pc = "verify"
        BY <1>6, VerifiedFrame
    <2>2. PICK f \in ProcessFrame : Continue(f) /\ SameProcess(f, Top) /\ f.pc = "handle"
        BY <1>6, VerifiedFrame
    <2>3. f \in Frame /\ f.saved = Top.saved /\ f.op = Top.op /\ Top.inbound \in Inbound
          /\ Verifying(Top, Top.inbound)
          /\ f.op = "process" /\ f.inbound = Top.inbound
        BY <2>1, <2>2 DEF Frame, SameProcess, Verifying, ProcessFrame
    <2>4. PICK n : n = Len(stack)
        OBVIOUS
    <2>5. n \in Nat \ {0} /\ Top = stack[n] /\ Explained(Current, stack, n)
        BY <1>1, <2>1, <2>4, RecordedTop
    <2>6. stack'[n] = f /\ \A j \in 1..(n - 1) : stack'[j] = stack[j]
        BY <1>1, <2>1, <2>2, <2>3, <2>4, ContinueStack
    <2>7. Hands(Current, Current', Top.inbound)
        BY <1>6 DEF Verified, Hands, Current
    <2>8. Current.handled \in [Inbound -> Nat]
        BY <1>1 DEF InboundType, Current
    <2>9. Explained(Current', stack', n)
        BY <2>2, <2>3, <2>5, <2>6, <2>7, <2>8, HandExplained
    <2>10. QED
        BY <1>1, <2>1, <2>2, <2>3, <2>4, <2>9, RecordedContinue
<1>7. CASE FinishProcess
    <2>1. stack # <<>> /\ stack' = Pop /\ \A m : ~Verifying(Top, m)
        BY <1>7, FinishProcessFrame DEF Verifying
    <2>2. SameInbound(Current', Current)
        BY <1>7, InboundKept DEF FinishProcess
    <2>3. QED
        BY <1>1, <2>1, <2>2, RecordedLeave
<1>8. QED
    BY <1>2, <1>4, <1>5, <1>6, <1>7 DEF ProcessStep

LEMMA OtherStepsRecorded ==
    ASSUME TypeOK, RecordedInv, Deploy \/ FeeCredit \/ Admin \/ Abort \/ UNCHANGED vars
    PROVE  RecordedInv'
<1>1. StackType
    BY TypeParts
<1>2. CASE Abort
    <2>1. stack # <<>> /\ stack' = Pop /\ SameInbound(Current', Top.saved)
        BY <1>2, InboundRestored DEF Abort
    <2>2. QED
        BY <1>1, <2>1, RecordedLeave
<1>3. CASE Deploy \/ FeeCredit \/ Admin \/ UNCHANGED vars
    <2>1. UNCHANGED <<inbound, stack>>
        BY <1>3 DEF Deploy, Initialize, vars, Admin, SetDefaultIsm, SetDefaultHook,
                    SetRequiredHook, TransferOwnership, RenounceOwnership,
                    FeeCredit, FundDispatch, WithdrawDispatchCredit
    <2>2. QED
        BY <1>1, <2>1, RecordedKept
<1>4. QED
    BY <1>2, <1>3

\* In every state a failure can fall back to, and in the current one, the delivery
\* records, the index and the hand-overs agree but for the messages being verified.
THEOREM RecordedCorrect == Spec => []RecordedInv
<1>1. TypeOK /\ RecordedInv /\ [Next]_vars => RecordedInv'
    BY DispatchStepRecorded, ProcessStepRecorded, OtherStepsRecorded DEF Next
<1>2. QED
    BY InitRecorded, TypeCorrect, <1>1, PTL DEF Spec

\* Between transactions a message is marked delivered exactly when it is indexed
\* and its recipient handled it after verification.
THEOREM DeliveryCorrect == Spec => []DeliveredMeansHandled
<1>1. ASSUME TypeOK, RecordedInv, stack = <<>>
      PROVE  /\ delivered = {processed_ids[i] : i \in DOMAIN processed_ids}
             /\ \A m \in Inbound : m \in delivered <=> handled[m] > 0
    <2>1. Len(stack) = 0 /\ Levels[1] = Current
        BY <1>1, EmptySeq DEF Levels
    <2>2. Explained(Current, stack, 0)
        BY <1>1, <2>1 DEF RecordedInv, Recorded
    <2>3. handled \in [Inbound -> Nat]
        BY <1>1, TypeParts DEF InboundType
    <2>4. \A m \in Inbound : m \in delivered => handled[m] # 0
        BY <2>2 DEF Explained, Current
    <2>5. \A m \in Inbound : handled[m] > 0 => m \in delivered
        BY <2>2 DEF Explained, Current
    <2>6. delivered = {processed_ids[i] : i \in DOMAIN processed_ids}
        BY <2>2 DEF Explained, Current, Ids
    <2>7. QED
        BY <2>3, <2>4, <2>5, <2>6
<1>2. QED
    BY <1>1, TypeCorrect, RecordedCorrect, PTL DEF DeliveredMeansHandled

-----------------------------------------------------------------------------
(* No message reaches its recipient twice, as long as a recipient that is   *)
(* asked for its ISM cannot call back.                                      *)

Asking(f) == f.op = "process" /\ f.pc = "ism_query"

LEMMA OncePush ==
    ASSUME NEW n \in Nat, NEW F, NEW L, Once(n, F, L), NEW F2, NEW L2,
           Pushed(n, F, L, F2, L2), ~Marked(F2[n + 1]),
           SameInbound(L2[n + 2], L[n + 1]),
           n > 0 => ~Asking(F[n]),
           F2[n + 1].op = "process" => F2[n + 1].inbound \notin L[n + 1].delivered
    PROVE  Once(n + 1, F2, L2)
<1>1. /\ 1..(n + 2) = 1..(n + 1) \cup {n + 2} /\ 1..(n + 1) = 1..n \cup {n + 1}
      /\ n \in 0..n /\ (n + 1) + 1 = n + 2 /\ (n + 2) - 1 = n + 1 /\ (n + 1) - 1 = n
    OBVIOUS
<1>2. \A j \in 1..(n + 1) : OnceAt(L2[j], F2, j - 1)
    BY <1>1, LowerFacts DEF Pushed, Once
<1>3. OnceAt(L[n + 1], F, n)
    BY <1>1 DEF Once
<1>4. OnceAt(L2[n + 2], F2, n)
    BY <1>3, SameInboundFacts, SameFramesFacts DEF Pushed
<1>5. OnceAt(L2[n + 2], F2, n + 1)
    BY <1>4, ExtendFacts
<1>6. \A i \in 1..n : ~Asking(F[i])
    BY DEF Once, Fresh, Asking
<1>7. \A i \in 1..n : F2[i] = F[i] /\ L2[i] = L[i]
    BY DEF Pushed
<1>8. L2[n + 1] = L[n + 1] /\ L2[n + 2].delivered = L[n + 1].delivered
    BY DEF Pushed, SameInbound
<1>9. \A i \in 1..(n + 1) : F2[i].op = "process" => F2[i].inbound \notin L2[i].delivered
    BY <1>1, <1>7, <1>8 DEF Once, Fresh
<1>10. \A i \in 1..(n + 1) : F2[i].op = "process" /\ F2[i].pc = "ism_query" =>
          i = n + 1 /\ F2[n + 1].inbound \notin L2[n + 2].delivered
    BY <1>1, <1>6, <1>7, <1>8 DEF Asking
<1>11. Fresh(n + 1, F2, L2)
    BY <1>1, <1>9, <1>10 DEF Fresh
<1>12. QED
    BY <1>1, <1>2, <1>5, <1>11 DEF Once

LEMMA OnceReplace ==
    ASSUME NEW n \in Nat \ {0}, NEW F, NEW L, Once(n, F, L), NEW F2, NEW L2,
           Replaced(n, F, L, F2, L2), OnceAt(L2[n + 1], F2, n), ~Asking(F2[n]),
           F2[n].op = "process" => F2[n].inbound = F[n].inbound
    PROVE  Once(n, F2, L2)
<1>1. /\ 1..(n + 1) = 1..n \cup {n + 1} /\ n - 1 \in 0..n /\ (n - 1) + 1 = n /\ (n + 1) - 1 = n
      /\ 1..n = 1..(n - 1) \cup {n}
    OBVIOUS
<1>2. ASSUME NEW j \in 1..n PROVE OnceAt(L2[j], F2, j - 1)
    <2>1. j - 1 \in Nat /\ L2[j] = L[j] /\ 1..(j - 1) \subseteq 1..(n - 1) /\ j \in 1..(n + 1)
        BY DEF Replaced
    <2>2. \A i \in 1..(j - 1) : F2[i] = F[i]
        BY <2>1 DEF Replaced
    <2>3. OnceAt(L[j], F, j - 1)
        BY <2>1 DEF Once
    <2>4. QED
        BY <2>1, <2>2, <2>3, SameFramesFacts
<1>3. \A i \in 1..n : F2[i].op = "process" => F2[i].inbound \notin L2[i].delivered
    BY <1>1 DEF Once, Fresh, Replaced
<1>4. \A i \in 1..n : ~Asking(F2[i])
    <2>1. ASSUME NEW i \in 1..(n - 1) PROVE ~Asking(F2[i])
        BY <1>1 DEF Once, Fresh, Replaced, Asking
    <2>2. QED
        BY <1>1, <2>1
<1>5. Fresh(n, F2, L2)
    BY <1>3, <1>4 DEF Fresh, Asking
<1>6. QED
    BY <1>1, <1>2, <1>5 DEF Once

LEMMA OncePop ==
    ASSUME NEW n \in Nat \ {0}, NEW F, NEW L, Once(n, F, L), NEW F2, NEW L2,
           Popped(n, F, L, F2, L2),
           \/ SameInbound(L2[n], L[n])
           \/ SameInbound(L2[n], L[n + 1]) /\ \A m : ~Verifying(F[n], m)
    PROVE  Once(n - 1, F2, L2)
<1>1. n - 1 \in Nat /\ (n - 1) + 1 = n /\ (n + 1) - 1 = n /\ 1..n = 1..(n - 1) \cup {n}
      /\ n \in 1..(n + 1) /\ n + 1 \in 1..(n + 1)
    OBVIOUS
<1>2. OnceAt(L[n], F, n - 1) /\ OnceAt(L[n + 1], F, n)
    BY <1>1 DEF Once
<1>3. (\A m : ~Verifying(F[n], m)) => OnceAt(L[n + 1], F, n - 1)
    <2>1. OnceAt(L[n + 1], F, (n - 1) + 1) /\ F[(n - 1) + 1] = F[n]
        BY <1>1, <1>2
    <2>2. QED
        BY <1>1, <2>1, ShrinkFacts
<1>4. OnceAt(L2[n], F, n - 1)
    BY <1>2, <1>3, SameInboundFacts
<1>5. OnceAt(L2[n], F2, n - 1)
    BY <1>1, <1>4, SameFramesFacts DEF Popped
<1>6. ASSUME NEW j \in 1..(n - 1) PROVE OnceAt(L2[j], F2, j - 1)
    <2>1. j - 1 \in Nat /\ L2[j] = L[j] /\ 1..(j - 1) \subseteq 1..(n - 1) /\ j \in 1..(n + 1)
        BY DEF Popped
    <2>2. \A i \in 1..(j - 1) : F2[i] = F[i]
        BY <2>1 DEF Popped
    <2>3. OnceAt(L[j], F, j - 1)
        BY <2>1 DEF Once
    <2>4. QED
        BY <2>1, <2>2, <2>3, SameFramesFacts
<1>7. Fresh(n - 1, F2, L2)
    <2>1. \A i \in 1..(n - 1) : F2[i] = F[i] /\ L2[i] = L[i] /\ i \in 1..n /\ i # n
        BY DEF Popped
    <2>2. QED
        BY <2>1 DEF Once, Fresh
<1>8. QED
    BY <1>1, <1>5, <1>6, <1>7 DEF Once

LEMMA MarkOnce ==
    ASSUME NEW b, b.processed_ids \in Seq(Inbound), b.handled \in [Inbound -> Nat],
           NEW t, NEW m \in Inbound, Marks(b, t, m), m \notin b.delivered,
           NEW F, NEW k \in Nat, Explained(b, F, k), OnceAt(b, F, k), Verifying(F[k + 1], m)
    PROVE  OnceAt(t, F, k + 1)
<1>1. 1..(k + 1) = 1..k \cup {k + 1}
    OBVIOUS
<1>2. b.handled[m] = 0
    BY DEF Explained
<1>3. \A m1 \in Inbound : t.handled[m1] <= 1
    BY DEF OnceAt, Marks
<1>4. \A a1, b1 \in DOMAIN t.processed_ids : a1 # b1 => t.processed_ids[a1] # t.processed_ids[b1]
    <2> DEFINE p == b.processed_ids
               l == Len(p)
    <2>1. /\ l \in Nat /\ DOMAIN p = 1..l
          /\ DOMAIN t.processed_ids = 1..(l + 1)
          /\ \A k1 \in 1..l : t.processed_ids[k1] = p[k1]
          /\ t.processed_ids[l + 1] = m
        BY AppendProperties, LenProperties DEF Marks
    <2>2. \A k1 \in 1..l : p[k1] # m
        BY <2>1 DEF Explained, Ids
    <2>3. \A a1, b1 \in 1..l : a1 # b1 => p[a1] # p[b1]
        BY <2>1 DEF OnceAt
    <2> HIDE DEF p, l
    <2>4. 1..(l + 1) = 1..l \cup {l + 1}
        BY <2>1
    <2>5. QED
        BY <2>1, <2>2, <2>3, <2>4
<1>5. \A i \in 1..(k + 1) : \A m1 \in Inbound : Verifying(F[i], m1) => t.handled[m1] = 0
    BY <1>1, <1>2 DEF OnceAt, Marks, Verifying
<1>6. QED
    BY <1>3, <1>4, <1>5 DEF OnceAt

LEMMA HandOnce ==
    ASSUME NEW s, s.handled \in [Inbound -> Nat], NEW t, NEW m \in Inbound, Hands(s, t, m),
           NEW F, NEW F2, NEW n \in Nat \ {0}, OnceAt(s, F, n),
           \A i \in 1..(n - 1) : F2[i] = F[i] /\ ~Verifying(F[i], m),
           Verifying(F[n], m), \A m1 : ~Verifying(F2[n], m1)
    PROVE  OnceAt(t, F2, n)
<1>1. 1..n = 1..(n - 1) \cup {n}
    OBVIOUS
<1>2. s.handled[m] = 0
    BY <1>1 DEF OnceAt
<1>3. t.handled[m] = 1 /\ \A m1 \in Inbound : m1 # m => t.handled[m1] = s.handled[m1]
    BY <1>2 DEF Hands
<1>4. \A m1 \in Inbound : t.handled[m1] <= 1
    BY <1>3 DEF OnceAt
<1>5. \A a, b \in DOMAIN t.processed_ids : a # b => t.processed_ids[a] # t.processed_ids[b]
    BY DEF OnceAt, Hands
<1>6. \A i \in 1..n : \A m1 \in Inbound : Verifying(F2[i], m1) => t.handled[m1] = 0
    BY <1>1, <1>3 DEF OnceAt
<1>7. QED
    BY <1>4, <1>5, <1>6 DEF OnceAt

LEMMA OnceEnter ==
    ASSUME StackType, OnceInv, NEW f \in Frame, stack' = Append(stack, f),
           f.saved = Current, ~Marked(f), UNCHANGED inbound,
           stack # <<>> => ~Asking(Top),
           f.op = "process" => f.inbound \notin delivered
    PROVE  OnceInv'
<1>1. PICK n : n = Len(stack)
    OBVIOUS
<1>2. /\ n \in Nat
      /\ Len(stack') = n + 1
      /\ \A j \in 1..n : stack'[j] = stack[j]
      /\ stack'[n + 1] = f
      /\ \A j \in 1..(n + 1) : Levels'[j] = Levels[j]
      /\ Levels'[n + 2] = Current'
      /\ Levels[n + 1] = Current
    BY <1>1, LevelsPush
<1>3. Once(n, stack, Levels)
    BY <1>1 DEF OnceInv
<1>4. Pushed(n, stack, Levels, stack', Levels')
    BY <1>2 DEF Pushed
<1>5. SameInbound(Levels'[n + 2], Levels[n + 1])
    BY <1>2 DEF SameInbound, inbound, Current
<1>6. n > 0 => ~Asking(stack[n])
    BY <1>1, EmptySeq DEF StackType, Top
<1>7. Levels[n + 1].delivered = delivered
    BY <1>2 DEF Current
<1>8. Once(n + 1, stack', Levels')
    BY <1>2, <1>3, <1>4, <1>5, <1>6, <1>7, OncePush
<1>9. QED
    BY <1>2, <1>8 DEF OnceInv

LEMMA OnceTop ==
    ASSUME StackType, OnceInv, stack # <<>>, NEW n, n = Len(stack)
    PROVE  /\ OnceAt(Current, stack, n) /\ OnceAt(Top.saved, stack, n - 1)
           /\ Top.op = "process" => Top.inbound \notin Top.saved.delivered
           /\ Asking(Top) => Top.inbound \notin Current.delivered
<1>1. n \in Nat \ {0} /\ (n - 1) + 1 = n /\ (n + 1) - 1 = n
      /\ n \in 1..(n + 1) /\ n + 1 \in 1..(n + 1)
    BY EmptySeq DEF StackType
<1>2. Levels[n] = Top.saved /\ Levels[n + 1] = Current /\ Top = stack[n]
    BY <1>1 DEF Levels, Top
<1>3. OnceAt(Levels[n + 1], stack, n) /\ OnceAt(Levels[n], stack, n - 1)
    BY <1>1 DEF OnceInv, Once
<1>4. QED
    BY <1>1, <1>2, <1>3 DEF OnceInv, Once, Fresh, Asking

LEMMA OnceContinue ==
    ASSUME StackType, OnceInv, stack # <<>>,
           NEW f \in Frame, Continue(f), f.saved = Top.saved, f.op = Top.op,
           f.op = "process" => f.inbound = Top.inbound,
           ~Asking(f), OnceAt(Current', stack', Len(stack))
    PROVE  OnceInv'
<1>1. PICK n : n = Len(stack)
    OBVIOUS
<1>2. /\ n \in Nat \ {0}
      /\ Len(stack') = n
      /\ \A j \in 1..(n - 1) : stack'[j] = stack[j]
      /\ stack'[n] = f
      /\ \A j \in 1..n : Levels'[j] = Levels[j]
      /\ Levels'[n + 1] = Current'
    BY <1>1, LevelsContinue
<1>3. Once(n, stack, Levels)
    BY <1>1 DEF OnceInv
<1>4. Replaced(n, stack, Levels, stack', Levels')
    BY <1>1, <1>2 DEF Replaced, Top
<1>5. Once(n, stack', Levels')
    BY <1>1, <1>2, <1>3, <1>4, OnceReplace DEF Top
<1>6. QED
    BY <1>2, <1>5 DEF OnceInv

LEMMA OnceLeave ==
    ASSUME StackType, OnceInv, stack # <<>>, stack' = Pop,
           \/ SameInbound(Current', Top.saved)
           \/ SameInbound(Current', Current) /\ \A m : ~Verifying(Top, m)
    PROVE  OnceInv'
<1>1. PICK n : n = Len(stack)
    OBVIOUS
<1>2. /\ n \in Nat \ {0}
      /\ Len(stack') = n - 1
      /\ \A j \in 1..(n - 1) : stack'[j] = stack[j]
      /\ \A j \in 1..(n - 1) : Levels'[j] = Levels[j]
      /\ Levels'[n] = Current'
      /\ Levels[n + 1] = Current
      /\ Levels[n] = Top.saved
    BY <1>1, LevelsPop
<1>3. Top = stack[n]
    BY <1>1 DEF Top
<1>4. Once(n, stack, Levels)
    BY <1>1 DEF OnceInv
<1>5. Popped(n, stack, Levels, stack', Levels')
    BY <1>2 DEF Popped
<1>6. Once(n - 1, stack', Levels')
    BY <1>2, <1>3, <1>4, <1>5, OncePop
<1>7. QED
    BY <1>2, <1>6 DEF OnceInv

LEMMA OnceKept ==
    ASSUME StackType, OnceInv, UNCHANGED <<inbound, stack>>
    PROVE  OnceInv'
<1>1. PICK n : n = Len(stack)
    OBVIOUS
<1>2. n \in Nat /\ Len(stack') = n /\ stack' = stack
    BY <1>1, LenProperties DEF StackType
<1>3. \A j \in 1..(n + 1) : SameInbound(Levels'[j], Levels[j])
    BY <1>1, <1>2 DEF Levels, SameInbound, inbound, Current
<1>4. \A j \in 1..(n + 1) : OnceAt(Levels'[j], stack, j - 1)
    BY <1>1, <1>3, SameInboundFacts DEF OnceInv, Once
<1>5. Fresh(n, stack, Levels')
    <2>1. \A j \in 1..(n + 1) : Levels'[j].delivered = Levels[j].delivered
        BY <1>3 DEF SameInbound
    <2>2. 1..n \subseteq 1..(n + 1) /\ n + 1 \in 1..(n + 1)
        BY <1>2
    <2>3. QED
        BY <1>1, <2>1, <2>2 DEF OnceInv, Once, Fresh
<1>6. QED
    BY <1>2, <1>4, <1>5 DEF OnceInv, Once

LEMMA InitOnce == Init => OnceInv
<1>1. ASSUME Init PROVE OnceInv
    <2>1. Len(stack) = 0 /\ Levels[1] = Current
        BY <1>1, EmptySeq DEF Init, Levels
    <2>2. Current.processed_ids = <<>> /\ \A m \in Inbound : Current.handled[m] = 0
        BY <1>1 DEF Init, Current
    <2>3. OnceAt(Current, stack, 0)
        BY <2>2 DEF OnceAt
    <2>4. QED
        BY <2>1, <2>3 DEF OnceInv, Once, Fresh
<1>2. QED
    BY <1>1

LEMMA DispatchStepOnce ==
    ASSUME ~ReentrantIsmQuery, TypeOK, OnceInv, DispatchStep
    PROVE  OnceInv'
<1>1. StackType /\ ConfigType /\ OutboundType
    BY TypeParts
<1>2. UNCHANGED inbound
    BY DEF DispatchStep, Dispatch, QuoteRequired, QuoteHook, PostRequired, PayRequired,
           PostHook, FinishDispatch
<1>3. ASSUME NEW caller \in Callers, NEW hook \in Hooks \cup {NoContract},
             Dispatch(caller, hook)
      PROVE  OnceInv'
    <2> DEFINE f == EnteredDispatch(caller, hook)
    <2>1. f \in Frame
        BY <1>1, EnteredDispatchType
    <2>2. stack' = Append(stack, f) /\ f.saved = Current /\ ~Marked(f) /\ f.op # "process"
        BY <1>3 DEF Dispatch, EnteredDispatch, Marked
    <2>3. stack # <<>> => ~Asking(Top)
        BY <1>3 DEF Dispatch, MayEnter, Asking
    <2> HIDE DEF f
    <2>4. QED
        BY <1>1, <1>2, <2>1, <2>2, <2>3, OnceEnter
<1>4. ASSUME stack # <<>>, NEW f \in DispatchFrame, Continue(f), SameDispatch(f, Top)
      PROVE  OnceInv'
    <2>1. f \in Frame /\ f.saved = Top.saved /\ f.op = Top.op /\ ~Marked(f) /\ ~Asking(f)
          /\ f.op # "process" /\ \A m : ~Verifying(Top, m)
        BY <1>4 DEF Frame, SameDispatch, Marked, Verifying, Asking
    <2>2. PICK n : n = Len(stack)
        OBVIOUS
    <2>3. /\ n \in Nat \ {0} /\ Top = stack[n] /\ (n - 1) + 1 = n /\ n - 1 \in Nat
          /\ OnceAt(Current, stack, n)
        BY <1>1, <1>4, <2>2, EmptySeq, OnceTop DEF Top, StackType
    <2>4. stack'[n] = f /\ \A j \in 1..(n - 1) : stack'[j] = stack[j]
        BY <1>1, <1>4, <2>1, <2>2, ContinueStack
    <2>a. OnceAt(Current, stack, (n - 1) + 1) /\ \A m : ~Verifying(stack[(n - 1) + 1], m)
        BY <2>1, <2>3
    <2>5. OnceAt(Current, stack, n - 1)
        BY <2>3, <2>a, ShrinkFacts
    <2>6. OnceAt(Current, stack', n - 1)
        BY <2>3, <2>4, <2>5, SameFramesFacts
    <2>7. OnceAt(Current, stack', n)
        BY <2>1, <2>3, <2>4, <2>6, ExtendFacts
    <2>8. OnceAt(Current', stack', n)
        BY <1>2, <2>7, InboundKept, SameInboundFacts
    <2>9. QED
        BY <1>1, <1>4, <2>1, <2>2, <2>8, OnceContinue
<1>5. ASSUME NEW fee \in Fees, QuoteRequired(fee)
      PROVE  OnceInv'
    BY <1>4, <1>5, QuoteRequiredFrame
<1>6. ASSUME NEW fee \in Fees, QuoteHook(fee)
      PROVE  OnceInv'
    BY <1>4, <1>6, QuoteHookFrame
<1>7. CASE PostRequired
    BY <1>4, <1>7, PostRequiredFrame DEF Moved
<1>8. CASE PayRequired
    BY <1>4, <1>8, PayRequiredFrame DEF Moved
<1>9. CASE PostHook
    BY <1>4, <1>9, PostHookFrame DEF Moved
<1>10. CASE FinishDispatch
    <2>1. stack # <<>> /\ stack' = Pop /\ \A m : ~Verifying(Top, m)
        BY <1>10, FinishDispatchFrame DEF DispatchFrame, Verifying
    <2>2. QED
        BY <1>1, <1>2, <2>1, InboundKept, OnceLeave
<1>11. QED
    BY <1>3, <1>5, <1>6, <1>7, <1>8, <1>9, <1>10 DEF DispatchStep

\* A delivery below the top is of another message: its own was recorded before
\* the top frame's delivery began.
LEMMA OthersVerify ==
    ASSUME StackType, RecordedInv, OnceInv, stack # <<>>, Top.op = "process"
    PROVE  \A i \in 1..(Len(stack) - 1) : ~Verifying(stack[i], Top.inbound)
<1>1. Explained(Top.saved, stack, Len(stack) - 1)
    BY RecordedTop
<1>2. Top.inbound \notin Top.saved.delivered
    BY OnceTop
<1>3. QED
    BY <1>1, <1>2 DEF Explained, Verifying, Marked

LEMMA ProcessStepOnce ==
    ASSUME ~ReentrantIsmQuery, TypeOK, RecordedInv, OnceInv, ProcessStep
    PROVE  OnceInv'
<1>1. StackType /\ InboundType
    BY TypeParts
<1>2. ASSUME NEW m \in Inbound, Process(m)
      PROVE  OnceInv'
    <2> DEFINE f == [op |-> "process", pc |-> "ism_query",
                     inbound |-> m, ism |-> NoContract, saved |-> Current]
    <2>1. f \in Frame
        BY DEF TypeOK, Frame, ProcessFrame, ProcessPC
    <2>2. stack' = Append(stack, f) /\ f.saved = Current /\ ~Marked(f) /\ f.inbound \notin delivered
        BY <1>2 DEF Process, Marked
    <2>3. UNCHANGED inbound
        BY <1>2 DEF Process
    <2>4. stack # <<>> => ~Asking(Top)
        BY <1>2 DEF Process, MayEnter, Asking
    <2> HIDE DEF f
    <2>5. QED
        BY <1>1, <2>1, <2>2, <2>3, <2>4, OnceEnter
<1>3. ASSUME stack # <<>>, Top \in ProcessFrame, Top.pc = "ism_query",
             NEW f \in ProcessFrame, Continue(f), SameProcess(f, Top), f.pc = "verify",
             Marks(Current, Current', Top.inbound) \/ Marks(Top.saved, Current', Top.inbound)
      PROVE  OnceInv'
    <2>1. f \in Frame /\ f.saved = Top.saved /\ f.op = Top.op /\ Top.inbound \in Inbound
          /\ (\A m : ~Verifying(Top, m)) /\ Verifying(f, Top.inbound)
          /\ ~Asking(f) /\ f.inbound = Top.inbound /\ Asking(Top) /\ Top.op = "process"
        BY <1>3 DEF Frame, SameProcess, Verifying, ProcessFrame, Asking
    <2>2. PICK n : n = Len(stack)
        OBVIOUS
    <2>3. /\ n \in Nat \ {0} /\ Top = stack[n] /\ (n - 1) + 1 = n /\ n - 1 \in Nat
          /\ Explained(Current, stack, n) /\ Explained(Top.saved, stack, n - 1)
        BY <1>1, <1>3, <2>2, RecordedTop
    <2>4. /\ OnceAt(Current, stack, n) /\ OnceAt(Top.saved, stack, n - 1)
          /\ Top.inbound \notin Top.saved.delivered /\ Top.inbound \notin Current.delivered
        BY <1>1, <1>3, <2>1, <2>2, OnceTop
    <2>5. stack'[n] = f /\ \A j \in 1..(n - 1) : stack'[j] = stack[j]
        BY <1>1, <1>3, <2>1, <2>2, ContinueStack
    <2>6. Explained(Current, stack', n - 1) /\ Explained(Top.saved, stack', n - 1)
        BY <2>1, <2>3, <2>5, ShrinkFacts, SameFramesFacts
    <2>7. OnceAt(Current, stack', n - 1) /\ OnceAt(Top.saved, stack', n - 1)
        BY <2>1, <2>3, <2>4, <2>5, ShrinkFacts, SameFramesFacts
    <2>8. /\ Current.processed_ids \in Seq(Inbound) /\ Top.saved.processed_ids \in Seq(Inbound)
          /\ Current.handled \in [Inbound -> Nat] /\ Top.saved.handled \in [Inbound -> Nat]
        BY <1>3, TypeParts DEF InboundType, Current, ProcessFrame, Storage
    <2>9. OnceAt(Current', stack', (n - 1) + 1)
        BY <1>3, <2>1, <2>3, <2>4, <2>5, <2>6, <2>7, <2>8, MarkOnce
    <2>10. OnceAt(Current', stack', n)
        BY <2>3, <2>9
    <2>11. QED
        BY <1>1, <1>3, <2>1, <2>2, <2>10, OnceContinue
<1>4. ASSUME NEW answer \in Isms \cup {NoContract}, ResolveIsm(answer)
      PROVE  OnceInv'
    <2>1. Marks(Current, Current', Top.inbound)
        BY <1>4 DEF ResolveIsm, Marks, Current
    <2>2. QED
        BY <1>3, <1>4, <2>1, ResolveIsmFrame
<1>5. CASE ResolveIsmFails
    <2>1. Marks(Top.saved, Current', Top.inbound)
        BY <1>5 DEF ResolveIsmFails, Marks, Current
    <2>2. QED
        BY <1>3, <1>5, <2>1, ResolveIsmFailsFrame
<1>6. CASE Verified
    <2>1. stack # <<>> /\ Top \in ProcessFrame /\ Top.pc = "verify"
        BY <1>6, VerifiedFrame
    <2>2. PICK f \in ProcessFrame : Continue(f) /\ SameProcess(f, Top) /\ f.pc = "handle"
        BY <1>6, VerifiedFrame
    <2>3. f \in Frame /\ f.saved = Top.saved /\ f.op = Top.op /\ Top.inbound \in Inbound
          /\ Verifying(Top, Top.inbound) /\ (\A m : ~Verifying(f, m)) /\ ~Asking(f)
          /\ f.inbound = Top.inbound /\ Top.op = "process"
        BY <2>1, <2>2 DEF Frame, SameProcess, Verifying, ProcessFrame, Asking
    <2>4. PICK n : n = Len(stack)
        OBVIOUS
    <2>5. n \in Nat \ {0} /\ Top = stack[n] /\ OnceAt(Current, stack, n)
        BY <1>1, <2>1, <2>4, RecordedTop, OnceTop
    <2>6. stack'[n] = f /\ \A j \in 1..(n - 1) : stack'[j] = stack[j]
        BY <1>1, <2>1, <2>2, <2>3, <2>4, ContinueStack
    <2>7. Hands(Current, Current', Top.inbound)
        BY <1>6 DEF Verified, Hands, Current
    <2>8. Current.handled \in [Inbound -> Nat]
        BY <1>1 DEF InboundType, Current
    <2>9. \A i \in 1..(n - 1) : ~Verifying(stack[i], Top.inbound)
        BY <1>1, <2>1, <2>3, <2>4, OthersVerify
    <2>10. OnceAt(Current', stack', n)
        BY <2>3, <2>5, <2>6, <2>7, <2>8, <2>9, HandOnce
    <2>11. QED
        BY <1>1, <2>1, <2>2, <2>3, <2>4, <2>10, OnceContinue
<1>7. CASE FinishProcess
    <2>1. stack # <<>> /\ stack' = Pop /\ \A m : ~Verifying(Top, m)
        BY <1>7, FinishProcessFrame DEF Verifying
    <2>2. SameInbound(Current', Current)
        BY <1>7, InboundKept DEF FinishProcess
    <2>3. QED
        BY <1>1, <2>1, <2>2, OnceLeave
<1>8. QED
    BY <1>2, <1>4, <1>5, <1>6, <1>7 DEF ProcessStep

LEMMA OtherStepsOnce ==
    ASSUME TypeOK, OnceInv, Deploy \/ FeeCredit \/ Admin \/ Abort \/ UNCHANGED vars
    PROVE  OnceInv'
<1>1. StackType
    BY TypeParts
<1>2. CASE Abort
    <2>1. stack # <<>> /\ stack' = Pop /\ SameInbound(Current', Top.saved)
        BY <1>2, InboundRestored DEF Abort
    <2>2. QED
        BY <1>1, <2>1, OnceLeave
<1>3. CASE Deploy \/ FeeCredit \/ Admin \/ UNCHANGED vars
    <2>1. UNCHANGED <<inbound, stack>>
        BY <1>3 DEF Deploy, Initialize, vars, Admin, SetDefaultIsm, SetDefaultHook,
                    SetRequiredHook, TransferOwnership, RenounceOwnership,
                    FeeCredit, FundDispatch, WithdrawDispatchCredit
    <2>2. QED
        BY <1>1, <2>1, OnceKept
<1>4. QED
    BY <1>2, <1>3

\* Without a callback from the ISM query, no message is handed over or indexed
\* twice in any state a failure can fall back to.
THEOREM OnceCorrect ==
    ASSUME ~ReentrantIsmQuery
    PROVE  Spec => []OnceInv
<1>1. TypeOK /\ RecordedInv /\ OnceInv /\ [Next]_vars => OnceInv'
    BY DispatchStepOnce, ProcessStepOnce, OtherStepsOnce DEF Next
<1>2. QED
    BY InitOnce, TypeCorrect, RecordedCorrect, <1>1, PTL DEF Spec

\* No message reaches its recipient twice, or enters the index twice, whoever
\* submits it again from a callback of the ISM's verification or the recipient's
\* handling, and whatever fails.
THEOREM DeliveredOnceCorrect ==
    ASSUME ~ReentrantIsmQuery
    PROVE  Spec => []DeliveredOnce
<1>1. ASSUME TypeOK, OnceInv PROVE DeliveredOnce
    <2>1. PICK n : n = Len(stack)
        OBVIOUS
    <2>2. n \in Nat /\ Levels[n + 1] = Current /\ n + 1 \in 1..(n + 1)
        BY <1>1, <2>1, TypeParts, LenProperties DEF StackType, Levels
    <2>3. OnceAt(Current, stack, (n + 1) - 1)
        BY <1>1, <2>1, <2>2 DEF OnceInv, Once
    <2>4. QED
        BY <2>3 DEF OnceAt, Current, DeliveredOnce
<1>2. Spec => []OnceInv
    BY OnceCorrect
<1>3. QED
    BY <1>1, <1>2, TypeCorrect, PTL

-----------------------------------------------------------------------------
(* What the aggregation's children are owed.                                 *)

\* The fee of the only child that asks for one.
Owed(fee) == IF fee > 0 THEN <<[hook |-> FlatFee, fee |-> fee]>> ELSE <<>>

LEMMA TotalOwed == ASSUME NEW fee \in Nat PROVE AH!Total(Owed(fee)) = fee
<1> DEFINE s == Owed(fee)
           D == DOMAIN s
           Sums(g) == g = [t \in SUBSET D |-> IF t = {} THEN 0
                             ELSE g[t \ {AH!Max(t)}] + s[AH!Max(t)].fee]
           sum == CHOOSE g : Sums(g)
           total == [t \in SUBSET D |-> IF t = {} THEN 0 ELSE fee]
<1>1. AH!Total(s) = sum[D]
    BY DEF AH!Total, AH!FoldLeft, AH!MapThenFoldSet
<1>2. \/ fee = 0 /\ D = {} /\ SUBSET D = {{}}
      \/ fee > 0 /\ D = {1} /\ SUBSET D = {{}, {1}} /\ s[1].fee = fee
    BY DEF Owed
<1>3. AH!Max({1}) = 1
    BY DEF AH!Max
<1> HIDE DEF s, D
<1>4. Sums(total)
    <2>1. \A t \in SUBSET D : total[t] = IF t = {} THEN 0
                                ELSE total[t \ {AH!Max(t)}] + s[AH!Max(t)].fee
        <3>1. {1} \ {1} = {} /\ {} \in SUBSET D
            OBVIOUS
        <3> QED
            BY <1>2, <1>3, <3>1
    <2> HIDE DEF total
    <2>2. total = [t \in SUBSET D |-> total[t]]
        BY DEF total
    <2> QED
        BY <2>1, <2>2
<1> HIDE DEF total
<1>5. Sums(sum)
    BY <1>4
<1> HIDE DEF sum
<1>6. sum[D] = fee
    <2>1. CASE fee = 0
        BY <1>2, <1>5, <2>1
    <2>2. CASE fee > 0
        <3>1. {1} \ {1} = {} /\ {} \in SUBSET D /\ {1} \in SUBSET D /\ {1} # {}
            BY <1>2, <2>2
        <3>2. sum[{}] = 0
            BY <1>5, <3>1
        <3>3. sum[{1}] = sum[{}] + s[1].fee
            BY <1>3, <1>5, <3>1
        <3> QED
            BY <1>2, <2>2, <3>2, <3>3
    <2> QED
        BY <1>2, <2>1, <2>2
<1> QED
    BY <1>1, <1>6 DEF s

LEMMA PaymentsOwed ==
    ASSUME PF!Quote \in Nat
    PROVE  AH!Payments(ChildFees) = Owed(PF!Quote)
<1> DEFINE D == DOMAIN Children
           fee == ChildFees
           Add(payments, child) ==
               IF fee[child] > 0 THEN Append(payments, [hook |-> child, fee |-> fee[child]])
                                 ELSE payments
           Folds(g) == g = [t \in SUBSET D |-> IF t = {} THEN <<>>
                              ELSE Add(g[t \ {AH!Max(t)}], Children[AH!Max(t)])]
           fold == CHOOSE g : Folds(g)
           owed == [t \in SUBSET D |-> IF 2 \in t THEN Owed(PF!Quote) ELSE <<>>]
<1>1. AH!Payments(fee) = fold[D]
    BY DEF AH!Payments, AH!FoldLeft, AH!MapThenFoldSet
<1>2. D = {1, 2} /\ Children[1] = MerkleTree /\ Children[2] = FlatFee
    BY DEF Children
<1>3. fee[MerkleTree] = 0 /\ fee[FlatFee] = PF!Quote
    BY HookedAssumption DEF ChildFees
<1>4. AH!Max({1}) = 1 /\ AH!Max({2}) = 2 /\ AH!Max({1, 2}) = 2
    BY DEF AH!Max
<1> HIDE DEF D, fee
<1>5. SUBSET D = {{}, {1}, {2}, {1, 2}}
    BY <1>2
<1>6. \A p : Add(p, MerkleTree) = p
    BY <1>3
<1>7. Add(<<>>, FlatFee) = Owed(PF!Quote)
    BY <1>3 DEF Owed
<1> HIDE DEF Add
<1>8. {1} \ {1} = {} /\ {2} \ {2} = {} /\ {1, 2} \ {2} = {1} /\ {1} # {} /\ {2} # {} /\ {1, 2} # {}
    OBVIOUS
<1>9. Folds(owed)
    <2>0. /\ owed[{}] = <<>> /\ owed[{1}] = <<>>
          /\ owed[{2}] = Owed(PF!Quote) /\ owed[{1, 2}] = Owed(PF!Quote)
          /\ owed = [t \in SUBSET D |-> owed[t]]
        BY <1>5
    <2> HIDE DEF owed
    <2>1. \A t \in SUBSET D : owed[t] = IF t = {} THEN <<>>
                              ELSE Add(owed[t \ {AH!Max(t)}], Children[AH!Max(t)])
        <3>1. owed[{1}] = Add(owed[{1} \ {AH!Max({1})}], Children[AH!Max({1})])
            BY <1>2, <1>4, <1>6, <1>8, <2>0
        <3>2. owed[{2}] = Add(owed[{2} \ {AH!Max({2})}], Children[AH!Max({2})])
            BY <1>2, <1>4, <1>7, <1>8, <2>0
        <3>3. owed[{1, 2}] = Add(owed[{1, 2} \ {AH!Max({1, 2})}], Children[AH!Max({1, 2})])
            BY <1>2, <1>4, <1>7, <1>8, <2>0
        <3> QED
            BY <1>5, <1>8, <2>0, <3>1, <3>2, <3>3
    <2> QED
        BY <2>0, <2>1
<1> HIDE DEF owed
<1>10. Folds(fold)
    BY <1>9
<1> HIDE DEF fold
<1>11. {} \in SUBSET D /\ {1} \in SUBSET D /\ {1, 2} \in SUBSET D
    BY <1>5
<1>12. fold[{}] = <<>>
    BY <1>10, <1>11
<1>13. fold[{1}] = <<>>
    <2>1. fold[{1}] = Add(fold[{1} \ {AH!Max({1})}], Children[AH!Max({1})])
        BY <1>8, <1>10, <1>11
    <2> QED
        BY <1>2, <1>4, <1>6, <1>8, <1>12, <2>1
<1>14. fold[{1, 2}] = Owed(PF!Quote)
    <2>1. fold[{1, 2}] = Add(fold[{1, 2} \ {AH!Max({1, 2})}], Children[AH!Max({1, 2})])
        BY <1>8, <1>10, <1>11
    <2> QED
        BY <1>2, <1>4, <1>7, <1>8, <1>13, <2>1
<1> QED
    BY <1>1, <1>2, <1>14 DEF fee

-----------------------------------------------------------------------------
(* The invariant of the Mailbox with its hooks.  Between transactions, and   *)
(* in what a failing dispatch falls back to, the hooks are quiet: the tree   *)
(* is the log, and no payment is awaited.  In a dispatch each pc says what   *)
(* has been logged, inserted and announced so far.                           *)

\* What the paymaster may have stored for a destination.
Accepted == {c \in IGP!DomainGasConfig : IGP!ValidConfig(c)} \cup {NoConfig}

FlatPayment == [payer : Identities, fee : 0..MaxU64]
GasPayment == [message : Outbound, destination : Domains, gas_limit : GasLimits,
               payment : 0..MaxU64]

\* Each fee hook holds what is claimable, and that was collected.
ProtocolOK(p) ==
    /\ p \in [protocol_fee : 0..MaxU64, beneficiary : Accounts, owner : HookOwners,
              collected_fees : Nat, claimable_fees : Nat,
              pending_payment : {NoPayment} \cup FlatPayment, balance : Nat]
    /\ p.balance = p.claimable_fees
    /\ p.claimable_fees <= p.collected_fees

PaymasterOK(g) ==
    /\ g \in [owner : HookOwners, beneficiary : Accounts,
              domain_gas_configs : [Domains -> Accepted],
              total_gas_payments : Nat, gas_payments : Seq(GasPayment),
              claimable_fees : Nat,
              pending_payment : {NoPayment} \cup GasPayment, balance : Nat]
    /\ g.balance = g.claimable_fees
    /\ g.claimable_fees <= g.total_gas_payments

\* Each root commits to the leaves up to its own.
TreeOK(ids, roots) ==
    /\ ids \in Seq(Outbound)
    /\ roots \in Seq(Seq(Outbound))
    /\ Len(roots) = Len(ids)
    /\ \A i \in 1..Len(ids) : roots[i] = SubSeq(ids, 1, i)

\* One record for each message in bought, all older than nonce n.
RecordsOK(payments, bought, n) ==
    /\ {payments[i].message : i \in DOMAIN payments} = bought
    /\ IsFiniteSet(bought)
    /\ Len(payments) = Cardinality(bought)
    /\ \A m \in bought : m.nonce < n

\* What holds of the hooks' storage h at any time, n being the next nonce of
\* which no message is paid.
Sound(h, n) ==
    /\ ProtocolOK(h.protocol)
    /\ PaymasterOK(h.igp)
    /\ TreeOK(h.inserted_message_ids, h.inserted_roots)
    /\ RecordsOK(h.igp.gas_payments, h.gas_bought, n)
    /\ h.repriced \in BOOLEAN

\* The fee hook and the aggregation wait for nothing, prices permitting.
NoFeePending(h) ==
    ~h.repriced => h.protocol.pending_payment = NoPayment /\ h.pending_payments = <<>>

\* What holds of it between transactions.
Quiet(h, log, n) ==
    /\ Sound(h, n)
    /\ n \in 0..MaxNonce
    /\ h.inserted_message_ids = log
    /\ h.igp.pending_payment = NoPayment
    /\ NoFeePending(h)

\* The frame of a dispatch.
FrameOK(f) ==
    /\ f = [op |-> f.op, pc |-> f.pc, message |-> f.message, hook |-> f.hook,
            quoted |-> f.quoted, required |-> f.required,
            required_fee |-> f.required_fee, hook_fee |-> f.hook_fee, saved |-> f.saved]
    /\ f.pc \in DispatchPC
    /\ f.message \in Outbound
    /\ f.message.nonce = f.saved.nonce
    /\ ~f.saved.dispatching

\* How far the message has come when f waits at its pc.
LogAt(f) ==
    /\ nonce = IF f.pc \in {"quote_required", "quote_hook"}
               THEN f.saved.nonce ELSE f.saved.nonce + 1
    /\ nonce \in 0..MaxNonce
    /\ dispatched_messages = IF f.pc = "post_required"
                             THEN Append(inserted_message_ids, f.message)
                             ELSE inserted_message_ids

\* What has been announced and not yet paid.
PaymentsAt(f) ==
    /\ IF f.pc = "pay_hook" /\ f.hook = Paymaster
       THEN igp.pending_payment # NoPayment /\ igp.pending_payment.message = f.message
       ELSE igp.pending_payment = NoPayment
    /\ f.pc # "pay_required" => NoFeePending(HookStorage)
    /\ f.pc \in {"quote_hook", "post_required"} /\ ~repriced =>
          f.required_fee = protocol.protocol_fee


\* Between transactions.
Idle ==
    /\ stack = <<>>
    /\ saved = <<>>
    /\ ~dispatching
    /\ Quiet(HookStorage, dispatched_messages, nonce)

\* A dispatch in the frame f runs and will restore the hooks' storage q if it fails.
InDispatch(f, q) ==
    /\ dispatching
    /\ FrameOK(f)
    /\ Quiet(q, f.saved.dispatched_messages, f.saved.nonce)
    /\ Sound(HookStorage, f.saved.nonce)
    /\ LogAt(f)
    /\ PaymentsAt(f)

HookedInv ==
    \/ Idle
    \/ \E f, q : stack = <<f>> /\ saved = <<q>> /\ InDispatch(f, q)


-----------------------------------------------------------------------------
(* The hooks' own steps.                                                     *)

LEMMA NoneIsNoPayment == NoPayment \notin FlatPayment /\ NoPayment \notin GasPayment
BY PricesAssumption DEF FlatPayment, GasPayment

LEMMA ProtocolPosts ==
    ASSUME ProtocolOK(protocol), NEW sender \in Identities, PF!PostDispatch(sender)
    PROVE  ProtocolOK(protocol') /\ protocol'.protocol_fee = protocol.protocol_fee
<1>1. [payer |-> sender, fee |-> protocol.protocol_fee] \in FlatPayment
    BY DEF ProtocolOK, FlatPayment
<1>2. CASE protocol.protocol_fee = 0
    BY <1>2 DEF PF!PostDispatch, ProtocolOK
<1>3. CASE protocol.protocol_fee # 0
    BY <1>1, <1>3 DEF PF!PostDispatch, ProtocolOK
<1> QED
    BY <1>2, <1>3

LEMMA ProtocolPaid ==
    ASSUME ProtocolOK(protocol), NEW amount, PF!ReceivePayment(amount)
    PROVE  ProtocolOK(protocol') /\ protocol'.pending_payment = NoPayment
<1>0. amount \in Nat
    BY DEF PF!ReceivePayment, ProtocolOK, FlatPayment
<1> DEFINE collected == protocol.collected_fees + amount
           claimable == protocol.claimable_fees + amount
           balance == protocol.balance + amount
<1>1. collected \in Nat /\ claimable \in Nat /\ balance \in Nat
      /\ balance = claimable /\ claimable <= collected
    BY <1>0 DEF ProtocolOK
<1>2. protocol' = [protocol EXCEPT !.pending_payment = NoPayment,
                                   !.collected_fees = collected,
                                   !.claimable_fees = claimable,
                                   !.balance = balance]
    BY DEF PF!ReceivePayment
<1> HIDE DEF collected, claimable, balance
<1> QED
    BY <1>1, <1>2 DEF ProtocolOK

LEMMA ProtocolClaimed ==
    ASSUME ProtocolOK(protocol), NEW caller, PF!Claim(caller)
    PROVE  ProtocolOK(protocol') /\ protocol'.pending_payment = protocol.pending_payment
<1> DEFINE balance == protocol.balance - protocol.claimable_fees
<1>1. balance = 0 /\ 0 \in Nat /\ protocol.collected_fees \in Nat /\ 0 <= protocol.collected_fees
    BY DEF ProtocolOK
<1>2. protocol' = [protocol EXCEPT !.claimable_fees = 0, !.balance = balance]
    BY DEF PF!Claim
<1> HIDE DEF balance
<1> QED
    BY <1>1, <1>2 DEF ProtocolOK

LEMMA ProtocolAdministered ==
    ASSUME ProtocolOK(protocol), NEW caller, PF!Admin(caller)
    PROVE  ProtocolOK(protocol') /\ protocol'.pending_payment = protocol.pending_payment
<1>1. CASE \E fee \in ProtocolFees : PF!SetProtocolFee(caller, fee)
    <2>1. PICK fee \in 0..MaxU64 : protocol' = [protocol EXCEPT !.protocol_fee = fee]
        BY <1>1, HookedAssumption DEF PF!SetProtocolFee
    <2> QED
        BY <2>1 DEF ProtocolOK
<1>2. CASE \E beneficiary \in Accounts : PF!SetBeneficiary(caller, beneficiary)
    BY <1>2 DEF PF!SetBeneficiary, ProtocolOK
<1>3. CASE \E new_owner \in HookOwners : PF!TransferOwnership(caller, new_owner)
    BY <1>3 DEF PF!TransferOwnership, ProtocolOK
<1> QED
    BY <1>1, <1>2, <1>3 DEF PF!Admin

LEMMA PaymasterInit ==
    ASSUME IGP!Init
    PROVE  PaymasterOK(igp) /\ igp.pending_payment = NoPayment /\ igp.gas_payments = <<>>
<1>1. PICK configs \in [Domains -> {c \in GasConfigs : IGP!ValidConfig(c)} \cup {NoConfig}],
           beneficiary \in Accounts, o \in HookOwners :
        igp = [owner |-> o, beneficiary |-> beneficiary,
               domain_gas_configs |-> configs,
               total_gas_payments |-> 0, gas_payments |-> <<>>,
               claimable_fees |-> 0, pending_payment |-> NoPayment, balance |-> 0]
    BY DEF IGP!Init
<1>2. configs \in [Domains -> Accepted]
    BY PricesAssumption DEF IGP!PaymasterAssumption, IGP!GasPricesAssumption, Accepted
<1>3. <<>> \in Seq(GasPayment)
    OBVIOUS
<1> QED
    BY <1>1, <1>2, <1>3 DEF PaymasterOK

\* What quote_dispatch answers fits u64.
LEMMA PaymentFits ==
    ASSUME PaymasterOK(igp), NEW d \in Domains, NEW g, IGP!CanQuote(d, g)
    PROVE  IGP!QuoteGasPayment(d, g) \in 0..MaxU64
<1> DEFINE c == igp.domain_gas_configs[d]
<1>1. c \in IGP!DomainGasConfig
    BY DEF PaymasterOK, Accepted, IGP!CanQuote
<1>2. IGP!Payment(c, g) \in Nat
    <2>1. c.gas_overhead \in Nat /\ c.token_exchange_rate \in Nat /\ c.gas_price \in Nat
          /\ g \in Nat
        BY <1>1, PricesAssumption, MailboxAssumption
           DEF IGP!PaymasterAssumption, IGP!GasPricesAssumption, IGP!DomainGasConfig, IGP!CanQuote
    <2>2. (g + c.gas_overhead) * c.gas_price \in Nat
        BY <2>1
    <2>3. IGP!Cost(c, g) \in Nat
        BY <2>1, <2>2 DEF IGP!Cost, IGP!GasPrice
    <2> QED
        BY <2>3, PricesAssumption DEF IGP!PaymasterAssumption, IGP!GasPricesAssumption, IGP!Payment
<1>3. IGP!Payment(c, g) <= MaxU64
    BY DEF IGP!CanQuote, IGP!Quotable
<1> QED
    BY <1>2, <1>3, MailboxAssumption DEF IGP!QuoteGasPayment

LEMMA PaymasterPosts ==
    ASSUME PaymasterOK(igp), NEW m \in Outbound, NEW d \in Domains, NEW g \in GasLimits,
           IGP!PostDispatch(m, d, g)
    PROVE  /\ PaymasterOK(igp')
           /\ igp'.pending_payment # NoPayment
           /\ igp'.pending_payment.message = m
           /\ igp'.gas_payments = igp.gas_payments
<1> DEFINE p == [message |-> m, destination |-> d, gas_limit |-> g,
                 payment |-> IGP!QuoteGasPayment(d, g)]
<1>1. igp' = [igp EXCEPT !.pending_payment = p]
    BY DEF IGP!PostDispatch
<1>2. IGP!QuoteGasPayment(d, g) \in 0..MaxU64
    BY PaymentFits DEF IGP!PostDispatch
<1>3. p \in GasPayment /\ p.message = m
    BY <1>2 DEF GasPayment
<1>4. p # NoPayment
    BY <1>3, NoneIsNoPayment
<1> HIDE DEF p
<1> QED
    BY <1>1, <1>3, <1>4 DEF PaymasterOK

LEMMA PaymasterPaid ==
    ASSUME PaymasterOK(igp), NEW amount, IGP!ReceivePayment(amount)
    PROVE  /\ PaymasterOK(igp')
           /\ igp'.pending_payment = NoPayment
           /\ igp'.gas_payments = Append(igp.gas_payments, igp.pending_payment)
<1>1. igp.pending_payment \in GasPayment
    BY DEF IGP!ReceivePayment, PaymasterOK
<1>0. amount \in Nat
    BY <1>1 DEF IGP!ReceivePayment, GasPayment
<1>2. Append(igp.gas_payments, igp.pending_payment) \in Seq(GasPayment)
    BY <1>1 DEF PaymasterOK
<1> DEFINE total == igp.total_gas_payments + amount
           claimable == igp.claimable_fees + amount
           balance == igp.balance + amount
           payments == Append(igp.gas_payments, igp.pending_payment)
<1>3. total \in Nat /\ claimable \in Nat /\ balance \in Nat
      /\ balance = claimable /\ claimable <= total
    BY <1>0 DEF PaymasterOK
<1>4. igp' = [igp EXCEPT !.pending_payment = NoPayment,
                         !.total_gas_payments = total,
                         !.claimable_fees = claimable,
                         !.gas_payments = payments,
                         !.balance = balance]
    BY DEF IGP!ReceivePayment
<1>5. payments \in Seq(GasPayment)
    BY <1>2
<1> HIDE DEF total, claimable, balance, payments
<1>6. PaymasterOK(igp') /\ igp'.pending_payment = NoPayment /\ igp'.gas_payments = payments
    BY <1>3, <1>4, <1>5 DEF PaymasterOK
<1> QED
    BY <1>6 DEF payments

LEMMA PaymasterClaimed ==
    ASSUME PaymasterOK(igp), NEW caller, IGP!Claim(caller)
    PROVE  /\ PaymasterOK(igp')
           /\ igp'.pending_payment = igp.pending_payment
           /\ igp'.gas_payments = igp.gas_payments
<1> DEFINE balance == igp.balance - igp.claimable_fees
<1>1. balance = 0 /\ 0 \in Nat /\ igp.total_gas_payments \in Nat /\ 0 <= igp.total_gas_payments
    BY DEF PaymasterOK
<1>2. igp' = [igp EXCEPT !.claimable_fees = 0, !.balance = balance]
    BY DEF IGP!Claim
<1> HIDE DEF balance
<1> QED
    BY <1>1, <1>2 DEF PaymasterOK

LEMMA PaymasterConfigured ==
    ASSUME PaymasterOK(igp), NEW caller, NEW configs,
           \A d \in DOMAIN configs : configs[d] \in GasConfigs,
           IGP!SetDomainGasConfigs(caller, configs)
    PROVE  /\ PaymasterOK(igp')
           /\ igp'.pending_payment = igp.pending_payment
           /\ igp'.gas_payments = igp.gas_payments
<1> DEFINE stored == [d \in Domains |->
                        IF d \in DOMAIN configs THEN configs[d]
                        ELSE igp.domain_gas_configs[d]]
<1>1. igp' = [igp EXCEPT !.domain_gas_configs = stored]
    BY DEF IGP!SetDomainGasConfigs
<1>2. \A d \in DOMAIN configs : configs[d] \in Accepted
    BY PricesAssumption DEF IGP!PaymasterAssumption, IGP!GasPricesAssumption, IGP!SetDomainGasConfigs, Accepted
<1>3. stored \in [Domains -> Accepted]
    BY <1>2 DEF PaymasterOK
<1> HIDE DEF stored
<1> QED
    BY <1>1, <1>3 DEF PaymasterOK

LEMMA PaymasterAdministered ==
    ASSUME PaymasterOK(igp), NEW caller, IGP!Admin(caller)
    PROVE  /\ PaymasterOK(igp')
           /\ igp'.pending_payment = igp.pending_payment
           /\ igp'.gas_payments = igp.gas_payments
<1>1. CASE \E ds \in SUBSET Domains : \E configs \in [ds -> GasConfigs] :
              IGP!SetDomainGasConfigs(caller, configs)
    BY <1>1, PaymasterConfigured
<1>2. CASE \E domain \in Domains, gas_config \in GasConfigs :
              IGP!SetDomainGasConfig(caller, domain, gas_config)
    <2>1. PICK domain \in Domains, gas_config \in GasConfigs :
              IGP!SetDomainGasConfigs(caller, [d \in {domain} |-> gas_config])
        BY <1>2 DEF IGP!SetDomainGasConfig
    <2> QED
        BY <2>1, PaymasterConfigured
<1>3. CASE \E beneficiary \in Accounts : IGP!SetBeneficiary(caller, beneficiary)
    BY <1>3 DEF IGP!SetBeneficiary, PaymasterOK
<1>4. CASE \E new_owner \in HookOwners : IGP!TransferOwnership(caller, new_owner)
    BY <1>4 DEF IGP!TransferOwnership, PaymasterOK
<1> QED
    BY <1>1, <1>2, <1>3, <1>4 DEF IGP!Admin

LEMMA TreeGrows ==
    ASSUME TreeOK(inserted_message_ids, inserted_roots), NEW m \in Outbound,
           MT!PostDispatch(m)
    PROVE  /\ TreeOK(inserted_message_ids', inserted_roots')
           /\ inserted_message_ids' = Append(inserted_message_ids, m)
<1> DEFINE ids == inserted_message_ids
           n == Len(ids)
<1>1. ids \in Seq(Outbound) /\ n \in Nat /\ inserted_roots \in Seq(Seq(Outbound))
      /\ Len(inserted_roots) = n
    BY DEF TreeOK
<1>2. inserted_message_ids' = Append(ids, m) /\ inserted_roots' = Append(inserted_roots, Append(ids, m))
    BY DEF MT!PostDispatch
<1>3. Append(ids, m) \in Seq(Outbound) /\ Len(Append(ids, m)) = n + 1
    BY <1>1
<1>4. ASSUME NEW i \in 1..(n + 1)
      PROVE  inserted_roots'[i] = SubSeq(Append(ids, m), 1, i)
    <2>1. CASE i = n + 1
        <3>1. inserted_roots'[i] = Append(ids, m)
            BY <1>1, <1>2, <1>3, <2>1
        <3>2. SubSeq(Append(ids, m), 1, n + 1) = Append(ids, m)
            BY <1>1, <1>3
        <3> QED
            BY <2>1, <3>1, <3>2
    <2>2. CASE i # n + 1
        <3>1. i \in 1..n
            BY <1>1, <2>2
        <3>2. inserted_roots'[i] = inserted_roots[i]
            BY <1>1, <1>2, <1>3, <3>1
        <3>3. SubSeq(Append(ids, m), 1, i) = SubSeq(ids, 1, i)
            BY <1>1, <3>1
        <3> QED
            BY <3>1, <3>2, <3>3 DEF TreeOK
    <2> QED
        BY <2>1, <2>2
<1>5. inserted_roots' \in Seq(Seq(Outbound)) /\ Len(inserted_roots') = n + 1
    BY <1>1, <1>2, <1>3
<1> QED
    BY <1>2, <1>3, <1>4, <1>5 DEF TreeOK

\* A payment recorded for a message that is newer than all paid ones.
LEMMA RecordsGrow ==
    ASSUME NEW payments \in Seq(GasPayment), NEW bought, NEW n \in Nat,
           RecordsOK(payments, bought, n), NEW p \in GasPayment, p.message.nonce = n
    PROVE  RecordsOK(Append(payments, p), bought \cup {p.message}, n + 1)
<1> DEFINE all == Append(payments, p)
<1>1. /\ all \in Seq(GasPayment) /\ Len(all) = Len(payments) + 1 /\ Len(payments) \in Nat
      /\ \A i \in 1..Len(payments) : all[i] = payments[i]
      /\ all[Len(payments) + 1] = p
      /\ DOMAIN all = 1..(Len(payments) + 1) /\ DOMAIN payments = 1..Len(payments)
    OBVIOUS
<1> HIDE DEF all
<1>2. p.message \notin bought
    BY DEF RecordsOK
<1>3. {all[i].message : i \in DOMAIN all} = bought \cup {p.message}
    <2>1. \A i \in DOMAIN all : i \in DOMAIN payments \/ i = Len(payments) + 1
        BY <1>1
    <2>2. \A i \in DOMAIN payments : i \in DOMAIN all /\ all[i] = payments[i]
        BY <1>1
    <2>3. Len(payments) + 1 \in DOMAIN all
        BY <1>1
    <2> QED
        BY <1>1, <2>1, <2>2, <2>3 DEF RecordsOK
<1>4. IsFiniteSet(bought \cup {p.message})
      /\ Cardinality(bought \cup {p.message}) = Cardinality(bought) + 1
    BY <1>2, FS_AddElement DEF RecordsOK
<1>5. \A m \in bought \cup {p.message} : m.nonce < n + 1
    <2>1. ASSUME NEW m \in bought PROVE m.nonce < n + 1
        <3>1. PICK i \in DOMAIN payments : m = payments[i].message
            BY DEF RecordsOK
        <3>2. m.nonce \in Nat /\ m.nonce < n
            <4>1. payments[i] \in GasPayment
                OBVIOUS
            <4> QED
                BY <3>1, <4>1 DEF RecordsOK, GasPayment, Outbound
        <3> QED
            BY <3>2
    <2> QED
        BY <2>1
<1> QED
    BY <1>1, <1>3, <1>4, <1>5 DEF RecordsOK, all


-----------------------------------------------------------------------------
(* The steps.                                                                *)

LEMMA SoundParts ==
    ASSUME NEW n
    PROVE  Sound(HookStorage, n) <=>
              /\ ProtocolOK(protocol)
              /\ PaymasterOK(igp)
              /\ TreeOK(inserted_message_ids, inserted_roots)
              /\ RecordsOK(igp.gas_payments, gas_bought, n)
              /\ repriced \in BOOLEAN
BY DEF Sound, HookStorage

LEMMA SoundPartsNext ==
    ASSUME NEW n
    PROVE  Sound(HookStorage', n) <=>
              /\ ProtocolOK(protocol')
              /\ PaymasterOK(igp')
              /\ TreeOK(inserted_message_ids', inserted_roots')
              /\ RecordsOK(igp'.gas_payments, gas_bought', n)
              /\ repriced' \in BOOLEAN
BY DEF Sound, HookStorage

LEMMA HooksKept == UNCHANGED hooks => HookStorage' = HookStorage
BY DEF hooks, HookStorage

\* A dispatch's records stay sound when the nonce moves on.
LEMMA SoundLater ==
    ASSUME NEW h, NEW n \in Nat, Sound(h, n)
    PROVE  Sound(h, n + 1)
<1>1. ASSUME NEW m \in h.gas_bought PROVE m.nonce < n + 1
    <2>1. PICK i \in DOMAIN h.igp.gas_payments : m = h.igp.gas_payments[i].message
        BY DEF Sound, RecordsOK
    <2>2. h.igp.gas_payments[i] \in GasPayment
        BY DEF Sound, PaymasterOK
    <2>3. m.nonce \in Nat /\ m.nonce < n
        BY <2>1, <2>2 DEF Sound, RecordsOK, GasPayment, Outbound
    <2> QED
        BY <2>3
<1> QED
    BY <1>1 DEF Sound, RecordsOK

\* The frame of the one dispatch there can be.
LEMMA OneFrame ==
    ASSUME NEW f, NEW q, stack = <<f>>, saved = <<q>>
    PROVE  /\ stack # <<>> /\ Top = f /\ Pop = <<>>
           /\ SubSeq(saved, 1, Len(saved) - 1) = <<>> /\ saved[Len(saved)] = q
           /\ \A g : Continue(g) => stack' = <<g>>
<1>1. Len(<<f>>) = 1 /\ <<f>>[1] = f /\ <<f>> # <<>>
    OBVIOUS
<1>2. SubSeq(<<f>>, 1, 0) = <<>> /\ SubSeq(<<q>>, 1, 0) = <<>>
    OBVIOUS
<1>3. \A g : [<<f>> EXCEPT ![1] = g] = <<g>>
    OBVIOUS
<1> QED
    BY <1>1, <1>2, <1>3 DEF Top, Pop, Continue

\* g is the frame f goes on to.
FrameStep(f, g) ==
    FrameOK(g) /\ g.saved = f.saved /\ g.message = f.message /\ g.hook = f.hook

LEMMA BusyNext ==
    ASSUME NEW f, NEW q, NEW g, InDispatch(f, q), FrameStep(f, g),
           stack' = <<g>>, saved' = <<q>>, dispatching',
           Sound(HookStorage', f.saved.nonce), LogAt(g)', PaymentsAt(g)'
    PROVE  HookedInv'
<1>1. InDispatch(g, q)'
    BY DEF InDispatch, FrameStep
<1> QED
    BY <1>1 DEF HookedInv


LEMMA InitHooked == HookedInit => HookedInv
<1> SUFFICES ASSUME HookedInit PROVE Idle
    BY DEF HookedInv
<1>1. MaxU64 \in Nat /\ MaxNonce \in Nat /\ 0 \in 0..MaxNonce
    BY MailboxAssumption
<1>2. ProtocolOK(protocol) /\ protocol.pending_payment = NoPayment
    <2>1. PICK fee \in 0..MaxProtocolFee, beneficiary \in Accounts, o \in HookOwners :
            protocol = [protocol_fee |-> fee, beneficiary |-> beneficiary, owner |-> o,
                        collected_fees |-> 0, claimable_fees |-> 0,
                        pending_payment |-> NoPayment, balance |-> 0]
        BY DEF HookedInit, PF!Init
    <2>2. fee \in 0..MaxU64
        BY <1>1, HookedAssumption
    <2> QED
        BY <2>1, <2>2 DEF ProtocolOK
<1>3. PaymasterOK(igp) /\ igp.pending_payment = NoPayment /\ igp.gas_payments = <<>>
    BY PaymasterInit DEF HookedInit
<1>4. TreeOK(inserted_message_ids, inserted_roots) /\ inserted_message_ids = <<>>
    BY DEF HookedInit, MT!Init, TreeOK
<1>5. RecordsOK(igp.gas_payments, gas_bought, 0)
    <2>1. gas_bought = {}
        BY DEF HookedInit
    <2>2. IsFiniteSet({}) /\ Cardinality({}) = 0
        BY FS_EmptySet
    <2> QED
        BY <1>3, <2>1, <2>2 DEF RecordsOK
<1>6. /\ stack = <<>> /\ saved = <<>> /\ ~dispatching /\ nonce = 0
      /\ dispatched_messages = <<>> /\ pending_payments = <<>> /\ repriced = FALSE
    BY DEF HookedInit, Init, AH!Init
<1>7. Sound(HookStorage, 0)
    BY <1>2, <1>3, <1>4, <1>5, <1>6, SoundParts
<1> QED
    BY <1>1, <1>2, <1>3, <1>4, <1>6, <1>7 DEF Idle, Quiet, NoFeePending, HookStorage

\* Steps that leave the log, the guard, the calls and the hooks alone.
LEMMA Apart ==
    ASSUME HookedInv, UNCHANGED <<outbound, stack, hooks, saved>>
    PROVE  HookedInv'
<1>1. /\ HookStorage' = HookStorage /\ dispatched_messages' = dispatched_messages
      /\ nonce' = nonce /\ dispatching' = dispatching /\ stack' = stack /\ saved' = saved
      /\ igp' = igp /\ protocol' = protocol /\ repriced' = repriced
      /\ inserted_message_ids' = inserted_message_ids
    BY DEF HookStorage, hooks, outbound
<1>2. CASE Idle
    BY <1>1, <1>2 DEF HookedInv, Idle
<1>3. CASE \E f, q : stack = <<f>> /\ saved = <<q>> /\ InDispatch(f, q)
    <2>1. PICK f, q : stack = <<f>> /\ saved = <<q>> /\ InDispatch(f, q)
        BY <1>3
    <2>2. LogAt(f)' /\ PaymentsAt(f)'
        BY <1>1, <2>1 DEF InDispatch, LogAt, PaymentsAt
    <2>3. InDispatch(f, q)'
        BY <1>1, <2>1, <2>2 DEF InDispatch
    <2> QED
        BY <1>1, <2>1, <2>3 DEF HookedInv
<1> QED
    BY <1>2, <1>3 DEF HookedInv

LEMMA DispatchHooked == HookedInv /\ HookedDispatch => HookedInv'
<1> SUFFICES ASSUME HookedInv, HookedDispatch PROVE HookedInv'
    OBVIOUS
<1>1. PICK caller \in Callers, hook \in {Paymaster, Custom, NoContract} : Dispatch(caller, hook)
    BY DEF HookedDispatch
<1>2. Idle
    BY <1>1 DEF Dispatch, HookedInv, InDispatch
<1>3. caller \in Identities
    BY DEF Callers, Identities
<1>4. PICK f : f = [op |-> "dispatch", pc |-> "quote_required",
                   message |-> [nonce |-> nonce, sender |-> caller],
                   hook |-> Selected(hook),
                   quoted |-> required_hook, required |-> required_hook,
                   required_fee |-> 0, hook_fee |-> 0, saved |-> Current]
    OBVIOUS
<1>5. PICK q : q = HookStorage
    OBVIOUS
<1>6. stack' = <<f>> /\ saved' = <<q>> /\ dispatching'
    BY <1>1, <1>2, <1>4, <1>5 DEF Dispatch, HookedDispatch, Idle
<1>7. HookStorage' = HookStorage /\ UNCHANGED <<nonce, dispatched_messages>>
    BY <1>1, HooksKept DEF HookedDispatch, Dispatch
<1>8. f.saved.nonce = nonce /\ f.saved.dispatched_messages = dispatched_messages
      /\ f.saved.dispatching = dispatching
    BY <1>4 DEF Current
<1>9. /\ nonce \in 0..MaxNonce /\ Quiet(q, dispatched_messages, nonce) /\ ~dispatching
      /\ Sound(HookStorage, nonce)
    BY <1>2, <1>5 DEF Idle, Quiet
<1>10. f.message \in Outbound /\ f.message.nonce = nonce /\ f.pc = "quote_required"
    BY <1>3, <1>4, <1>9 DEF Outbound
<1>11. FrameOK(f)
    <2>1. f = [op |-> f.op, pc |-> f.pc, message |-> f.message, hook |-> f.hook,
               quoted |-> f.quoted, required |-> f.required,
               required_fee |-> f.required_fee, hook_fee |-> f.hook_fee, saved |-> f.saved]
        BY <1>4
    <2> QED
        BY <1>8, <1>9, <1>10, <2>1 DEF FrameOK, DispatchPC
<1>12. LogAt(f)'
    BY <1>2, <1>7, <1>8, <1>9, <1>10 DEF LogAt, Idle, Quiet, HookStorage
<1>13. PaymentsAt(f)'
    BY <1>2, <1>7, <1>10 DEF PaymentsAt, Idle, Quiet, HookStorage
<1>14. InDispatch(f, q)'
    BY <1>6, <1>7, <1>8, <1>9, <1>11, <1>12, <1>13 DEF InDispatch
<1> QED
    BY <1>6, <1>14 DEF HookedInv

LEMMA QuoteRequiredHooked ==
    ASSUME NEW f, NEW q, stack = <<f>>, saved = <<q>>, InDispatch(f, q),
           NEW fee, QuoteRequired(fee), UNCHANGED <<hooks, saved>>,
           ~repriced => fee = protocol.protocol_fee
    PROVE  HookedInv'
<1>1. PICK g : g = [f EXCEPT !.pc = "quote_hook", !.required_fee = fee]
    OBVIOUS
<1>2. f.pc = "quote_required" /\ stack' = <<g>> /\ UNCHANGED outbound
    BY <1>1, OneFrame DEF QuoteRequired, Returned
<1>3. FrameStep(f, g) /\ g.pc = "quote_hook" /\ g.required_fee = fee
    BY <1>1 DEF FrameStep, FrameOK, InDispatch, DispatchPC
<1>4. HookStorage' = HookStorage /\ UNCHANGED <<igp, protocol, repriced, inserted_message_ids>>
    BY HooksKept DEF hooks
<1>5. LogAt(g)'
    BY <1>2, <1>3, <1>4 DEF LogAt, InDispatch, FrameStep, outbound
<1>6. PaymentsAt(g)'
    BY <1>2, <1>3, <1>4 DEF PaymentsAt, InDispatch, FrameStep
<1> QED
    BY <1>2, <1>3, <1>4, <1>5, <1>6, BusyNext DEF InDispatch, outbound

LEMMA QuoteHookHooked ==
    ASSUME NEW f, NEW q, stack = <<f>>, saved = <<q>>, InDispatch(f, q),
           NEW fee, QuoteHook(fee), UNCHANGED <<hooks, saved>>
    PROVE  HookedInv'
<1>1. PICK g : g = [f EXCEPT !.pc = "post_required", !.hook_fee = fee,
                             !.required = required_hook]
    OBVIOUS
<1>2. /\ f.pc = "quote_hook" /\ stack' = <<g>> /\ UNCHANGED dispatching
      /\ nonce < MaxNonce /\ nonce' = nonce + 1
      /\ dispatched_messages' = Append(dispatched_messages, f.message)
    BY <1>1, OneFrame DEF QuoteHook, Returned
<1>3. FrameStep(f, g) /\ g.pc = "post_required" /\ g.required_fee = f.required_fee
    BY <1>1 DEF FrameStep, FrameOK, InDispatch, DispatchPC
<1>4. HookStorage' = HookStorage /\ UNCHANGED <<igp, protocol, repriced, inserted_message_ids>>
    BY HooksKept DEF hooks
<1>5. LogAt(g)'
    <2>1. nonce' \in 0..MaxNonce
        BY <1>2, MailboxAssumption DEF LogAt, InDispatch
    <2> QED
        BY <1>2, <1>3, <1>4, <2>1 DEF LogAt, InDispatch, FrameStep
<1>6. PaymentsAt(g)'
    BY <1>2, <1>3, <1>4 DEF PaymentsAt, InDispatch, FrameStep
<1> QED
    BY <1>2, <1>3, <1>4, <1>5, <1>6, BusyNext DEF InDispatch

LEMMA PostAggregationHooked ==
    ASSUME NEW f, NEW q, stack = <<f>>, saved = <<q>>, InDispatch(f, q), PostAggregation
    PROVE  HookedInv'
<1>1. PICK g : g = [f EXCEPT !.pc = IF f.required_fee = 0 THEN "post_hook" ELSE "pay_required"]
    OBVIOUS
<1>2. /\ f.pc = "post_required" /\ stack' = <<g>> /\ saved' = saved /\ Top = f
      /\ UNCHANGED <<dispatching, nonce, dispatched_messages, igp, repriced, gas_bought>>
    BY <1>1, OneFrame DEF PostAggregation, PostRequired, Returned
<1>3. /\ FrameStep(f, g) /\ g.pc \in {"post_hook", "pay_required"}
      /\ g.pc = "post_hook" => f.required_fee = 0
    BY <1>1 DEF FrameStep, FrameOK, InDispatch, DispatchPC
<1>4. Sound(HookStorage, f.saved.nonce) /\ f.message \in Outbound /\ f.message.sender \in Identities
    BY DEF InDispatch, FrameOK, Outbound
<1>5. /\ PF!PostDispatch(f.message.sender) /\ MT!PostDispatch(f.message)
      /\ AH!PostDispatch(ChildFees)
    BY <1>2 DEF PostAggregation
<1>6. ProtocolOK(protocol') /\ ProtocolOK(protocol)
    BY <1>4, <1>5, SoundParts, ProtocolPosts
<1>7. TreeOK(inserted_message_ids', inserted_roots')
      /\ inserted_message_ids' = Append(inserted_message_ids, f.message)
    BY <1>4, <1>5, SoundParts, TreeGrows
<1>8. Sound(HookStorage', f.saved.nonce)
    BY <1>2, <1>4, <1>6, <1>7, SoundParts, SoundPartsNext
<1>9. LogAt(g)'
    BY <1>2, <1>3, <1>7 DEF LogAt, InDispatch, FrameStep
<1>10. g.pc # "pay_required" => NoFeePending(HookStorage')
    <2> SUFFICES ASSUME g.pc = "post_hook", ~repriced
                 PROVE  protocol'.pending_payment = NoPayment /\ pending_payments' = <<>>
        BY <1>2, <1>3 DEF NoFeePending, HookStorage
    <2>1. protocol.protocol_fee = 0
        BY <1>2, <1>3 DEF InDispatch, PaymentsAt
    <2>2. protocol'.pending_payment = NoPayment
        BY <1>5, <2>1 DEF PF!PostDispatch
    <2>3. pending_payments' = Owed(0)
        BY <1>5, <2>1, PaymentsOwed DEF AH!PostDispatch, PF!Quote
    <2> QED
        BY <2>2, <2>3 DEF Owed
<1>11. PaymentsAt(g)'
    BY <1>2, <1>3, <1>10 DEF PaymentsAt, InDispatch, FrameStep
<1> QED
    BY <1>2, <1>3, <1>8, <1>9, <1>11, BusyNext DEF InDispatch

LEMMA PayAggregationHooked ==
    ASSUME NEW f, NEW q, stack = <<f>>, saved = <<q>>, InDispatch(f, q), PayAggregation
    PROVE  HookedInv'
<1>1. PICK g : g = [f EXCEPT !.pc = "post_hook"]
    OBVIOUS
<1>2. /\ f.pc = "pay_required" /\ stack' = <<g>> /\ saved' = saved
      /\ UNCHANGED <<dispatching, nonce, dispatched_messages, igp, repriced, gas_bought,
                     inserted_message_ids, inserted_roots>>
    BY <1>1, OneFrame DEF PayAggregation, PayRequired, Returned, outbound
<1>3. FrameStep(f, g) /\ g.pc = "post_hook"
    BY <1>1 DEF FrameStep, FrameOK, InDispatch, DispatchPC
<1>4. Sound(HookStorage, f.saved.nonce)
    BY DEF InDispatch
<1>5. \E amount : PF!ReceivePayment(amount)
    BY DEF PayAggregation
<1>6. ProtocolOK(protocol') /\ protocol'.pending_payment = NoPayment
    BY <1>4, <1>5, SoundParts, ProtocolPaid
<1>7. pending_payments' = <<>>
    BY DEF PayAggregation, AH!ReceivePayment
<1>8. Sound(HookStorage', f.saved.nonce)
    BY <1>2, <1>4, <1>6, SoundParts, SoundPartsNext
<1>9. LogAt(g)'
    BY <1>2, <1>3 DEF LogAt, InDispatch, FrameStep
<1>10. PaymentsAt(g)'
    BY <1>2, <1>3, <1>6, <1>7 DEF PaymentsAt, InDispatch, FrameStep, NoFeePending, HookStorage
<1> QED
    BY <1>2, <1>3, <1>8, <1>9, <1>10, BusyNext DEF InDispatch

LEMMA PostHookFrames ==
    ASSUME NEW f, NEW q, stack = <<f>>, saved = <<q>>, InDispatch(f, q), PostHook,
           NEW hook, Calling(hook)
    PROVE  \E g : /\ FrameStep(f, g) /\ g.pc = "pay_hook" /\ f.pc = "post_hook"
                  /\ g.hook = hook /\ stack' = <<g>> /\ Top = f
                  /\ UNCHANGED <<dispatching, nonce, dispatched_messages>>
<1>1. PICK g : g = [f EXCEPT !.pc = "pay_hook"]
    OBVIOUS
<1>2. /\ f.pc = "post_hook" /\ stack' = <<g>> /\ Top = f
      /\ UNCHANGED <<dispatching, nonce, dispatched_messages>>
    BY <1>1, OneFrame DEF PostHook, Returned, outbound
<1>3. FrameStep(f, g) /\ g.pc = "pay_hook"
    BY <1>1 DEF FrameStep, FrameOK, InDispatch, DispatchPC
<1>4. f.hook = hook
    BY <1>2 DEF Calling, Callee
<1> QED
    BY <1>2, <1>3, <1>4 DEF FrameStep

LEMMA PostPaymasterHooked ==
    ASSUME NEW f, NEW q, stack = <<f>>, saved = <<q>>, InDispatch(f, q), PostPaymaster
    PROVE  HookedInv'
<1>1. PICK g : /\ FrameStep(f, g) /\ g.pc = "pay_hook" /\ f.pc = "post_hook"
               /\ g.hook = Paymaster /\ stack' = <<g>> /\ Top = f
               /\ UNCHANGED <<dispatching, nonce, dispatched_messages>>
    BY PostHookFrames DEF PostPaymaster
<1>2. saved' = saved /\ UNCHANGED <<protocol, pending_payments, inserted_message_ids,
                                    inserted_roots, gas_bought, repriced>>
    BY DEF PostPaymaster
<1>3. Sound(HookStorage, f.saved.nonce) /\ f.message \in Outbound
    BY DEF InDispatch, FrameOK
<1>4. Destination[f.message] \in Domains /\ GasLimit[f.message] \in GasLimits
    BY <1>3, HookedAssumption
<1>5. IGP!PostDispatch(f.message, Destination[f.message], GasLimit[f.message])
    BY <1>1 DEF PostPaymaster
<1>6. /\ PaymasterOK(igp') /\ igp'.pending_payment # NoPayment
      /\ igp'.pending_payment.message = f.message
      /\ igp'.gas_payments = igp.gas_payments
    BY <1>3, <1>4, <1>5, SoundParts, PaymasterPosts
<1>7. Sound(HookStorage', f.saved.nonce)
    BY <1>2, <1>3, <1>6, SoundParts, SoundPartsNext
<1>8. LogAt(g)'
    BY <1>1, <1>2 DEF LogAt, InDispatch, FrameStep
<1>9. PaymentsAt(g)'
    BY <1>1, <1>2, <1>6 DEF PaymentsAt, InDispatch, FrameStep, NoFeePending, HookStorage
<1> QED
    BY <1>1, <1>2, <1>7, <1>8, <1>9, BusyNext DEF InDispatch

LEMMA PostCustomHooked ==
    ASSUME NEW f, NEW q, stack = <<f>>, saved = <<q>>, InDispatch(f, q), PostCustom
    PROVE  HookedInv'
<1>1. PICK g : /\ FrameStep(f, g) /\ g.pc = "pay_hook" /\ f.pc = "post_hook"
               /\ g.hook = Custom /\ stack' = <<g>> /\ Top = f
               /\ UNCHANGED <<dispatching, nonce, dispatched_messages>>
    BY PostHookFrames DEF PostCustom
<1>2. HookStorage' = HookStorage /\ saved' = saved
      /\ UNCHANGED <<igp, protocol, repriced, inserted_message_ids>>
    BY HooksKept DEF PostCustom, hooks
<1>3. LogAt(g)'
    BY <1>1, <1>2 DEF LogAt, InDispatch, FrameStep
<1>4. PaymentsAt(g)'
    BY <1>1, <1>2, HookedAssumption DEF PaymentsAt, InDispatch, FrameStep
<1> QED
    BY <1>1, <1>2, <1>3, <1>4, BusyNext DEF InDispatch

\* What a finished dispatch leaves.
LEMMA FinishHooked ==
    ASSUME NEW f, NEW q, stack = <<f>>, saved = <<q>>, InDispatch(f, q), FinishDispatch,
           NEW hook, Calling(hook)
    PROVE  /\ f.pc \in {"post_hook", "pay_hook"} /\ f.hook = hook /\ Top = f
           /\ stack' = <<>> /\ ~dispatching' /\ f.saved.nonce \in Nat
           /\ nonce' = f.saved.nonce + 1 /\ nonce' \in 0..MaxNonce
           /\ dispatched_messages' = inserted_message_ids
<1>1. f.pc \in {"post_hook", "pay_hook"} /\ Top = f /\ stack' = <<>> /\ ~dispatching'
      /\ UNCHANGED <<nonce, dispatched_messages>>
    BY OneFrame DEF FinishDispatch, Returned
<1>2. f.hook = hook
    BY <1>1 DEF Calling, Callee
<1>3. f.saved.nonce \in Nat
    BY DEF InDispatch, Quiet
<1> QED
    BY <1>1, <1>2, <1>3 DEF InDispatch, LogAt

LEMMA PayPaymasterHooked ==
    ASSUME NEW f, NEW q, stack = <<f>>, saved = <<q>>, InDispatch(f, q), PayPaymaster
    PROVE  HookedInv'
<1> DEFINE n == f.saved.nonce
<1>1. /\ f.hook = Paymaster /\ Top = f /\ stack' = <<>> /\ ~dispatching' /\ n \in Nat
      /\ nonce' = n + 1 /\ nonce' \in 0..MaxNonce
      /\ dispatched_messages' = inserted_message_ids
    BY FinishHooked DEF PayPaymaster
<1>2. f.pc = "pay_hook"
    BY <1>1 DEF PayPaymaster, Returned
<1>3. /\ saved' = <<>> /\ gas_bought' = gas_bought \cup {f.message}
      /\ UNCHANGED <<protocol, pending_payments, inserted_message_ids, inserted_roots, repriced>>
    BY <1>1, OneFrame DEF PayPaymaster
<1>4. Sound(HookStorage, n) /\ f.message.nonce = n
    BY DEF InDispatch, FrameOK
<1>5. igp.pending_payment # NoPayment /\ igp.pending_payment.message = f.message
    BY <1>1, <1>2 DEF InDispatch, PaymentsAt
<1>6. PaymasterOK(igp') /\ igp'.pending_payment = NoPayment
      /\ igp'.gas_payments = Append(igp.gas_payments, igp.pending_payment)
    BY <1>4, SoundParts, PaymasterPaid DEF PayPaymaster
<1>7. igp.pending_payment \in GasPayment /\ igp.gas_payments \in Seq(GasPayment)
      /\ RecordsOK(igp.gas_payments, gas_bought, n)
    BY <1>4, <1>5, SoundParts DEF PaymasterOK
<1>8. RecordsOK(igp'.gas_payments, gas_bought', n + 1)
    BY <1>1, <1>3, <1>4, <1>5, <1>6, <1>7, RecordsGrow
<1>9. Sound(HookStorage', nonce')
    <2>1. Sound(HookStorage', n + 1)
        BY <1>3, <1>4, <1>6, <1>8, SoundParts, SoundPartsNext
    <2> QED
        BY <1>1, <2>1
<1>10. NoFeePending(HookStorage')
    BY <1>2, <1>3 DEF InDispatch, PaymentsAt, NoFeePending, HookStorage
<1>11. Quiet(HookStorage', dispatched_messages', nonce')
    BY <1>1, <1>3, <1>6, <1>9, <1>10 DEF Quiet, HookStorage
<1> QED
    BY <1>1, <1>3, <1>11 DEF HookedInv, Idle

LEMMA FinishCustomHooked ==
    ASSUME NEW f, NEW q, stack = <<f>>, saved = <<q>>, InDispatch(f, q), FinishCustom
    PROVE  HookedInv'
<1> DEFINE n == f.saved.nonce
<1>1. /\ f.pc \in {"post_hook", "pay_hook"}
      /\ f.hook = Custom /\ stack' = <<>> /\ ~dispatching' /\ n \in Nat
      /\ nonce' = n + 1 /\ nonce' \in 0..MaxNonce
      /\ dispatched_messages' = inserted_message_ids
    BY FinishHooked DEF FinishCustom
<1>2. saved' = <<>> /\ HookStorage' = HookStorage
      /\ UNCHANGED <<igp, inserted_message_ids>>
    BY OneFrame, HooksKept DEF FinishCustom, hooks
<1>3. Sound(HookStorage', nonce')
    <2>1. Sound(HookStorage, n)
        BY DEF InDispatch
    <2>2. Sound(HookStorage, n + 1)
        BY <1>1, <2>1, SoundLater
    <2> QED
        BY <1>1, <1>2, <2>2
<1>4. igp.pending_payment = NoPayment /\ NoFeePending(HookStorage)
    BY <1>1, HookedAssumption DEF InDispatch, PaymentsAt
<1>5. Quiet(HookStorage', dispatched_messages', nonce')
    BY <1>1, <1>2, <1>3, <1>4 DEF Quiet, HookStorage
<1> QED
    BY <1>1, <1>2, <1>5 DEF HookedInv, Idle

LEMMA AbortHooked ==
    ASSUME NEW f, NEW q, stack = <<f>>, saved = <<q>>, InDispatch(f, q), HookedAbort
    PROVE  HookedInv'
<1>1. /\ stack' = <<>> /\ saved' = <<>>
      /\ nonce' = f.saved.nonce /\ dispatching' = f.saved.dispatching
      /\ dispatched_messages' = f.saved.dispatched_messages
    BY OneFrame DEF HookedAbort, Abort, RestoreOutbound
<1>2. /\ protocol' = q.protocol /\ igp' = q.igp /\ pending_payments' = q.pending_payments
      /\ inserted_message_ids' = q.inserted_message_ids
      /\ inserted_roots' = q.inserted_roots /\ gas_bought' = q.gas_bought
      /\ repriced' = q.repriced
    BY OneFrame DEF HookedAbort
<1>3. Quiet(q, f.saved.dispatched_messages, f.saved.nonce) /\ ~f.saved.dispatching
    BY DEF InDispatch, FrameOK
<1>4. Quiet(HookStorage', dispatched_messages', nonce')
    BY <1>1, <1>2, <1>3 DEF Quiet, Sound, NoFeePending, HookStorage
<1> QED
    BY <1>1, <1>3, <1>4 DEF HookedInv, Idle

\* What an owner changes leaves what the hooks hold and wait for as it is.
LEMMA OwnersSound ==
    ASSUME NEW n, Sound(HookStorage, n), HookAdmin
    PROVE  /\ Sound(HookStorage', n)
           /\ protocol'.pending_payment = protocol.pending_payment
           /\ igp'.pending_payment = igp.pending_payment
<1>1. PICK caller \in Callers :
          \/ PF!Admin(caller) /\ UNCHANGED igp
          \/ IGP!Admin(caller) /\ UNCHANGED protocol
    BY DEF HookAdmin
<1>2. UNCHANGED <<inserted_message_ids, inserted_roots, gas_bought>> /\ repriced' \in BOOLEAN
    BY SoundParts DEF HookAdmin
<1>3. /\ ProtocolOK(protocol') /\ protocol'.pending_payment = protocol.pending_payment
      /\ PaymasterOK(igp') /\ igp'.pending_payment = igp.pending_payment
      /\ igp'.gas_payments = igp.gas_payments
    <2>1. CASE PF!Admin(caller) /\ UNCHANGED igp
        BY <2>1, SoundParts, ProtocolAdministered
    <2>2. CASE IGP!Admin(caller) /\ UNCHANGED protocol
        BY <2>2, SoundParts, PaymasterAdministered
    <2> QED
        BY <1>1, <2>1, <2>2
<1> QED
    BY <1>2, <1>3, SoundParts, SoundPartsNext

LEMMA HookAdminHooked == HookedInv /\ HookAdmin => HookedInv'
<1> SUFFICES ASSUME HookedInv, HookAdmin PROVE HookedInv'
    OBVIOUS
<1>1. /\ UNCHANGED <<stack, nonce, dispatching, dispatched_messages, pending_payments,
                     inserted_message_ids, saved>>
      /\ repriced' = (repriced \/ stack # <<>>)
    BY DEF HookAdmin, vars, outbound
<1>2. CASE Idle
    <2>1. Sound(HookStorage, nonce)
        BY <1>2 DEF Idle, Quiet
    <2>2. /\ Sound(HookStorage', nonce)
          /\ protocol'.pending_payment = protocol.pending_payment
          /\ igp'.pending_payment = igp.pending_payment
        <3>1. PICK n : n = nonce
            OBVIOUS
        <3>2. Sound(HookStorage, n)
            BY <2>1, <3>1
        <3>3. /\ Sound(HookStorage', n)
              /\ protocol'.pending_payment = protocol.pending_payment
              /\ igp'.pending_payment = igp.pending_payment
            BY <3>2, OwnersSound
        <3> QED
            BY <3>1, <3>3
    <2>3. Quiet(HookStorage', dispatched_messages', nonce')
        BY <1>1, <1>2, <2>2 DEF Idle, Quiet, NoFeePending, HookStorage
    <2> QED
        BY <1>1, <1>2, <2>3 DEF HookedInv, Idle
<1>3. CASE \E f, q : stack = <<f>> /\ saved = <<q>> /\ InDispatch(f, q)
    <2>1. PICK f, q : stack = <<f>> /\ saved = <<q>> /\ InDispatch(f, q)
        BY <1>3
    <2>2. Sound(HookStorage, f.saved.nonce)
        BY <2>1 DEF InDispatch
    <2>3. Sound(HookStorage', f.saved.nonce) /\ igp'.pending_payment = igp.pending_payment
        BY <2>2, OwnersSound
    <2>4. repriced'
        BY <1>1, <2>1
    <2>5. LogAt(f)'
        BY <1>1, <2>1 DEF InDispatch, LogAt
    <2>6. PaymentsAt(f)'
        BY <2>1, <2>3, <2>4 DEF InDispatch, PaymentsAt, NoFeePending, HookStorage
    <2>7. InDispatch(f, q)'
        BY <1>1, <2>1, <2>3, <2>5, <2>6 DEF InDispatch
    <2> QED
        BY <1>1, <2>1, <2>7 DEF HookedInv
<1> QED
    BY <1>2, <1>3 DEF HookedInv

LEMMA HookClaimHooked == HookedInv /\ HookClaim => HookedInv'
<1> SUFFICES ASSUME HookedInv, HookClaim PROVE HookedInv'
    OBVIOUS
<1>1. Idle
    BY DEF HookClaim, HookedInv
<1>2. UNCHANGED <<stack, nonce, dispatching, dispatched_messages, pending_payments,
                  inserted_message_ids, inserted_roots, gas_bought, repriced, saved>>
    BY DEF HookClaim, vars, outbound
<1>3. Sound(HookStorage, nonce)
    BY <1>1 DEF Idle, Quiet
<1>4. /\ ProtocolOK(protocol') /\ protocol'.pending_payment = protocol.pending_payment
      /\ PaymasterOK(igp') /\ igp'.pending_payment = igp.pending_payment
      /\ igp'.gas_payments = igp.gas_payments
    <2>1. PICK caller \in Accounts :
              \/ PF!Claim(caller) /\ UNCHANGED igp
              \/ IGP!Claim(caller) /\ UNCHANGED protocol
        BY DEF HookClaim
    <2>2. CASE PF!Claim(caller) /\ UNCHANGED igp
        BY <1>3, <2>2, SoundParts, ProtocolClaimed
    <2>3. CASE IGP!Claim(caller) /\ UNCHANGED protocol
        BY <1>3, <2>3, SoundParts, PaymasterClaimed
    <2> QED
        BY <2>1, <2>2, <2>3
<1>5. Sound(HookStorage', nonce)
    BY <1>2, <1>3, <1>4, SoundParts, SoundPartsNext
<1>6. Quiet(HookStorage', dispatched_messages', nonce')
    BY <1>1, <1>2, <1>4, <1>5 DEF Idle, Quiet, NoFeePending, HookStorage
<1> QED
    BY <1>1, <1>2, <1>6 DEF HookedInv, Idle

LEMMA HookedStep == HookedInv /\ [HookedNext]_hvars => HookedInv'
<1> SUFFICES ASSUME HookedInv, [HookedNext]_hvars PROVE HookedInv'
    OBVIOUS
<1>1. CASE HookedDeploy
    BY <1>1, Apart DEF HookedDeploy, Initialize
<1>2. CASE HookedFeeCredit
    BY <1>2, Apart DEF HookedFeeCredit, FeeCredit, FundDispatch, WithdrawDispatchCredit
<1>3. CASE HookedDispatch
    BY <1>3, DispatchHooked
<1>4. CASE HookAdmin
    BY <1>4, HookAdminHooked
<1>5. CASE HookClaim
    BY <1>5, HookClaimHooked
<1>6. CASE UNCHANGED hvars
    BY <1>6, Apart DEF hvars, vars
<1>7. CASE \/ QuoteAggregation \/ QuotePaymaster \/ QuoteCustom \/ PostAggregation
           \/ PayAggregation \/ PostPaymaster \/ PayPaymaster \/ PostCustom
           \/ FinishCustom \/ HookedAbort
    <2>1. stack # <<>>
        BY <1>7 DEF QuoteAggregation, QuoteRequired, QuotePaymaster, QuoteCustom, PostAggregation,
                    PostRequired, PayAggregation, PayRequired, PostPaymaster, PayPaymaster,
                    PostCustom, FinishCustom, HookedAbort, Abort, Calling, Returned
    <2>2. PICK f, q : stack = <<f>> /\ saved = <<q>> /\ InDispatch(f, q)
        BY <2>1 DEF HookedInv, Idle
    <2>3. CASE QuoteAggregation
        <3>1. PICK fee \in 0..MaxU64 : AH!Quotes(ChildFees, fee) /\ QuoteRequired(fee)
            BY <2>3 DEF QuoteAggregation
        <3>2. PF!Quote \in Nat
            BY <2>2, SoundParts DEF InDispatch, ProtocolOK, PF!Quote
        <3>3. fee = protocol.protocol_fee
            BY <3>1, <3>2, PaymentsOwed, TotalOwed DEF AH!Quotes, PF!Quote
        <3> QED
            BY <2>2, <2>3, <3>1, <3>3, QuoteRequiredHooked DEF QuoteAggregation
    <2>4. CASE QuotePaymaster
        BY <2>2, <2>4, QuoteHookHooked DEF QuotePaymaster
    <2>5. CASE QuoteCustom
        BY <2>2, <2>5, QuoteHookHooked DEF QuoteCustom
    <2>6. CASE PostAggregation
        BY <2>2, <2>6, PostAggregationHooked
    <2>7. CASE PayAggregation
        BY <2>2, <2>7, PayAggregationHooked
    <2>8. CASE PostPaymaster
        BY <2>2, <2>8, PostPaymasterHooked
    <2>9. CASE PayPaymaster
        BY <2>2, <2>9, PayPaymasterHooked
    <2>10. CASE PostCustom
        BY <2>2, <2>10, PostCustomHooked
    <2>11. CASE FinishCustom
        BY <2>2, <2>11, FinishCustomHooked
    <2>12. CASE HookedAbort
        BY <2>2, <2>12, AbortHooked
    <2> QED
        BY <1>7, <2>3, <2>4, <2>5, <2>6, <2>7, <2>8, <2>9, <2>10, <2>11, <2>12
<1> QED
    BY <1>1, <1>2, <1>3, <1>4, <1>5, <1>6, <1>7 DEF HookedNext

\* The invariant holds for all fees, prices, gas limits, hooks and callers.
THEOREM HookedCorrect == HookedSpec => []HookedInv
BY InitHooked, HookedStep, PTL DEF HookedSpec

\* Between transactions no hook waits for a payment, unless an owner changed a
\* price in the middle of a dispatch.
THEOREM NothingPendingCorrect == HookedSpec => []NothingPending
<1>1. HookedInv => NothingPending
    BY DEF HookedInv, Idle, Quiet, NoFeePending, HookStorage, NothingPending
<1> QED
    BY <1>1, HookedCorrect, PTL

\* Each fee hook can pay its beneficiary in full at any time.
THEOREM FeesBackedCorrect == HookedSpec => []FeesBacked
<1>1. HookedInv => FeesBacked
    <2> SUFFICES ASSUME HookedInv PROVE FeesBacked
        OBVIOUS
    <2>1. \E n : Sound(HookStorage, n)
        BY DEF HookedInv, Idle, InDispatch, Quiet
    <2>2. ProtocolOK(protocol) /\ PaymasterOK(igp)
        BY <2>1, SoundParts
    <2>3. PF!Backed
        BY <2>2 DEF ProtocolOK, PF!Backed
    <2>4. IGP!Backed
        BY <2>2 DEF PaymasterOK, IGP!Backed
    <2> QED
        BY <2>3, <2>4 DEF FeesBacked
<1> QED
    BY <1>1, HookedCorrect, PTL

\* The tree validators sign is the Mailbox's log, root by root.
THEOREM CheckpointsCorrect == HookedSpec => []CheckpointsMirrorLog
<1>1. HookedInv => CheckpointsMirrorLog
    <2> SUFFICES ASSUME HookedInv PROVE CheckpointsMirrorLog
        OBVIOUS
    <2> DEFINE ids == inserted_message_ids
    <2>1. TreeOK(ids, inserted_roots)
        <3>1. \E n : Sound(HookStorage, n)
            BY DEF HookedInv, Idle, InDispatch, Quiet
        <3> QED
            BY <3>1, SoundParts
    <2>2. /\ \/ dispatched_messages = ids
             \/ \E m : dispatched_messages = Append(ids, m)
          /\ stack = <<>> => dispatched_messages = ids
        <3>1. CASE Idle
            BY <3>1 DEF Idle, Quiet, HookStorage
        <3>2. CASE \E f, q : stack = <<f>> /\ saved = <<q>> /\ InDispatch(f, q)
            <4>1. PICK f, q : stack = <<f>> /\ saved = <<q>> /\ InDispatch(f, q)
                BY <3>2
            <4>2. stack # <<>>
                BY <4>1
            <4>3. dispatched_messages = ids \/ dispatched_messages = Append(ids, f.message)
                BY <4>1 DEF InDispatch, LogAt
            <4> QED
                BY <4>2, <4>3
        <3> QED
            BY <3>1, <3>2 DEF HookedInv
    <2>3. ids \in Seq(Outbound) /\ DOMAIN inserted_roots = 1..Len(ids)
          /\ Len(inserted_roots) = Len(ids)
        BY <2>1 DEF TreeOK
    <2>4. ASSUME NEW i \in 1..Len(ids)
          PROVE  inserted_roots[i] = SubSeq(dispatched_messages, 1, i)
        <3>1. inserted_roots[i] = SubSeq(ids, 1, i)
            BY <2>1 DEF TreeOK
        <3>2. ASSUME NEW m PROVE SubSeq(Append(ids, m), 1, i) = SubSeq(ids, 1, i)
            <4>1. Append(ids, m) \in Seq(Outbound \cup {m}) /\ ids \in Seq(Outbound \cup {m})
                BY <2>3
            <4>2. \A j \in 1..i : Append(ids, m)[j] = ids[j]
                BY <2>3
            <4> QED
                BY <2>3, <4>1, <4>2
        <3> QED
            BY <2>2, <3>1, <3>2
    <2> QED
        BY <2>2, <2>3, <2>4 DEF CheckpointsMirrorLog
<1> QED
    BY <1>1, HookedCorrect, PTL

\* One payment record for each message dispatched with the paymaster.
THEOREM GasRecordsCorrect == HookedSpec => []GasRecordsMatch
<1>1. HookedInv => GasRecordsMatch
    <2> SUFFICES ASSUME HookedInv PROVE GasRecordsMatch
        OBVIOUS
    <2>1. \E n : Sound(HookStorage, n)
        BY DEF HookedInv, Idle, InDispatch, Quiet
    <2> QED
        BY <2>1, SoundParts DEF RecordsOK, GasRecordsMatch
<1> QED
    BY <1>1, HookedCorrect, PTL
-----------------------------------------------------------------------------
(* The deployed hooks are hooks: what Mailbox shows of hooks that may answer *)
(* anything holds of them.                                                   *)

AnyHooks == INSTANCE Mailbox WITH Fees <- 0..MaxU64

LEMMA SameMailbox ==
    /\ AnyHooks!Init <=> Init
    /\ \A o, i, h, r : Initialize(o, i, h, r) <=> AnyHooks!Initialize(o, i, h, r)
    /\ FeeCredit <=> AnyHooks!FeeCredit
    /\ \A caller, hook : Dispatch(caller, hook) <=> AnyHooks!Dispatch(caller, hook)
    /\ \A fee : QuoteRequired(fee) <=> AnyHooks!QuoteRequired(fee)
    /\ \A fee : QuoteHook(fee) <=> AnyHooks!QuoteHook(fee)
    /\ PostRequired <=> AnyHooks!PostRequired
    /\ PayRequired <=> AnyHooks!PayRequired
    /\ PostHook <=> AnyHooks!PostHook
    /\ FinishDispatch <=> AnyHooks!FinishDispatch
    /\ Abort <=> AnyHooks!Abort
    /\ UNCHANGED vars <=> UNCHANGED AnyHooks!vars
<1> USE DEF config, AnyHooks!config, outbound, AnyHooks!outbound, inbound, AnyHooks!inbound,
            value, AnyHooks!value, Top, AnyHooks!Top, Pop, AnyHooks!Pop,
            Returned, AnyHooks!Returned, Continue, AnyHooks!Continue,
            MayEnter, AnyHooks!MayEnter, Identities, AnyHooks!Identities
<1>1. AnyHooks!Init <=> Init
    BY DEF Init, AnyHooks!Init
<1>2. \A o, i, h, r : Initialize(o, i, h, r) <=> AnyHooks!Initialize(o, i, h, r)
    BY DEF Initialize, AnyHooks!Initialize
<1>3. FeeCredit <=> AnyHooks!FeeCredit
    <2>1. \A p, a : FundDispatch(p, a) <=> AnyHooks!FundDispatch(p, a)
        BY DEF FundDispatch, AnyHooks!FundDispatch
    <2>2. \A p, a : WithdrawDispatchCredit(p, a) <=> AnyHooks!WithdrawDispatchCredit(p, a)
        BY DEF WithdrawDispatchCredit, AnyHooks!WithdrawDispatchCredit
    <2>3. Callers = AnyHooks!Callers
        BY DEF Callers, AnyHooks!Callers
    <2> QED
        BY <2>1, <2>2, <2>3 DEF FeeCredit, AnyHooks!FeeCredit
<1>4. \A caller, hook : Dispatch(caller, hook) <=> AnyHooks!Dispatch(caller, hook)
    <2>1. Current = AnyHooks!Current
        BY DEF Current, AnyHooks!Current
    <2>2. \A hook : Selected(hook) = AnyHooks!Selected(hook)
        BY DEF Selected, AnyHooks!Selected
    <2> QED
        BY <2>1, <2>2 DEF Dispatch, AnyHooks!Dispatch
<1>5. \A fee : QuoteRequired(fee) <=> AnyHooks!QuoteRequired(fee)
    BY DEF QuoteRequired, AnyHooks!QuoteRequired
<1>6. \A fee : QuoteHook(fee) <=> AnyHooks!QuoteHook(fee)
    BY DEF QuoteHook, AnyHooks!QuoteHook
<1>7. PostRequired <=> AnyHooks!PostRequired
    BY DEF PostRequired, AnyHooks!PostRequired
<1>8. PayRequired <=> AnyHooks!PayRequired
    BY DEF PayRequired, AnyHooks!PayRequired
<1>9. PostHook <=> AnyHooks!PostHook
    BY DEF PostHook, AnyHooks!PostHook
<1>10. FinishDispatch <=> AnyHooks!FinishDispatch
    BY DEF FinishDispatch, AnyHooks!FinishDispatch
<1>11. Abort <=> AnyHooks!Abort
    BY DEF Abort, AnyHooks!Abort, RestoreConfig, AnyHooks!RestoreConfig,
           RestoreOutbound, AnyHooks!RestoreOutbound, RestoreInbound, AnyHooks!RestoreInbound,
           RestoreValue, AnyHooks!RestoreValue
<1>12. UNCHANGED vars <=> UNCHANGED AnyHooks!vars
    BY DEF vars, AnyHooks!vars
<1> QED
    BY <1>1, <1>2, <1>3, <1>4, <1>5, <1>6, <1>7, <1>8, <1>9, <1>10, <1>11, <1>12

LEMMA HookedSimulates == HookedInv /\ [HookedNext]_hvars => [AnyHooks!Next]_(AnyHooks!vars)
<1> SUFFICES ASSUME HookedInv, [HookedNext]_hvars
             PROVE  AnyHooks!Next \/ UNCHANGED vars
    BY SameMailbox
<1>1. CASE HookedDeploy
    <2>1. \E o \in Owners, i \in Isms, h, r \in Hooks : Initialize(o, i, h, r)
        BY <1>1, HookedAssumption DEF HookedDeploy
    <2> QED
        BY <2>1, SameMailbox DEF AnyHooks!Deploy, AnyHooks!Next
<1>2. CASE HookedFeeCredit
    BY <1>2, SameMailbox DEF HookedFeeCredit, AnyHooks!Next
<1>3. CASE HookedDispatch
    <2>1. \E caller \in Callers, hook \in Hooks \cup {NoContract} : Dispatch(caller, hook)
        BY <1>3, HookedAssumption DEF HookedDispatch
    <2>2. Callers = AnyHooks!Callers
        BY DEF Callers, AnyHooks!Callers, Identities, AnyHooks!Identities
    <2> QED
        BY <2>1, <2>2, SameMailbox DEF AnyHooks!DispatchStep, AnyHooks!Next
<1>4. ASSUME NEW fee \in 0..MaxU64, QuoteRequired(fee) \/ QuoteHook(fee)
      PROVE  AnyHooks!Next
    BY <1>4, SameMailbox DEF AnyHooks!DispatchStep, AnyHooks!Next
<1>5. CASE QuoteAggregation
    BY <1>4, <1>5 DEF QuoteAggregation
<1>6. CASE QuotePaymaster
    <2>1. PICK f, q : stack = <<f>> /\ saved = <<q>> /\ InDispatch(f, q)
        BY <1>6 DEF QuotePaymaster, Calling, HookedInv, Idle
    <2>2. f.message \in Outbound /\ PaymasterOK(igp) /\ Top = f
        BY <2>1, OneFrame, SoundParts DEF InDispatch, FrameOK
    <2>3. Destination[f.message] \in Domains
        BY <2>2, HookedAssumption
    <2> DEFINE fee == IGP!QuoteGasPayment(Destination[f.message], GasLimit[f.message])
    <2>4. IGP!CanQuote(Destination[f.message], GasLimit[f.message]) /\ QuoteHook(fee)
        BY <1>6, <2>2 DEF QuotePaymaster
    <2>5. fee \in 0..MaxU64
        BY <2>2, <2>3, <2>4, PaymentFits
    <2> HIDE DEF fee
    <2> QED
        BY <1>4, <2>4, <2>5
<1>7. CASE QuoteCustom
    BY <1>4, <1>7, MailboxAssumption DEF QuoteCustom
<1>8. CASE PostAggregation
    BY <1>8, SameMailbox DEF PostAggregation, AnyHooks!DispatchStep, AnyHooks!Next
<1>9. CASE PayAggregation
    BY <1>9, SameMailbox DEF PayAggregation, AnyHooks!DispatchStep, AnyHooks!Next
<1>10. CASE PostPaymaster \/ PostCustom
    BY <1>10, SameMailbox DEF PostPaymaster, PostCustom, AnyHooks!DispatchStep, AnyHooks!Next
<1>11. CASE PayPaymaster \/ FinishCustom
    BY <1>11, SameMailbox DEF PayPaymaster, FinishCustom, AnyHooks!DispatchStep, AnyHooks!Next
<1>12. CASE HookedAbort
    BY <1>12, SameMailbox DEF HookedAbort, AnyHooks!Next
<1>13. CASE HookAdmin \/ HookClaim \/ UNCHANGED hvars
    BY <1>13 DEF HookAdmin, HookClaim, hvars
<1> QED
    BY <1>1, <1>2, <1>3, <1>5, <1>6, <1>7, <1>8, <1>9, <1>10, <1>11, <1>12, <1>13 DEF HookedNext

\* The Mailbox with the hooks dusk-tx deploys is a Mailbox with hooks that may
\* answer any fee.
THEOREM HookedRefines == HookedSpec => AnyHooks!Spec
<1>1. HookedInit => AnyHooks!Init
    BY SameMailbox DEF HookedInit
<1> QED
    BY <1>1, HookedSimulates, HookedCorrect, PTL DEF HookedSpec, AnyHooks!Spec

-----------------------------------------------------------------------------
(* Prices.  They grow with the gas limit, so the two ends that               *)
(* validate_domain_gas_config looks at bound all of them.                    *)

LEMMA TimesMonotone ==
    ASSUME NEW a \in Nat, NEW b \in Nat, NEW k \in Nat, a <= b
    PROVE  a * k \in Nat /\ b * k \in Nat /\ a * k <= b * k
<1>1. PICK d \in Nat : b = a + d
    BY b - a \in Nat
<1>2. b * k = a * k + d * k
    BY <1>1
<1>3. a * k \in Nat /\ d * k \in Nat
    OBVIOUS
<1>4. QED
    BY <1>2, <1>3

LEMMA DivMonotone ==
    ASSUME NEW a \in Nat, NEW b \in Nat, NEW s \in Nat \ {0}, a <= b
    PROVE  a \div s \in Nat /\ b \div s \in Nat /\ a \div s <= b \div s
OBVIOUS

LEMMA PricesMonotone ==
    ASSUME NEW c \in IGP!DomainGasConfig, NEW g \in Nat, NEW h \in Nat, g <= h
    PROVE  /\ IGP!GasPrice(c, g) \in Nat /\ IGP!GasPrice(c, g) <= IGP!GasPrice(c, h)
           /\ IGP!Cost(c, g) \in Nat /\ IGP!Cost(c, g) <= IGP!Cost(c, h)
           /\ IGP!Payment(c, g) \in Nat /\ IGP!Payment(c, g) <= IGP!Payment(c, h)
           /\ IGP!Payment(c, h) \in Nat
<1>1. c.gas_overhead \in Nat /\ c.token_exchange_rate \in Nat /\ c.gas_price \in Nat
    BY MailboxAssumption DEF IGP!DomainGasConfig
<1>2. g + c.gas_overhead \in Nat /\ h + c.gas_overhead \in Nat
      /\ g + c.gas_overhead <= h + c.gas_overhead
    BY <1>1
<1>3. IGP!GasPrice(c, g) \in Nat /\ IGP!GasPrice(c, h) \in Nat
      /\ IGP!GasPrice(c, g) <= IGP!GasPrice(c, h)
    BY <1>1, <1>2, TimesMonotone DEF IGP!GasPrice
<1>4. IGP!Cost(c, g) \in Nat /\ IGP!Cost(c, h) \in Nat /\ IGP!Cost(c, g) <= IGP!Cost(c, h)
    BY <1>1, <1>3, TimesMonotone DEF IGP!Cost
<1>5. IGP!Payment(c, g) \in Nat /\ IGP!Payment(c, h) \in Nat
      /\ IGP!Payment(c, g) <= IGP!Payment(c, h)
    BY <1>4, DivMonotone, PricesAssumption DEF IGP!PaymasterAssumption, IGP!GasPricesAssumption, IGP!Payment
<1>6. QED
    BY <1>3, <1>4, <1>5

\* "Prove that every valid input from 1 through MAX_GAS_LIMIT is executable when
\* the config is accepted" (validate_domain_gas_config).
THEOREM ValidConfigQuotable ==
    ASSUME NEW c \in IGP!DomainGasConfig, IGP!ValidConfig(c), NEW gas_limit \in 1..MaxGasLimit
    PROVE  IGP!Quotable(c, gas_limit)
<1>1. 1 \in Nat /\ gas_limit \in Nat /\ MaxGasLimit \in Nat /\ 1 <= gas_limit
      /\ gas_limit <= MaxGasLimit
    BY PricesAssumption DEF IGP!PaymasterAssumption, IGP!GasPricesAssumption
<1>2. /\ IGP!GasPrice(c, gas_limit) \in Nat
      /\ IGP!GasPrice(c, gas_limit) <= IGP!GasPrice(c, MaxGasLimit)
      /\ IGP!Cost(c, gas_limit) \in Nat
      /\ IGP!Cost(c, gas_limit) <= IGP!Cost(c, MaxGasLimit)
      /\ IGP!Payment(c, gas_limit) \in Nat
      /\ IGP!Payment(c, gas_limit) <= IGP!Payment(c, MaxGasLimit)
      /\ IGP!Payment(c, MaxGasLimit) \in Nat
    BY <1>1, PricesMonotone
<1>3. IGP!GasPrice(c, MaxGasLimit) \in Nat /\ IGP!Cost(c, MaxGasLimit) \in Nat
    BY <1>1, PricesMonotone
<1>4. IGP!Payment(c, 1) \in Nat /\ IGP!Payment(c, 1) <= IGP!Payment(c, gas_limit)
    BY <1>1, PricesMonotone
<1>5. MaxU64 \in Nat /\ MaxU128 \in Nat
    BY MailboxAssumption, PricesAssumption DEF IGP!PaymasterAssumption, IGP!GasPricesAssumption
<1>6. IGP!Computable(c, gas_limit)
    BY <1>2, <1>3, <1>5 DEF IGP!ValidConfig, IGP!Computable
<1>7. IGP!Payment(c, gas_limit) <= MaxU64
    BY <1>2, <1>5 DEF IGP!ValidConfig
<1>8. IGP!Payment(c, gas_limit) > 0
    BY <1>2, <1>4 DEF IGP!ValidConfig
<1>9. QED
    BY <1>6, <1>7, <1>8 DEF IGP!Quotable

LEMMA PaymasterPrices == PaymasterOK(igp) => EveryLimitQuotable
<1> SUFFICES ASSUME PaymasterOK(igp), NEW d \in Domains,
                    igp.domain_gas_configs[d] # NoConfig,
                    NEW gas_limit \in 1..MaxGasLimit
             PROVE  IGP!CanQuote(d, gas_limit)
    BY DEF EveryLimitQuotable, IGP!EveryLimitQuotable
<1> DEFINE c == igp.domain_gas_configs[d]
<1>1. c \in IGP!DomainGasConfig /\ IGP!ValidConfig(c)
    BY DEF PaymasterOK, Accepted
<1> QED
    BY <1>1, ValidConfigQuotable DEF IGP!CanQuote

\* The paymaster, called by anybody in any order, never stores a configuration
\* under which some supported gas limit has no price, and can always pay its
\* beneficiary: for all integer widths, scales and configurations.
THEOREM PricesCorrect == IGP!Spec => [](EveryLimitQuotable /\ IGP!Backed)
<1>1. IGP!Init => PaymasterOK(igp)
    BY PaymasterInit
<1>2. PaymasterOK(igp) /\ [IGP!Next]_igp => PaymasterOK(igp)'
    <2> SUFFICES ASSUME PaymasterOK(igp), [IGP!Next]_igp PROVE PaymasterOK(igp')
        OBVIOUS
    <2>1. CASE \E m \in Outbound, d \in Domains, g \in GasLimits : IGP!PostDispatch(m, d, g)
        BY <2>1, PaymasterPosts
    <2>2. CASE \E amount \in 1..MaxU64 : IGP!ReceivePayment(amount)
        BY <2>2, PaymasterPaid
    <2>3. CASE \E caller \in HookOwners : IGP!Claim(caller) \/ IGP!Admin(caller)
        BY <2>3, PaymasterClaimed, PaymasterAdministered
    <2>4. CASE UNCHANGED igp
        BY <2>4
    <2> QED
        BY <2>1, <2>2, <2>3, <2>4 DEF IGP!Next
<1>3. PaymasterOK(igp) => EveryLimitQuotable /\ IGP!Backed
    BY PaymasterPrices DEF PaymasterOK, IGP!Backed
<1> QED
    BY <1>1, <1>2, <1>3, PTL DEF IGP!Spec

\* So too beside the Mailbox, whatever the rest of a dispatch does and however a
\* failure puts the paymaster's storage back.
THEOREM HookedPricesCorrect == HookedSpec => []EveryLimitQuotable
<1>1. HookedInv => EveryLimitQuotable
    <2> SUFFICES ASSUME HookedInv PROVE EveryLimitQuotable
        OBVIOUS
    <2>1. \E n : Sound(HookStorage, n)
        BY DEF HookedInv, Idle, InDispatch, Quiet
    <2>2. PaymasterOK(igp)
        BY <2>1, SoundParts
    <2> QED
        BY <2>2, PaymasterPrices
<1> QED
    BY <1>1, HookedCorrect, PTL

-----------------------------------------------------------------------------
(* Recursion over the levels.                                               *)

\* Induction over the levels, from the leaves to the root
LEMMA LevelByLevel ==
    ASSUME NEW S, 0 \in S, \A i \in 0..(TreeDepth - 1) : i \in S => i + 1 \in S
    PROVE  \A i \in 0..TreeDepth : i \in S
<1> SUFFICES ASSUME NEW k \in 0..TreeDepth, k \notin S PROVE FALSE
    OBVIOUS
<1> DEFINE Missing == {i \in 0..TreeDepth : i \notin S}
<1>1. Missing \subseteq Nat /\ Missing # {}
    BY MerkleAssumption
<1>2. IsWellFoundedOn(OpToRel(<, Nat), Nat)
    BY NatLessThanWellFounded
<1>3. PICK n \in Missing : \A m \in Missing : <<m, n>> \notin OpToRel(<, Nat)
    BY <1>1, <1>2, WFMin
<1>4. n \in 0..TreeDepth /\ n \notin S /\ n # 0
    OBVIOUS
<1>5. n - 1 \in 0..(TreeDepth - 1) /\ n - 1 \in 0..TreeDepth /\ (n - 1) + 1 = n
      /\ n - 1 \in Nat /\ n \in Nat /\ n - 1 < n
    BY <1>4, MerkleAssumption
<1>6. <<n - 1, n>> \in OpToRel(<, Nat)
    BY <1>5 DEF OpToRel
<1>7. n - 1 \in S
    BY <1>3, <1>5, <1>6
<1> QED
    BY <1>4, <1>5, <1>7

\* Numbers of neighbouring levels
LEMMA LevelFacts ==
    /\ TreeDepth \in Nat /\ 0 \in 0..TreeDepth /\ TreeDepth \in 0..TreeDepth
    /\ \A i \in 0..(TreeDepth - 1) :
          /\ i \in Nat /\ i \in 0..TreeDepth /\ i + 1 \in 0..TreeDepth
          /\ i + 1 # 0 /\ (i + 1) - 1 = i
          /\ TreeDepth - i \in 0..TreeDepth /\ TreeDepth - (i + 1) \in 0..(TreeDepth - 1)
          /\ TreeDepth - i = (TreeDepth - (i + 1)) + 1
    /\ TreeDepth - TreeDepth = 0 /\ TreeDepth - 0 = TreeDepth
BY MerkleAssumption

LEMMA PlacesExist ==
    \E g : g = [i \in 0..TreeDepth |-> IF i = 0 THEN 1 ELSE 2 * g[i - 1]]
<1> DEFINE Upto(n) == \E g : g = [i \in 0..n |-> IF i = 0 THEN 1 ELSE 2 * g[i - 1]]
           S == {n \in 0..TreeDepth : Upto(n)}
<1>1. Upto(0)
    <2>1. PICK g : g = [i \in 0..0 |-> 1]
        OBVIOUS
    <2>2. g = [i \in 0..0 |-> IF i = 0 THEN 1 ELSE 2 * g[i - 1]]
        BY <2>1
    <2> QED
        BY <2>2
<1>2. ASSUME NEW n \in 0..(TreeDepth - 1), Upto(n) PROVE Upto(n + 1)
    <2>1. PICK g : g = [i \in 0..n |-> IF i = 0 THEN 1 ELSE 2 * g[i - 1]]
        BY <1>2
    <2>2. PICK f : f = [i \in 0..(n + 1) |-> IF i = n + 1 THEN 2 * g[n] ELSE g[i]]
        OBVIOUS
    <2>3. n \in Nat
        BY LevelFacts
    <2>4. \A i \in 0..(n + 1) : f[i] = IF i = 0 THEN 1 ELSE 2 * f[i - 1]
        BY <2>1, <2>2, <2>3
    <2>5. f = [i \in 0..(n + 1) |-> IF i = 0 THEN 1 ELSE 2 * f[i - 1]]
        BY <2>2, <2>4
    <2> QED
        BY <2>5
<1> HIDE DEF Upto
<1>3. \A i \in 0..TreeDepth : i \in S
    BY <1>1, <1>2, LevelFacts, LevelByLevel
<1>4. Upto(TreeDepth)
    BY <1>3, LevelFacts
<1> QED
    BY <1>4 DEF Upto

LEMMA PlacesFacts ==
    /\ Tree!Places[0] = 1
    /\ \A i \in 0..(TreeDepth - 1) : Tree!Places[i + 1] = 2 * Tree!Places[i]
    /\ \A i \in 0..TreeDepth : Tree!Places[i] \in Nat \ {0}
<1>1. Tree!Places = [i \in 0..TreeDepth |-> IF i = 0 THEN 1 ELSE 2 * Tree!Places[i - 1]]
    BY PlacesExist DEF Tree!Places
<1> HIDE DEF Tree!Places
<1>2. Tree!Places[0] = 1 /\ \A i \in 0..(TreeDepth - 1) : Tree!Places[i + 1] = 2 * Tree!Places[i]
    <2>1. Tree!Places[0] = 1
        BY <1>1, LevelFacts
    <2>2. ASSUME NEW i \in 0..(TreeDepth - 1) PROVE Tree!Places[i + 1] = 2 * Tree!Places[i]
        <3>1. Tree!Places[i + 1] = 2 * Tree!Places[(i + 1) - 1]
            BY <1>1, LevelFacts
        <3> QED
            BY <3>1, LevelFacts
    <2> QED
        BY <2>1, <2>2
<1> DEFINE S == {i \in 0..TreeDepth : Tree!Places[i] \in Nat \ {0}}
<1>3. 0 \in S
    BY <1>2, LevelFacts
<1>4. ASSUME NEW i \in 0..(TreeDepth - 1), i \in S PROVE i + 1 \in S
    BY <1>2, <1>4, LevelFacts
<1>5. \A i \in 0..TreeDepth : i \in S
    BY <1>3, <1>4, LevelByLevel
<1> QED
    BY <1>2, <1>5

LEMMA ZerosExist ==
    \E g : g = [i \in 0..TreeDepth |-> IF i = 0 THEN Tree!Zero ELSE Tree!hash_pair(g[i - 1], g[i - 1])]
<1> DEFINE Upto(n) == \E g : g = [i \in 0..n |-> IF i = 0 THEN Tree!Zero ELSE Tree!hash_pair(g[i - 1], g[i - 1])]
           S == {n \in 0..TreeDepth : Upto(n)}
<1>1. Upto(0)
    <2>1. PICK g : g = [i \in 0..0 |-> Tree!Zero]
        OBVIOUS
    <2>2. g = [i \in 0..0 |-> IF i = 0 THEN Tree!Zero ELSE Tree!hash_pair(g[i - 1], g[i - 1])]
        BY <2>1
    <2> QED
        BY <2>2
<1>2. ASSUME NEW n \in 0..(TreeDepth - 1), Upto(n) PROVE Upto(n + 1)
    <2>1. PICK g : g = [i \in 0..n |-> IF i = 0 THEN Tree!Zero ELSE Tree!hash_pair(g[i - 1], g[i - 1])]
        BY <1>2
    <2>2. PICK f : f = [i \in 0..(n + 1) |-> IF i = n + 1 THEN Tree!hash_pair(g[n], g[n]) ELSE g[i]]
        OBVIOUS
    <2>3. n \in Nat
        BY LevelFacts
    <2>4. \A i \in 0..(n + 1) : f[i] = IF i = 0 THEN Tree!Zero ELSE Tree!hash_pair(f[i - 1], f[i - 1])
        BY <2>1, <2>2, <2>3
    <2>5. f = [i \in 0..(n + 1) |-> IF i = 0 THEN Tree!Zero ELSE Tree!hash_pair(f[i - 1], f[i - 1])]
        BY <2>2, <2>4
    <2> QED
        BY <2>5
<1> HIDE DEF Upto
<1>3. \A i \in 0..TreeDepth : i \in S
    BY <1>1, <1>2, LevelFacts, LevelByLevel
<1>4. Upto(TreeDepth)
    BY <1>3, LevelFacts
<1> QED
    BY <1>4 DEF Upto

LEMMA HalvesExist ==
    ASSUME NEW size
    PROVE  \E g : g = [i \in 0..TreeDepth |-> IF i = 0 THEN size ELSE g[i - 1] \div 2]
<1> DEFINE Upto(n) == \E g : g = [i \in 0..n |-> IF i = 0 THEN size ELSE g[i - 1] \div 2]
           S == {n \in 0..TreeDepth : Upto(n)}
<1>1. Upto(0)
    <2>1. PICK g : g = [i \in 0..0 |-> size]
        OBVIOUS
    <2>2. g = [i \in 0..0 |-> IF i = 0 THEN size ELSE g[i - 1] \div 2]
        BY <2>1
    <2> QED
        BY <2>2
<1>2. ASSUME NEW n \in 0..(TreeDepth - 1), Upto(n) PROVE Upto(n + 1)
    <2>1. PICK g : g = [i \in 0..n |-> IF i = 0 THEN size ELSE g[i - 1] \div 2]
        BY <1>2
    <2>2. PICK f : f = [i \in 0..(n + 1) |-> IF i = n + 1 THEN g[n] \div 2 ELSE g[i]]
        OBVIOUS
    <2>3. n \in Nat
        BY LevelFacts
    <2>4. \A i \in 0..(n + 1) : f[i] = IF i = 0 THEN size ELSE f[i - 1] \div 2
        BY <2>1, <2>2, <2>3
    <2>5. f = [i \in 0..(n + 1) |-> IF i = 0 THEN size ELSE f[i - 1] \div 2]
        BY <2>2, <2>4
    <2> QED
        BY <2>5
<1> HIDE DEF Upto
<1>3. \A i \in 0..TreeDepth : i \in S
    BY <1>1, <1>2, LevelFacts, LevelByLevel
<1>4. Upto(TreeDepth)
    BY <1>3, LevelFacts
<1> QED
    BY <1>4 DEF Upto

IsCarry(b, element, g) ==
    g = [i \in 0..TreeDepth |-> IF i = 0 THEN Tree!Leaf(element) ELSE Tree!hash_pair(b[i - 1], g[i - 1])]

LEMMA CarriedExist ==
    ASSUME NEW element, NEW b
    PROVE  \E g : IsCarry(b, element, g)
<1> DEFINE Upto(n) == \E g : g = [i \in 0..n |-> IF i = 0 THEN Tree!Leaf(element) ELSE Tree!hash_pair(b[i - 1], g[i - 1])]
           S == {n \in 0..TreeDepth : Upto(n)}
<1>1. Upto(0)
    <2>1. PICK g : g = [i \in 0..0 |-> Tree!Leaf(element)]
        OBVIOUS
    <2>2. g = [i \in 0..0 |-> IF i = 0 THEN Tree!Leaf(element) ELSE Tree!hash_pair(b[i - 1], g[i - 1])]
        BY <2>1
    <2> QED
        BY <2>2
<1>2. ASSUME NEW n \in 0..(TreeDepth - 1), Upto(n) PROVE Upto(n + 1)
    <2>1. PICK g : g = [i \in 0..n |-> IF i = 0 THEN Tree!Leaf(element) ELSE Tree!hash_pair(b[i - 1], g[i - 1])]
        BY <1>2
    <2>2. PICK f : f = [i \in 0..(n + 1) |-> IF i = n + 1 THEN Tree!hash_pair(b[n], g[n]) ELSE g[i]]
        OBVIOUS
    <2>3. n \in Nat
        BY LevelFacts
    <2>4. \A i \in 0..(n + 1) : f[i] = IF i = 0 THEN Tree!Leaf(element) ELSE Tree!hash_pair(b[i - 1], f[i - 1])
        BY <2>1, <2>2, <2>3
    <2>5. f = [i \in 0..(n + 1) |-> IF i = 0 THEN Tree!Leaf(element) ELSE Tree!hash_pair(b[i - 1], f[i - 1])]
        BY <2>2, <2>4
    <2> QED
        BY <2>5
<1> HIDE DEF Upto
<1>3. \A i \in 0..TreeDepth : i \in S
    BY <1>1, <1>2, LevelFacts, LevelByLevel
<1>4. Upto(TreeDepth)
    BY <1>3, LevelFacts
<1> QED
    BY <1>4 DEF Upto, IsCarry

IsPath(b, size, g) ==
    g = [i \in 0..TreeDepth |-> IF i = 0 THEN Tree!Zero ELSE (IF Tree!OddAt(size, i - 1) THEN Tree!hash_pair(b[i - 1], g[i - 1]) ELSE Tree!hash_pair(g[i - 1], Tree!ZERO_HASHES[i - 1]))]

LEMMA PathExists ==
    ASSUME NEW b, NEW size
    PROVE  \E g : IsPath(b, size, g)
<1> DEFINE Upto(n) == \E g : g = [i \in 0..n |-> IF i = 0 THEN Tree!Zero ELSE (IF Tree!OddAt(size, i - 1) THEN Tree!hash_pair(b[i - 1], g[i - 1]) ELSE Tree!hash_pair(g[i - 1], Tree!ZERO_HASHES[i - 1]))]
           S == {n \in 0..TreeDepth : Upto(n)}
<1>1. Upto(0)
    <2>1. PICK g : g = [i \in 0..0 |-> Tree!Zero]
        OBVIOUS
    <2>2. g = [i \in 0..0 |-> IF i = 0 THEN Tree!Zero ELSE (IF Tree!OddAt(size, i - 1) THEN Tree!hash_pair(b[i - 1], g[i - 1]) ELSE Tree!hash_pair(g[i - 1], Tree!ZERO_HASHES[i - 1]))]
        BY <2>1
    <2> QED
        BY <2>2
<1>2. ASSUME NEW n \in 0..(TreeDepth - 1), Upto(n) PROVE Upto(n + 1)
    <2>1. PICK g : g = [i \in 0..n |-> IF i = 0 THEN Tree!Zero ELSE (IF Tree!OddAt(size, i - 1) THEN Tree!hash_pair(b[i - 1], g[i - 1]) ELSE Tree!hash_pair(g[i - 1], Tree!ZERO_HASHES[i - 1]))]
        BY <1>2
    <2>2. PICK f : f = [i \in 0..(n + 1) |-> IF i = n + 1 THEN (IF Tree!OddAt(size, n) THEN Tree!hash_pair(b[n], g[n]) ELSE Tree!hash_pair(g[n], Tree!ZERO_HASHES[n])) ELSE g[i]]
        OBVIOUS
    <2>3. n \in Nat
        BY LevelFacts
    <2>4. \A i \in 0..(n + 1) : f[i] = IF i = 0 THEN Tree!Zero ELSE (IF Tree!OddAt(size, i - 1) THEN Tree!hash_pair(b[i - 1], f[i - 1]) ELSE Tree!hash_pair(f[i - 1], Tree!ZERO_HASHES[i - 1]))
        BY <2>1, <2>2, <2>3
    <2>5. f = [i \in 0..(n + 1) |-> IF i = 0 THEN Tree!Zero ELSE (IF Tree!OddAt(size, i - 1) THEN Tree!hash_pair(b[i - 1], f[i - 1]) ELSE Tree!hash_pair(f[i - 1], Tree!ZERO_HASHES[i - 1]))]
        BY <2>2, <2>4
    <2> QED
        BY <2>5
<1> HIDE DEF Upto
<1>3. \A i \in 0..TreeDepth : i \in S
    BY <1>1, <1>2, LevelFacts, LevelByLevel
<1>4. Upto(TreeDepth)
    BY <1>3, LevelFacts
<1> QED
    BY <1>4 DEF Upto, IsPath

\* The nodes above a row of nodes
Parents(row, i) ==
    [place \in 0..(Tree!Places[TreeDepth - i] - 1) |-> Tree!hash_pair(row[2 * place], row[2 * place + 1])]

LEMMA TableExists ==
    ASSUME NEW row
    PROVE  \E g : g = [i \in 0..TreeDepth |-> IF i = 0 THEN row ELSE Parents(g[i - 1], i)]
<1> DEFINE Upto(n) == \E g : g = [i \in 0..n |-> IF i = 0 THEN row ELSE Parents(g[i - 1], i)]
           S == {n \in 0..TreeDepth : Upto(n)}
<1>1. Upto(0)
    <2>1. PICK g : g = [i \in 0..0 |-> row]
        OBVIOUS
    <2>2. g = [i \in 0..0 |-> IF i = 0 THEN row ELSE Parents(g[i - 1], i)]
        BY <2>1
    <2> QED
        BY <2>2
<1>2. ASSUME NEW n \in 0..(TreeDepth - 1), Upto(n) PROVE Upto(n + 1)
    <2>1. PICK g : g = [i \in 0..n |-> IF i = 0 THEN row ELSE Parents(g[i - 1], i)]
        BY <1>2
    <2>2. PICK f : f = [i \in 0..(n + 1) |-> IF i = n + 1 THEN Parents(g[n], n + 1) ELSE g[i]]
        OBVIOUS
    <2>3. n \in Nat
        BY LevelFacts
    <2>4. \A i \in 0..(n + 1) : f[i] = IF i = 0 THEN row ELSE Parents(f[i - 1], i)
        BY <2>1, <2>2, <2>3
    <2>5. f = [i \in 0..(n + 1) |-> IF i = 0 THEN row ELSE Parents(f[i - 1], i)]
        BY <2>2, <2>4
    <2> QED
        BY <2>5
<1> HIDE DEF Upto
<1>3. \A i \in 0..TreeDepth : i \in S
    BY <1>1, <1>2, LevelFacts, LevelByLevel
<1>4. Upto(TreeDepth)
    BY <1>3, LevelFacts
<1> QED
    BY <1>4 DEF Upto

-----------------------------------------------------------------------------
(* What the recursive definitions compute, level by level.                  *)

LEMMA ZeroHashesFacts ==
    /\ Tree!ZERO_HASHES[0] = Tree!Zero
    /\ \A i \in 0..(TreeDepth - 1) :
          Tree!ZERO_HASHES[i + 1] = Tree!hash_pair(Tree!ZERO_HASHES[i], Tree!ZERO_HASHES[i])
<1>1. Tree!ZERO_HASHES = [i \in 0..TreeDepth |->
                        IF i = 0 THEN Tree!Zero ELSE Tree!hash_pair(Tree!ZERO_HASHES[i - 1], Tree!ZERO_HASHES[i - 1])]
    BY ZerosExist DEF Tree!ZERO_HASHES
<1> HIDE DEF Tree!ZERO_HASHES
<1>2. Tree!ZERO_HASHES[0] = Tree!Zero
    BY <1>1, LevelFacts
<1>3. ASSUME NEW i \in 0..(TreeDepth - 1)
      PROVE  Tree!ZERO_HASHES[i + 1] = Tree!hash_pair(Tree!ZERO_HASHES[i], Tree!ZERO_HASHES[i])
    <2>1. Tree!ZERO_HASHES[i + 1] = Tree!hash_pair(Tree!ZERO_HASHES[(i + 1) - 1], Tree!ZERO_HASHES[(i + 1) - 1])
        BY <1>1, LevelFacts
    <2> QED
        BY <2>1, LevelFacts
<1> QED
    BY <1>2, <1>3

LEMMA HalvedFacts ==
    ASSUME NEW size \in Nat
    PROVE  /\ Tree!Halved(size)[0] = size
           /\ \A i \in 0..(TreeDepth - 1) : Tree!Halved(size)[i + 1] = Tree!Halved(size)[i] \div 2
           /\ \A i \in 0..TreeDepth : Tree!Halved(size)[i] \in Nat
<1> DEFINE h == Tree!Halved(size)
<1>1. h = [i \in 0..TreeDepth |-> IF i = 0 THEN size ELSE h[i - 1] \div 2]
    BY HalvesExist DEF Tree!Halved
<1> HIDE DEF h
<1>2. h[0] = size /\ \A i \in 0..(TreeDepth - 1) : h[i + 1] = h[i] \div 2
    <2>1. h[0] = size
        BY <1>1, LevelFacts
    <2>2. ASSUME NEW i \in 0..(TreeDepth - 1) PROVE h[i + 1] = h[i] \div 2
        <3>1. h[i + 1] = h[(i + 1) - 1] \div 2
            BY <1>1, LevelFacts
        <3> QED
            BY <3>1, LevelFacts
    <2> QED
        BY <2>1, <2>2
<1> DEFINE S == {i \in 0..TreeDepth : h[i] \in Nat}
<1>3. 0 \in S
    BY <1>2, LevelFacts
<1>4. ASSUME NEW i \in 0..(TreeDepth - 1), i \in S PROVE i + 1 \in S
    BY <1>2, <1>4, LevelFacts
<1>5. \A i \in 0..TreeDepth : i \in S
    BY <1>3, <1>4, LevelByLevel
<1> QED
    BY <1>2, <1>5 DEF h

LEMMA CarriedFacts ==
    ASSUME NEW element
    PROVE  /\ Tree!Carried(element)[0] = Tree!Leaf(element)
           /\ \A i \in 0..(TreeDepth - 1) :
                 Tree!Carried(element)[i + 1] = Tree!hash_pair(branch[i], Tree!Carried(element)[i])
<1> DEFINE c == Tree!Carried(element)
<1>1. c = [i \in 0..TreeDepth |-> IF i = 0 THEN Tree!Leaf(element) ELSE Tree!hash_pair(branch[i - 1], c[i - 1])]
    <2>1. PICK b : b = branch
        OBVIOUS
    <2>2. \E g : IsCarry(b, element, g)
        BY CarriedExist
    <2> QED
        BY <2>1, <2>2 DEF Tree!Carried, IsCarry
<1> HIDE DEF c
<1>2. c[0] = Tree!Leaf(element)
    BY <1>1, LevelFacts
<1>3. ASSUME NEW i \in 0..(TreeDepth - 1) PROVE c[i + 1] = Tree!hash_pair(branch[i], c[i])
    <2>1. c[i + 1] = Tree!hash_pair(branch[(i + 1) - 1], c[(i + 1) - 1])
        BY <1>1, LevelFacts
    <2> QED
        BY <2>1, LevelFacts
<1> QED
    BY <1>2, <1>3 DEF c

\* The nodes on the path from the first free place to the root
LEMMA RootFacts ==
    \E node :
        /\ Tree!Root = node[TreeDepth]
        /\ node[0] = Tree!Zero
        /\ \A i \in 0..(TreeDepth - 1) :
              node[i + 1] = IF Tree!OddAt(count, i) THEN Tree!hash_pair(branch[i], node[i])
                                               ELSE Tree!hash_pair(node[i], Tree!ZERO_HASHES[i])
<1> DEFINE Path(node) ==
               node = [i \in 0..TreeDepth |->
                          IF i = 0 THEN Tree!Zero
                          ELSE IF Tree!OddAt(count, i - 1)
                               THEN Tree!hash_pair(branch[i - 1], node[i - 1])
                               ELSE Tree!hash_pair(node[i - 1], Tree!ZERO_HASHES[i - 1])]
<1>1. \E node : Path(node)
    <2>1. PICK b : b = branch
        OBVIOUS
    <2>2. PICK size : size = count
        OBVIOUS
    <2>3. \E node : IsPath(b, size, node)
        BY PathExists
    <2> QED
        BY <2>1, <2>2, <2>3 DEF IsPath
<1>2. Tree!Root = (CHOOSE node : Path(node))[TreeDepth]
    BY DEF Tree!Root
<1>3. PICK node : Path(node) /\ Tree!Root = node[TreeDepth]
    BY <1>1, <1>2
<1>4. node[0] = Tree!Zero
    BY <1>3, LevelFacts
<1>5. ASSUME NEW i \in 0..(TreeDepth - 1)
      PROVE  node[i + 1] = IF Tree!OddAt(count, i) THEN Tree!hash_pair(branch[i], node[i])
                                              ELSE Tree!hash_pair(node[i], Tree!ZERO_HASHES[i])
    <2>1. node[i + 1] = IF Tree!OddAt(count, (i + 1) - 1)
                        THEN Tree!hash_pair(branch[(i + 1) - 1], node[(i + 1) - 1])
                        ELSE Tree!hash_pair(node[(i + 1) - 1], Tree!ZERO_HASHES[(i + 1) - 1])
        BY <1>3, LevelFacts
    <2> QED
        BY <2>1, LevelFacts
<1> QED
    BY <1>3, <1>4, <1>5

-----------------------------------------------------------------------------
(* The reference tree over a sequence of leaves.                            *)

Bottom(s) ==
    [place \in 0..(Tree!Places[TreeDepth] - 1) |->
        IF place < Len(s) THEN Tree!Leaf(s[place + 1]) ELSE Tree!Zero]

IsTable(s, t) ==
    t = [i \in 0..TreeDepth |-> IF i = 0 THEN Bottom(s) ELSE Parents(t[i - 1], i)]

LEMMA NodesAreTable == IsTable(leaves, Tree!Nodes)
<1>1. Tree!Padded = Bottom(leaves)
    BY DEF Tree!Padded, Bottom
<1>2. PICK row : row = Tree!Padded
    OBVIOUS
<1>3. \E t : t = [i \in 0..TreeDepth |-> IF i = 0 THEN row ELSE Parents(t[i - 1], i)]
    BY TableExists
<1>4. Tree!Nodes = CHOOSE t : t = [i \in 0..TreeDepth |-> IF i = 0 THEN Tree!Padded ELSE Parents(t[i - 1], i)]
    BY DEF Tree!Nodes, Parents
<1>5. Tree!Nodes = [i \in 0..TreeDepth |-> IF i = 0 THEN Tree!Padded ELSE Parents(Tree!Nodes[i - 1], i)]
    BY <1>2, <1>3, <1>4
<1> QED
    BY <1>1, <1>5 DEF IsTable

LEMMA TableFacts ==
    ASSUME NEW s, NEW t, IsTable(s, t)
    PROVE  /\ \A p \in 0..(Tree!Places[TreeDepth] - 1) :
                 t[0][p] = IF p < Len(s) THEN Tree!Leaf(s[p + 1]) ELSE Tree!Zero
           /\ \A i \in 0..(TreeDepth - 1) : \A p \in 0..(Tree!Places[TreeDepth - (i + 1)] - 1) :
                 t[i + 1][p] = Tree!hash_pair(t[i][2 * p], t[i][2 * p + 1])
<1>1. t[0] = Bottom(s)
    BY LevelFacts DEF IsTable
<1>2. ASSUME NEW i \in 0..(TreeDepth - 1) PROVE t[i + 1] = Parents(t[i], i + 1)
    <2>1. t[i + 1] = Parents(t[(i + 1) - 1], i + 1)
        BY LevelFacts DEF IsTable
    <2> QED
        BY <2>1, LevelFacts
<1> QED
    BY <1>1, <1>2 DEF Bottom, Parents

\* The first free place has a node above it on every level.
LEMMA HalvedInTree ==
    ASSUME NEW size \in 0..(Tree!Places[TreeDepth] - 1)
    PROVE  /\ size \in Nat
           /\ \A i \in 0..TreeDepth :
                 Tree!Halved(size)[i] \in Nat /\ Tree!Halved(size)[i] \in 0..(Tree!Places[TreeDepth - i] - 1)
<1> DEFINE h == Tree!Halved(size)
           S == {i \in 0..TreeDepth : h[i] < Tree!Places[TreeDepth - i]}
<1>1. Tree!Places[TreeDepth] \in Nat /\ size \in Nat /\ size < Tree!Places[TreeDepth]
    BY PlacesFacts, LevelFacts
<1>2. /\ h[0] = size
      /\ \A i \in 0..(TreeDepth - 1) : h[i + 1] = h[i] \div 2
      /\ \A i \in 0..TreeDepth : h[i] \in Nat
    BY <1>1, HalvedFacts
<1> HIDE DEF h
<1>3. 0 \in S
    BY <1>1, <1>2, LevelFacts
<1>4. ASSUME NEW i \in 0..(TreeDepth - 1), i \in S PROVE i + 1 \in S
    <2>1. /\ i + 1 \in 0..TreeDepth /\ TreeDepth - i = (TreeDepth - (i + 1)) + 1
          /\ TreeDepth - (i + 1) \in 0..(TreeDepth - 1) /\ i \in 0..TreeDepth
          /\ TreeDepth - (i + 1) \in 0..TreeDepth
        BY LevelFacts
    <2>2. Tree!Places[TreeDepth - i] = 2 * Tree!Places[TreeDepth - (i + 1)]
        BY <2>1, PlacesFacts
    <2>3. Tree!Places[TreeDepth - (i + 1)] \in Nat
        BY <2>1, PlacesFacts
    <2>4. h[i] < Tree!Places[TreeDepth - i] /\ h[i] \in Nat
        BY <1>2, <1>4, <2>1
    <2>5. \A n, q \in Nat : n < 2 * q => n \div 2 < q
        OBVIOUS
    <2> QED
        BY <1>2, <2>1, <2>2, <2>3, <2>4, <2>5
<1>5. \A i \in 0..TreeDepth : i \in S
    BY <1>3, <1>4, LevelByLevel
<1>6. \A i \in 0..TreeDepth : h[i] \in 0..(Tree!Places[TreeDepth - i] - 1)
    <2> SUFFICES ASSUME NEW i \in 0..TreeDepth PROVE h[i] \in 0..(Tree!Places[TreeDepth - i] - 1)
        OBVIOUS
    <2>1. TreeDepth - i \in 0..TreeDepth
        BY LevelFacts
    <2>2. Tree!Places[TreeDepth - i] \in Nat /\ h[i] \in Nat /\ h[i] < Tree!Places[TreeDepth - i]
        BY <1>2, <1>5, <2>1, PlacesFacts
    <2> QED
        BY <2>2
<1> QED
    BY <1>1, <1>2, <1>6 DEF h

\* The children of a node are places of the level below.
LEMMA ChildPlaces ==
    ASSUME NEW i \in 0..(TreeDepth - 1), NEW p \in 0..(Tree!Places[TreeDepth - (i + 1)] - 1)
    PROVE  /\ p \in Nat
           /\ 2 * p \in 0..(Tree!Places[TreeDepth - i] - 1)
           /\ 2 * p + 1 \in 0..(Tree!Places[TreeDepth - i] - 1)
<1>1. /\ TreeDepth - i = (TreeDepth - (i + 1)) + 1
      /\ TreeDepth - (i + 1) \in 0..(TreeDepth - 1)
      /\ TreeDepth - (i + 1) \in 0..TreeDepth
    BY LevelFacts
<1>2. Tree!Places[TreeDepth - i] = 2 * Tree!Places[TreeDepth - (i + 1)]
      /\ Tree!Places[TreeDepth - (i + 1)] \in Nat
    BY <1>1, PlacesFacts
<1> QED
    BY <1>2

\* Nothing has been inserted to the right of the first free place.
LEMMA EmptyNodes ==
    ASSUME NEW s, Len(s) \in 0..(Tree!Places[TreeDepth] - 1), NEW t, IsTable(s, t)
    PROVE  \A i \in 0..TreeDepth : \A p \in 0..(Tree!Places[TreeDepth - i] - 1) :
               p > Tree!Halved(Len(s))[i] => t[i][p] = Tree!ZERO_HASHES[i]
<1> DEFINE h == Tree!Halved(Len(s))
           S == {i \in 0..TreeDepth : \A p \in 0..(Tree!Places[TreeDepth - i] - 1) :
                                          p > h[i] => t[i][p] = Tree!ZERO_HASHES[i]}
<1>1. /\ Len(s) \in Nat /\ h[0] = Len(s)
      /\ \A i \in 0..(TreeDepth - 1) : h[i + 1] = h[i] \div 2
      /\ \A i \in 0..TreeDepth : h[i] \in Nat
    BY HalvedInTree, HalvedFacts
<1> HIDE DEF h
<1>2. 0 \in S
    <2> SUFFICES ASSUME NEW p \in 0..(Tree!Places[TreeDepth] - 1), p > h[0]
                 PROVE  t[0][p] = Tree!ZERO_HASHES[0]
        BY LevelFacts
    <2>1. Tree!Places[TreeDepth] \in Nat
        BY PlacesFacts, LevelFacts
    <2>2. ~(p < Len(s))
        BY <1>1, <2>1
    <2> QED
        BY <2>2, TableFacts, ZeroHashesFacts
<1>3. ASSUME NEW i \in 0..(TreeDepth - 1), i \in S PROVE i + 1 \in S
    <2> SUFFICES ASSUME NEW p \in 0..(Tree!Places[TreeDepth - (i + 1)] - 1), p > h[i + 1]
                 PROVE  t[i + 1][p] = Tree!ZERO_HASHES[i + 1]
        BY LevelFacts
    <2>1. /\ p \in Nat
          /\ 2 * p \in 0..(Tree!Places[TreeDepth - i] - 1)
          /\ 2 * p + 1 \in 0..(Tree!Places[TreeDepth - i] - 1)
        BY ChildPlaces
    <2>2. h[i] \in Nat /\ h[i + 1] = h[i] \div 2
        BY <1>1, LevelFacts
    <2>3. 2 * p > h[i] /\ 2 * p + 1 > h[i]
        BY <2>1, <2>2
    <2>4. t[i][2 * p] = Tree!ZERO_HASHES[i] /\ t[i][2 * p + 1] = Tree!ZERO_HASHES[i]
        BY <1>3, <2>1, <2>3
    <2>5. t[i + 1][p] = Tree!hash_pair(t[i][2 * p], t[i][2 * p + 1])
        BY TableFacts
    <2> QED
        BY <2>4, <2>5, ZeroHashesFacts
<1>4. \A i \in 0..TreeDepth : i \in S
    BY <1>2, <1>3, LevelByLevel
<1> QED
    BY <1>4 DEF h

\* A full subtree stays as it is when a leaf is added.
LEMMA FullNodes ==
    ASSUME NEW X, NEW s \in Seq(X), NEW e \in X, Len(s) \in 0..(Tree!Places[TreeDepth] - 1),
           NEW t, IsTable(s, t), NEW t2, IsTable(Append(s, e), t2)
    PROVE  \A i \in 0..TreeDepth : \A p \in 0..(Tree!Places[TreeDepth - i] - 1) :
               p < Tree!Halved(Len(s))[i] => t2[i][p] = t[i][p]
<1> DEFINE h == Tree!Halved(Len(s))
           S == {i \in 0..TreeDepth : \A p \in 0..(Tree!Places[TreeDepth - i] - 1) :
                                          p < h[i] => t2[i][p] = t[i][p]}
<1>1. /\ Len(s) \in Nat /\ h[0] = Len(s)
      /\ \A i \in 0..(TreeDepth - 1) : h[i + 1] = h[i] \div 2
      /\ \A i \in 0..TreeDepth : h[i] \in Nat
    BY HalvedInTree, HalvedFacts
<1> HIDE DEF h
<1>2. 0 \in S
    <2> SUFFICES ASSUME NEW p \in 0..(Tree!Places[TreeDepth] - 1), p < h[0]
                 PROVE  t2[0][p] = t[0][p]
        BY LevelFacts
    <2>1. p \in Nat
        BY PlacesFacts, LevelFacts
    <2>2. p < Len(s) /\ p < Len(Append(s, e)) /\ Append(s, e)[p + 1] = s[p + 1]
        BY <1>1, <2>1
    <2>3. t2[0][p] = Tree!Leaf(Append(s, e)[p + 1])
        BY <2>2, TableFacts
    <2>4. t[0][p] = Tree!Leaf(s[p + 1])
        BY <2>2, TableFacts
    <2> QED
        BY <2>2, <2>3, <2>4
<1>3. ASSUME NEW i \in 0..(TreeDepth - 1), i \in S PROVE i + 1 \in S
    <2> SUFFICES ASSUME NEW p \in 0..(Tree!Places[TreeDepth - (i + 1)] - 1), p < h[i + 1]
                 PROVE  t2[i + 1][p] = t[i + 1][p]
        BY LevelFacts
    <2>1. /\ p \in Nat
          /\ 2 * p \in 0..(Tree!Places[TreeDepth - i] - 1)
          /\ 2 * p + 1 \in 0..(Tree!Places[TreeDepth - i] - 1)
        BY ChildPlaces
    <2>2. h[i] \in Nat /\ h[i + 1] = h[i] \div 2
        BY <1>1, LevelFacts
    <2>3. 2 * p < h[i] /\ 2 * p + 1 < h[i]
        BY <2>1, <2>2
    <2>4. t2[i][2 * p] = t[i][2 * p] /\ t2[i][2 * p + 1] = t[i][2 * p + 1]
        BY <1>3, <2>1, <2>3
    <2>5. t[i + 1][p] = Tree!hash_pair(t[i][2 * p], t[i][2 * p + 1])
        BY TableFacts
    <2>6. t2[i + 1][p] = Tree!hash_pair(t2[i][2 * p], t2[i][2 * p + 1])
        BY TableFacts
    <2> QED
        BY <2>4, <2>5, <2>6
<1>4. \A i \in 0..TreeDepth : i \in S
    BY <1>2, <1>3, LevelByLevel
<1> QED
    BY <1>4 DEF h

-----------------------------------------------------------------------------
(* The invariant: where the first free place is a right child, the branch   *)
(* has the full subtree on its left.                                        *)

BranchOK(b, size, t) ==
    \A i \in 0..(TreeDepth - 1) : Tree!OddAt(size, i) => b[i] = t[i][Tree!Halved(size)[i] - 1]

BranchInv == \A t : IsTable(leaves, t) => BranchOK(branch, count, t)

\* root goes up the path from the first free place.
LEMMA RootOfTable ==
    ASSUME Tree!TypeOK, NEW t, IsTable(leaves, t), BranchOK(branch, count, t)
    PROVE  Tree!Root = t[TreeDepth][0]
<1>1. PICK node :
        /\ Tree!Root = node[TreeDepth]
        /\ node[0] = Tree!Zero
        /\ \A i \in 0..(TreeDepth - 1) :
              node[i + 1] = IF Tree!OddAt(count, i) THEN Tree!hash_pair(branch[i], node[i])
                                               ELSE Tree!hash_pair(node[i], Tree!ZERO_HASHES[i])
    BY RootFacts
<1>2. PICK h : h = Tree!Halved(count)
    OBVIOUS
<1>3. count \in 0..(Tree!Places[TreeDepth] - 1) /\ count = Len(leaves)
    BY DEF Tree!TypeOK
<1>4. count \in Nat /\ \A i \in 0..TreeDepth : h[i] \in Nat /\ h[i] \in 0..(Tree!Places[TreeDepth - i] - 1)
    BY <1>2, <1>3, HalvedInTree
<1>5. h[0] = count /\ \A i \in 0..(TreeDepth - 1) : h[i + 1] = h[i] \div 2
    BY <1>2, <1>4, HalvedFacts
<1> DEFINE S == {i \in 0..TreeDepth : node[i] = t[i][h[i]]}
<1>6. 0 \in S
    <2>1. t[0][count] = Tree!Zero
        <3>1. ~(count < Len(leaves))
            BY <1>3, <1>4
        <3> QED
            BY <1>3, <3>1, TableFacts
    <2> QED
        BY <1>1, <1>5, <2>1, LevelFacts
<1>7. ASSUME NEW i \in 0..(TreeDepth - 1), i \in S PROVE i + 1 \in S
    <2>1. h[i] \in Nat /\ h[i + 1] = h[i] \div 2 /\ h[i + 1] \in 0..(Tree!Places[TreeDepth - (i + 1)] - 1)
        BY <1>4, <1>5, LevelFacts
    <2> DEFINE p == h[i + 1]
    <2>2. /\ p \in Nat
          /\ 2 * p \in 0..(Tree!Places[TreeDepth - i] - 1)
          /\ 2 * p + 1 \in 0..(Tree!Places[TreeDepth - i] - 1)
        BY <2>1, ChildPlaces
    <2>3. t[i + 1][p] = Tree!hash_pair(t[i][2 * p], t[i][2 * p + 1])
        BY <2>1, TableFacts
    <2>4. node[i] = t[i][h[i]]
        BY <1>7
    <2>5. node[i + 1] = t[i + 1][p]
        <3>1. CASE h[i] % 2 = 1
            <4>1. h[i] = 2 * p + 1 /\ h[i] - 1 = 2 * p
                BY <2>1, <3>1
            <4>2. Tree!OddAt(count, i)
                BY <1>2, <3>1 DEF Tree!OddAt
            <4>3. branch[i] = t[i][h[i] - 1]
                BY <1>2, <4>2 DEF BranchOK
            <4> HIDE DEF p
            <4> QED
                BY <1>1, <2>3, <2>4, <4>1, <4>2, <4>3
        <3>2. CASE h[i] % 2 # 1
            <4>1. h[i] = 2 * p /\ 2 * p + 1 > h[i]
                BY <2>1, <3>2
            <4>2. ~Tree!OddAt(count, i)
                BY <1>2, <3>2 DEF Tree!OddAt
            <4>3. i \in 0..TreeDepth
                BY LevelFacts
            <4>4. t[i][2 * p + 1] = Tree!ZERO_HASHES[i]
                BY <1>2, <1>3, <2>2, <4>1, <4>3, EmptyNodes
            <4> HIDE DEF p
            <4> QED
                BY <1>1, <2>3, <2>4, <4>1, <4>2, <4>4
        <3> QED
            BY <3>1, <3>2
    <2> QED
        BY <2>5, LevelFacts
<1>8. \A i \in 0..TreeDepth : i \in S
    BY <1>6, <1>7, LevelByLevel
<1>9. h[TreeDepth] = 0
    BY <1>4, LevelFacts, PlacesFacts
<1> QED
    BY <1>1, <1>8, <1>9, LevelFacts

\* Adding one to a size flips its bits up to the first that was not set.
LEMMA NextSize ==
    ASSUME NEW size \in Nat, NEW i \in 0..(TreeDepth - 1), Tree!OddAt(size + 1, i),
           \A j \in 0..(i - 1) : ~Tree!OddAt(size + 1, j)
    PROVE  \A j \in 0..TreeDepth :
               Tree!Halved(size + 1)[j] = IF j <= i THEN Tree!Halved(size)[j] + 1 ELSE Tree!Halved(size)[j]
<1> DEFINE h == Tree!Halved(size)
           h2 == Tree!Halved(size + 1)
           S == {j \in 0..TreeDepth : h2[j] = IF j <= i THEN h[j] + 1 ELSE h[j]}
<1>1. /\ h[0] = size /\ \A j \in 0..TreeDepth : h[j] \in Nat
      /\ \A j \in 0..(TreeDepth - 1) : h[j + 1] = h[j] \div 2
    BY HalvedFacts
<1>2. /\ h2[0] = size + 1 /\ \A j \in 0..TreeDepth : h2[j] \in Nat
      /\ \A j \in 0..(TreeDepth - 1) : h2[j + 1] = h2[j] \div 2
    BY HalvedFacts
<1>3. h2[i] % 2 = 1 /\ \A j \in 0..(i - 1) : h2[j] % 2 # 1
    BY DEF Tree!OddAt
<1> HIDE DEF h, h2
<1>4. i \in Nat /\ i \in 0..TreeDepth
    BY LevelFacts
<1>5. 0 \in S
    BY <1>1, <1>2, <1>4, LevelFacts
<1>6. ASSUME NEW j \in 0..(TreeDepth - 1), j \in S PROVE j + 1 \in S
    <2>1. /\ j \in Nat /\ h[j] \in Nat /\ h2[j] \in Nat
          /\ h[j + 1] = h[j] \div 2 /\ h2[j + 1] = h2[j] \div 2
        BY <1>1, <1>2, LevelFacts
    <2>2. CASE j < i
        <3>1. h2[j] % 2 # 1 /\ h2[j] = h[j] + 1
            BY <1>3, <1>4, <1>6, <2>1, <2>2
        <3>2. h2[j] \div 2 = (h[j] \div 2) + 1
            BY <2>1, <3>1
        <3>3. j + 1 <= i
            BY <1>4, <2>1, <2>2
        <3> QED
            BY <2>1, <3>2, <3>3, LevelFacts
    <2>3. CASE j = i
        <3>1. h2[j] % 2 = 1 /\ h2[j] = h[j] + 1
            BY <1>3, <1>4, <1>6, <2>3
        <3>2. h2[j] \div 2 = h[j] \div 2
            BY <2>1, <3>1
        <3>3. ~(j + 1 <= i)
            BY <1>4, <2>3
        <3> QED
            BY <2>1, <3>2, <3>3, LevelFacts
    <2>4. CASE j > i
        <3>1. h2[j] = h[j] /\ ~(j + 1 <= i)
            BY <1>4, <1>6, <2>1, <2>4
        <3> QED
            BY <2>1, <3>1, LevelFacts
    <2> QED
        BY <1>4, <2>1, <2>2, <2>3, <2>4
<1>7. \A j \in 0..TreeDepth : j \in S
    BY <1>5, <1>6, LevelByLevel
<1> QED
    BY <1>7 DEF h, h2

\* What insert carries up is the full subtree that the new leaf completes.
LEMMA CarriedIsNode ==
    ASSUME Tree!TypeOK, BranchInv, NEW e \in Elements, count < Tree!Places[TreeDepth] - 1,
           NEW i \in 0..(TreeDepth - 1), Tree!OddAt(count + 1, i),
           \A j \in 0..(i - 1) : ~Tree!OddAt(count + 1, j),
           NEW t2, IsTable(Append(leaves, e), t2)
    PROVE  Tree!Carried(e)[i] = t2[i][Tree!Halved(count + 1)[i] - 1]
<1>1. PICK size : size = count
    OBVIOUS
<1>2. PICK s : s = leaves
    OBVIOUS
<1>3. PICK b : b = branch
    OBVIOUS
<1>4. PICK c : c = Tree!Carried(e)
    OBVIOUS
<1>5. /\ s \in Seq(Elements) /\ Len(s) = size /\ size \in Nat
      /\ size \in 0..(Tree!Places[TreeDepth] - 1) /\ size + 1 \in 0..(Tree!Places[TreeDepth] - 1)
    <2>1. Tree!Places[TreeDepth] \in Nat
        BY PlacesFacts, LevelFacts
    <2> QED
        BY <1>1, <1>2, <2>1 DEF Tree!TypeOK
<1>6. PICK t : IsTable(s, t)
    <2>1. PICK row : row = Bottom(s)
        OBVIOUS
    <2>2. \E t : t = [j \in 0..TreeDepth |-> IF j = 0 THEN row ELSE Parents(t[j - 1], j)]
        BY TableExists
    <2> QED
        BY <2>1, <2>2 DEF IsTable
<1>7. BranchOK(b, size, t)
    BY <1>1, <1>2, <1>3, <1>6 DEF BranchInv
<1>8. IsTable(Append(s, e), t2)
    BY <1>2
<1>9. /\ c[0] = Tree!Leaf(e)
      /\ \A j \in 0..(TreeDepth - 1) : c[j + 1] = Tree!hash_pair(b[j], c[j])
    BY <1>3, <1>4, CarriedFacts
<1> DEFINE h == Tree!Halved(size)
           h2 == Tree!Halved(size + 1)
<1>10. \A j \in 0..TreeDepth : h[j] \in Nat /\ h[j] \in 0..(Tree!Places[TreeDepth - j] - 1)
    BY <1>5, HalvedInTree
<1>11. /\ \A j \in 0..TreeDepth : h2[j] \in Nat /\ h2[j] \in 0..(Tree!Places[TreeDepth - j] - 1)
       /\ h2[0] = size + 1
       /\ \A j \in 0..(TreeDepth - 1) : h2[j + 1] = h2[j] \div 2
    BY <1>5, HalvedInTree, HalvedFacts
<1>12. \A j \in 0..TreeDepth : h2[j] = IF j <= i THEN h[j] + 1 ELSE h[j]
    BY <1>1, <1>5, NextSize
<1>13. \A j \in 0..(i - 1) : h2[j] % 2 # 1
    BY <1>1 DEF Tree!OddAt
<1>14. \A j \in 0..TreeDepth : \A p \in 0..(Tree!Places[TreeDepth - j] - 1) :
           p < h[j] => t2[j][p] = t[j][p]
    BY <1>5, <1>6, <1>8, FullNodes
<1>15. \A j \in 0..(TreeDepth - 1) : h[j] % 2 = 1 => b[j] = t[j][h[j] - 1]
    BY <1>7 DEF BranchOK, Tree!OddAt
<1> HIDE DEF h, h2
<1> DEFINE S == {j \in 0..TreeDepth : j <= i => c[j] = t2[j][h2[j] - 1]}
<1>16. i \in Nat /\ i \in 0..TreeDepth
    BY LevelFacts
<1>17. 0 \in S
    <2>1. Append(s, e)[size + 1] = e /\ Len(Append(s, e)) = size + 1
        BY <1>5
    <2>2. t2[0][size] = Tree!Leaf(e)
        <3>1. size < Len(Append(s, e))
            BY <1>5, <2>1
        <3> QED
            BY <1>5, <1>8, <2>1, <3>1, TableFacts
    <2>3. h2[0] - 1 = size
        BY <1>5, <1>11
    <2> QED
        BY <1>9, <2>2, <2>3, LevelFacts
<1>18. ASSUME NEW j \in 0..(TreeDepth - 1), j \in S PROVE j + 1 \in S
    <2> SUFFICES ASSUME j + 1 <= i PROVE c[j + 1] = t2[j + 1][h2[j + 1] - 1]
        BY LevelFacts
    <2>1. /\ j \in Nat /\ j \in 0..TreeDepth /\ j + 1 \in 0..TreeDepth
          /\ j <= i /\ j \in 0..(i - 1)
        BY <1>16, LevelFacts
    <2>2. /\ h[j] \in Nat /\ h2[j] = h[j] + 1 /\ h2[j] % 2 # 1 /\ h2[j + 1] = h2[j] \div 2
          /\ h2[j + 1] \in Nat /\ h2[j + 1] \in 0..(Tree!Places[TreeDepth - (j + 1)] - 1)
          /\ h[j] \in 0..(Tree!Places[TreeDepth - j] - 1)
        BY <1>10, <1>11, <1>12, <1>13, <2>1
    <2> DEFINE p == h2[j + 1] - 1
    <2>3. /\ p \in Nat /\ h2[j] - 1 = 2 * p + 1 /\ h[j] = 2 * p + 1 /\ h[j] - 1 = 2 * p
          /\ h[j] % 2 = 1
        BY <2>2
    <2>4. p \in 0..(Tree!Places[TreeDepth - (j + 1)] - 1)
        <3>1. Tree!Places[TreeDepth - (j + 1)] \in Nat
            BY PlacesFacts, LevelFacts
        <3> QED
            BY <2>2, <2>3, <3>1
    <2> HIDE DEF p
    <2>5. /\ 2 * p \in 0..(Tree!Places[TreeDepth - j] - 1)
          /\ 2 * p + 1 \in 0..(Tree!Places[TreeDepth - j] - 1)
        BY <2>4, ChildPlaces
    <2>6. b[j] = t[j][2 * p]
        BY <1>15, <2>3
    <2>7. t2[j][2 * p] = t[j][2 * p]
        BY <1>14, <2>1, <2>3, <2>5
    <2>8. c[j] = t2[j][2 * p + 1]
        BY <1>18, <2>1, <2>3
    <2>9. t2[j + 1][p] = Tree!hash_pair(t2[j][2 * p], t2[j][2 * p + 1])
        BY <1>8, <2>4, TableFacts
    <2>10. c[j + 1] = Tree!hash_pair(b[j], c[j])
        BY <1>9
    <2> QED
        BY <2>6, <2>7, <2>8, <2>9, <2>10 DEF p
<1>19. \A j \in 0..TreeDepth : j \in S
    BY <1>17, <1>18, LevelByLevel
<1> QED
    BY <1>1, <1>4, <1>16, <1>19 DEF h2

LEMMA InsertKeepsTree ==
    ASSUME Tree!TypeOK, BranchInv, NEW e \in Elements, Tree!Insert(e)
    PROVE  Tree!TypeOK' /\ BranchInv'
<1>1. PICK size : size = count
    OBVIOUS
<1>2. PICK s : s = leaves
    OBVIOUS
<1>3. PICK b : b = branch
    OBVIOUS
<1>4. /\ s \in Seq(Elements) /\ Len(s) = size /\ size \in Nat
      /\ size \in 0..(Tree!Places[TreeDepth] - 1) /\ size + 1 \in 0..(Tree!Places[TreeDepth] - 1)
      /\ count < Tree!Places[TreeDepth] - 1
    <2>1. Tree!Places[TreeDepth] \in Nat
        BY PlacesFacts, LevelFacts
    <2> QED
        BY <1>1, <1>2, <2>1 DEF Tree!TypeOK, Tree!Insert
<1>5. count' = size + 1 /\ leaves' = Append(s, e)
    BY <1>1, <1>2 DEF Tree!Insert
<1>6. PICK i \in 0..(TreeDepth - 1) :
          /\ Tree!OddAt(size + 1, i) /\ \A j \in 0..(i - 1) : ~Tree!OddAt(size + 1, j)
          /\ branch' = [branch EXCEPT ![i] = Tree!Carried(e)[i]]
    BY <1>5 DEF Tree!Insert, Tree!Levels
<1>7. PICK b2 : b2 = branch'
    OBVIOUS
<1>8. Tree!TypeOK'
    BY <1>4, <1>5, <1>6 DEF Tree!TypeOK
<1>9. ASSUME NEW t2, IsTable(Append(s, e), t2) PROVE BranchOK(b2, size + 1, t2)
    <2>1. Tree!Carried(e)[i] = t2[i][Tree!Halved(size + 1)[i] - 1]
        BY <1>1, <1>2, <1>4, <1>6, <1>9, CarriedIsNode
    <2>2. DOMAIN branch = 0..(TreeDepth - 1)
        BY DEF Tree!TypeOK, Tree!Levels
    <2>3. b2[i] = t2[i][Tree!Halved(size + 1)[i] - 1]
        BY <1>6, <1>7, <2>1, <2>2
    <2>4. PICK t : IsTable(s, t)
        <3>1. PICK row : row = Bottom(s)
            OBVIOUS
        <3>2. \E t : t = [j \in 0..TreeDepth |-> IF j = 0 THEN row ELSE Parents(t[j - 1], j)]
            BY TableExists
        <3> QED
            BY <3>1, <3>2 DEF IsTable
    <2>5. BranchOK(b, size, t)
        BY <1>1, <1>2, <1>3, <2>4 DEF BranchInv
    <2> SUFFICES ASSUME NEW j \in 0..(TreeDepth - 1), Tree!OddAt(size + 1, j)
                 PROVE  b2[j] = t2[j][Tree!Halved(size + 1)[j] - 1]
        BY DEF BranchOK
    <2>6. i \in Nat /\ j \in Nat /\ j \in 0..TreeDepth
        BY LevelFacts
    <2>7. CASE j < i
        BY <1>6, <2>6, <2>7
    <2>8. CASE j = i
        BY <2>3, <2>8
    <2>9. CASE j > i
        <3>1. Tree!Halved(size + 1)[j] = Tree!Halved(size)[j]
            <4>1. ~(j <= i)
                BY <2>6, <2>9
            <4> QED
                BY <1>4, <1>6, <2>6, <4>1, NextSize
        <3>2. Tree!OddAt(size, j)
            BY <3>1 DEF Tree!OddAt
        <3>3. b2[j] = b[j]
            BY <1>3, <1>6, <1>7, <2>2, <2>6, <2>9
        <3>4. b[j] = t[j][Tree!Halved(size)[j] - 1]
            BY <2>5, <3>2 DEF BranchOK
        <3>5. PICK n : n = Tree!Halved(size)[j]
            OBVIOUS
        <3>6. n \in Nat /\ n \in 0..(Tree!Places[TreeDepth - j] - 1) /\ n % 2 = 1
            BY <1>4, <2>6, <3>2, <3>5, HalvedInTree DEF Tree!OddAt
        <3>7. Tree!Places[TreeDepth - j] \in Nat
            BY LevelFacts, PlacesFacts
        <3>8. n - 1 \in 0..(Tree!Places[TreeDepth - j] - 1) /\ n - 1 < n
            BY <3>6, <3>7
        <3>9. t2[j][n - 1] = t[j][n - 1]
            BY <1>4, <1>9, <2>4, <2>6, <3>5, <3>8, FullNodes
        <3> QED
            BY <3>1, <3>3, <3>4, <3>5, <3>9
    <2> QED
        BY <2>6, <2>7, <2>8, <2>9
<1> QED
    BY <1>5, <1>7, <1>8, <1>9 DEF BranchInv

LEMMA InitTree == Tree!Init => Tree!TypeOK /\ BranchInv
<1> SUFFICES ASSUME Tree!Init PROVE Tree!TypeOK /\ BranchInv
    OBVIOUS
<1>1. Tree!Places[TreeDepth] \in Nat \ {0}
    BY PlacesFacts, LevelFacts
<1>2. count = 0 /\ leaves = <<>> /\ DOMAIN branch = Tree!Levels
    BY DEF Tree!Init
<1>3. Tree!TypeOK
    BY <1>1, <1>2 DEF Tree!TypeOK
<1> DEFINE h == Tree!Halved(0)
           S == {i \in 0..TreeDepth : h[i] = 0}
<1>4. h[0] = 0 /\ \A i \in 0..(TreeDepth - 1) : h[i + 1] = h[i] \div 2
    BY HalvedFacts
<1> HIDE DEF h
<1>5. 0 \in S
    BY <1>4, LevelFacts
<1>6. ASSUME NEW i \in 0..(TreeDepth - 1), i \in S PROVE i + 1 \in S
    BY <1>4, <1>6, LevelFacts
<1>7. \A i \in 0..TreeDepth : i \in S
    BY <1>5, <1>6, LevelByLevel
<1>8. \A i \in 0..(TreeDepth - 1) : ~Tree!OddAt(0, i)
    BY <1>7, LevelFacts DEF Tree!OddAt, h
<1> QED
    BY <1>2, <1>3, <1>8 DEF BranchInv, BranchOK

\* The inductive invariant of the tree: each full subtree left of the path to the
\* first free place is in the branch, on its level.
THEOREM TreeCorrect == Tree!Spec => [](Tree!TypeOK /\ BranchInv)
<1>1. Tree!TypeOK /\ BranchInv /\ [Tree!Next]_(Tree!vars) => (Tree!TypeOK /\ BranchInv)'
    <2> SUFFICES ASSUME Tree!TypeOK, BranchInv, [Tree!Next]_(Tree!vars) PROVE Tree!TypeOK' /\ BranchInv'
        OBVIOUS
    <2>1. CASE \E e \in Elements : Tree!Insert(e)
        BY <2>1, InsertKeepsTree
    <2>2. CASE UNCHANGED Tree!vars
        BY <2>2 DEF Tree!vars, Tree!TypeOK, BranchInv
    <2> QED
        BY <2>1, <2>2 DEF Tree!Next, Tree!Full
<1> QED
    BY <1>1, InitTree, PTL DEF Tree!Spec

\* The root computed from the branch is that of the whole tree.
THEOREM RootCorrect == Tree!Spec => []RootIsReference
<1>1. Tree!TypeOK /\ BranchInv => RootIsReference
    <2> SUFFICES ASSUME Tree!TypeOK, BranchInv PROVE RootIsReference
        OBVIOUS
    <2>1. PICK t : t = Tree!Nodes
        OBVIOUS
    <2>2. IsTable(leaves, t) /\ BranchOK(branch, count, t)
        BY <2>1, NodesAreTable DEF BranchInv
    <2>3. Tree!Root = t[TreeDepth][0]
        BY <2>2, RootOfTable
    <2>4. Tree!Root = Tree!Nodes[TreeDepth][0]
        BY <2>1, <2>3
    <2>5. count = Len(leaves)
        BY DEF Tree!TypeOK
    <2> QED
        BY <2>4, <2>5 DEF RootIsReference, Tree!RootIsReference, Tree!Checkpoint
<1> QED
    BY <1>1, TreeCorrect, PTL
=============================================================================
