--------------------- MODULE ChannelSubscriptionsProofs ---------------------
(***************************************************************************)
(* What the mux reports as subscribed is subscribed at the supplier, and   *)
(* at rest it serves the union of its callers, for any callers, channels,  *)
(* failures and aborts.                                                    *)
(***************************************************************************)
EXTENDS ChannelSubscriptions, NaturalsInduction, WellFoundedInduction, TLAPS

Subscribes == {"subscribe", "subscribing"}
Unsubscribes == {"unsubscribe", "unsubscribing"}

\* The channel of the call that runs is neither done nor still to do.
InCall(pc, ch) == op.pc = pc /\ op.at = ch

\* The mux remembers the channel as served, and the supplier serves it unless
\* nobody can say.
Kept(ch) == ch \in physical /\ ch \in remote \union doubt

\* The subscribing half leaves behind it only channels that are kept.
FirstHalf ==
    op.pc \in Subscribes =>
        \A ch \in op.desired : Kept(ch) \/ ch \in op.todo \/ InCall("subscribing", ch)

\* The unsubscribing half touches none of them, and leaves behind it nothing else.
SecondHalf ==
    op.pc \in Unsubscribes =>
        /\ \A ch \in op.desired : Kept(ch) /\ ~InCall("unsubscribing", ch)
        /\ \A ch \in physical : ch \in op.desired \union op.todo \/ InCall("unsubscribing", ch)

\* Whoever changes the union after an operation has read it waits in the queue.
UnionIsRead == op.pc # "none" /\ queue = <<>> => op.desired = Wanted

MuxInv ==
    /\ MuxTypeOK
    /\ op.pc = "none" => op = Nothing
    /\ Calling => op.at \in Channels
    /\ ~disposed => FirstHalf /\ SecondHalf /\ UnionIsRead
    /\ SubscribedIsReal
    /\ QuietIsServed

-----------------------------------------------------------------------------
(* The helpers of the model.                                               *)

LEMMA ChannelsAreNumbers == Channels \subseteq Nat
  BY ChannelsAssumption DEF Channels

\* First is the least channel of a set.
LEMMA FirstIsLeast ==
    ASSUME NEW chs \in SUBSET Nat, chs # {}
    PROVE  First(chs) \in chs /\ \A other \in chs : First(chs) <= other
  <1> DEFINE R == OpToRel(<, Nat)
  <1>1. PICK ch \in chs : \A other \in chs : ~(<<other, ch>> \in R)
    BY NatLessThanWellFounded, WFMin, Zenon
  <1>2. \A other \in chs : ch <= other
    <2> SUFFICES ASSUME NEW other \in chs, ~(ch <= other) PROVE <<other, ch>> \in R
      BY <1>1
    <2>1. other < ch /\ other \in Nat /\ ch \in Nat
      BY SMT
    <2> QED BY <2>1, Zenon DEF OpToRel
  <1> QED BY <1>2 DEF First

LEMMA NothingIsIdle ==
    Nothing \in Operations /\ Nothing.pc = "none"
  BY DEF Nothing, Operations

LEMMA OperationIsOne ==
    ASSUME NEW kind \in Kinds
    PROVE  Operation(kind) \in Operations
  BY DEF Operation, Nothing, Operations, Kinds

\* An abort marks an operation and leaves its progress alone.
LEMMA AbortedKeeps ==
    ASSUME NEW o \in Operations
    PROVE  /\ Aborted(o) \in Operations
           /\ Aborted(o).pc = o.pc /\ Aborted(o).at = o.at
           /\ Aborted(o).desired = o.desired /\ Aborted(o).todo = o.todo
           /\ o = Nothing => Aborted(o) = Nothing
  BY DEF Aborted, Operations, Nothing

LEMMA GoesOn ==
    ASSUME op \in Operations, NEW todo \in SUBSET Channels, NEW at \in Channels \union {0},
           NEW pc \in Subscribes \union Unsubscribes, Goes(pc, todo, at)
    PROVE  /\ op' \in Operations /\ op' # Nothing
           /\ op'.pc = pc /\ op'.at = at /\ op'.todo = todo /\ op'.desired = op.desired
  BY DEF Goes, Operations, Nothing, Subscribes, Unsubscribes

LEMMA WantedIsKnown ==
    ASSUME MuxTypeOK
    PROVE  Wanted \in SUBSET Channels
  BY DEF Wanted, Union, MuxTypeOK

-----------------------------------------------------------------------------
(* Every action keeps the invariant.                                       *)

LEMMA InitHolds == ASSUME Init PROVE MuxInv
  <1>1. MuxTypeOK
    <2>1. callers \in [Callers -> SUBSET Channels] /\ statuses \in [Channels -> Phases]
      BY DEF Init, Phases
    <2>2. queue \in Seq(Operations) /\ op \in Operations
      BY NothingIsIdle DEF Init
    <2>3. timer \in BOOLEAN /\ disposed \in BOOLEAN /\ stalled \in BOOLEAN
      BY DEF Init
    <2> QED BY <2>1, <2>2, <2>3 DEF Init, MuxTypeOK
  <1>2. Wanted = {} /\ \A ch \in Channels : statuses[ch] # "subscribed"
    BY DEF Init, Wanted, Union
  <1> QED BY <1>1, <1>2, NothingIsIdle DEF Init, MuxInv, FirstHalf, SecondHalf, UnionIsRead, Subscribes,
     Unsubscribes, SubscribedIsReal, QuietIsServed, Calling

\* A change of the callers enqueues an operation, which is what makes the one
\* that runs free to end with the union it has read.
LEMMA ChangesKeep ==
    ASSUME MuxInv, MuxTypeOK', NEW kind \in Kinds, Enqueue(kind),
           UNCHANGED <<physical, op, timer, disposed, remote, doubt, stalled>>,
           \A ch \in Channels : statuses'[ch] = "subscribed" => statuses[ch] = "subscribed"
    PROVE  MuxInv'
  <1>1. queue' # <<>>
    BY OperationIsOne DEF Enqueue, MuxInv, MuxTypeOK
  <1> QED BY <1>1, SMT DEF MuxInv, FirstHalf, SecondHalf, UnionIsRead, SubscribedIsReal, QuietIsServed,
               Quiet,
     Kept, InCall, Calling

LEMMA SetKeeps ==
    ASSUME MuxInv, NEW c \in Callers, NEW chs \in SUBSET Channels, Set(c, chs)
    PROVE  MuxInv'
  <1>1. Operation("caller") \in Operations
    BY OperationIsOne DEF Kinds
  <1>2. /\ MuxTypeOK'
        /\ \A ch \in Channels : statuses'[ch] = "subscribed" => statuses[ch] = "subscribed"
    BY <1>1, SMT DEF MuxInv, MuxTypeOK, Set, Enqueue, Phases
  <1> QED BY <1>2, ChangesKeep DEF Set, Kinds

LEMMA ReleaseKeeps ==
    ASSUME MuxInv, NEW c \in Callers, Release(c)
    PROVE  MuxInv'
  <1>1. Operation("caller") \in Operations
    BY OperationIsOne DEF Kinds
  <1>2. /\ MuxTypeOK'
        /\ \A ch \in Channels : statuses'[ch] = "subscribed" => statuses[ch] = "subscribed"
    BY <1>1, SMT DEF MuxInv, MuxTypeOK, Release, Enqueue, Phases
  <1> QED BY <1>2, ChangesKeep DEF Release, Kinds

LEMMA ClearKeeps ==
    ASSUME MuxInv, Clear
    PROVE  MuxInv'
  <1>1. Operation("clear") \in Operations
    BY OperationIsOne DEF Kinds
  <1>2. /\ MuxTypeOK'
        /\ \A ch \in Channels : statuses'[ch] = "subscribed" => statuses[ch] = "subscribed"
    BY <1>1, SMT DEF MuxInv, MuxTypeOK, Clear, Enqueue, Phases
  <1> QED BY <1>2, ChangesKeep DEF Clear, Kinds

LEMMA RetryFiresKeeps ==
    ASSUME MuxInv, RetryFires
    PROVE  MuxInv'
  <1>1. Operation("retry") \in Operations
    BY OperationIsOne DEF Kinds
  <1>2. queue' \in Seq(Operations) /\ queue' # <<>>
    BY <1>1 DEF MuxInv, MuxTypeOK, RetryFires, Enqueue
  <1>3. MuxTypeOK'
    BY <1>2 DEF MuxInv, MuxTypeOK, RetryFires
  <1> QED BY <1>2, <1>3, SMT DEF RetryFires, MuxInv, FirstHalf, SecondHalf, UnionIsRead,
               SubscribedIsReal, QuietIsServed, Quiet,
     Kept, InCall, Calling, Wanted

\* An abort changes nothing but the mark of operations.
LEMMA AbortsKeep ==
    ASSUME MuxInv, MuxTypeOK', queue' = <<>> => queue = <<>>,
           op'.pc = op.pc, op'.at = op.at, op'.desired = op.desired, op'.todo = op.todo,
           op = Nothing <=> op' = Nothing,
           UNCHANGED <<callers, physical, statuses, timer, disposed, remote, doubt, stalled>>
    PROVE  MuxInv'
  BY NothingIsIdle, SMT DEF MuxInv, FirstHalf, SecondHalf, UnionIsRead, SubscribedIsReal, QuietIsServed,
       Quiet,
     Kept, InCall, Calling, Wanted

LEMMA CallerAbortsKeeps ==
    ASSUME MuxInv, CallerAborts
    PROVE  MuxInv'
  <1>1. CASE op.kind = "caller" /\ op' = [op EXCEPT !.aborted = "caller"] /\ UNCHANGED queue
    <2>1. op' \in Operations /\ op # Nothing /\ op' # Nothing
      BY <1>1 DEF MuxInv, MuxTypeOK, Operations, Nothing
    <2>2. MuxTypeOK'
      BY <1>1, <2>1, SMT DEF CallerAborts, MuxInv, MuxTypeOK
    <2>3. op'.pc = op.pc /\ op'.at = op.at /\ op'.desired = op.desired /\ op'.todo = op.todo
      BY <1>1 DEF MuxInv, MuxTypeOK, Operations
    <2> QED BY <1>1, <2>1, <2>2, <2>3, AbortsKeep DEF CallerAborts
  <1>2. ASSUME NEW i \in DOMAIN queue, queue' = [queue EXCEPT ![i].aborted = "caller"], UNCHANGED op
        PROVE  MuxInv'
    <2>1. queue' \in Seq(Operations) /\ queue # <<>> /\ queue' # <<>>
      <3>1. queue \in Seq(Operations) /\ queue[i] \in Operations
        BY <1>2 DEF MuxInv, MuxTypeOK
      <3>2. [queue[i] EXCEPT !.aborted = "caller"] \in Operations
        BY <3>1 DEF Operations
      <3> QED BY <1>2, <3>1, <3>2, SMT
    <2>2. MuxTypeOK'
      BY <1>2, <2>1, SMT DEF CallerAborts, MuxInv, MuxTypeOK
    <2> QED BY <1>2, <2>1, <2>2, AbortsKeep DEF CallerAborts
  <1> QED BY <1>1, <1>2 DEF CallerAborts

LEMMA CancelInFlightKeeps ==
    ASSUME MuxInv, CancelInFlight
    PROVE  MuxInv'
  <1>1. queue' \in Seq(Operations) /\ (queue' = <<>> => queue = <<>>)
    BY AbortedKeeps, SMT DEF MuxInv, MuxTypeOK, CancelInFlight
  <1>2. op' \in Operations /\ op'.pc = op.pc /\ op'.at = op.at /\ op'.desired = op.desired
        /\ op'.todo = op.todo
    BY AbortedKeeps, SMT DEF MuxInv, MuxTypeOK, CancelInFlight
  <1>3. op = Nothing <=> op' = Nothing
    BY <1>2, AbortedKeeps, NothingIsIdle DEF MuxInv, MuxTypeOK, CancelInFlight
  <1>4. MuxTypeOK'
    BY <1>1, <1>2, SMT DEF CancelInFlight, MuxInv, MuxTypeOK
  <1> QED BY <1>1, <1>2, <1>3, <1>4, AbortsKeep DEF CancelInFlight

\* A disposed mux reports nothing.
LEMMA DisposeKeeps ==
    ASSUME MuxInv, Dispose
    PROVE  MuxInv'
  <1>1. queue' \in Seq(Operations)
    BY AbortedKeeps, SMT DEF MuxInv, MuxTypeOK, Dispose
  <1>2. op' \in Operations /\ op'.pc = op.pc /\ op'.at = op.at /\ (op = Nothing => op' = Nothing)
    BY AbortedKeeps, SMT DEF MuxInv, MuxTypeOK, Dispose
  <1>3. callers' \in [Callers -> SUBSET Channels] /\ statuses' \in [Channels -> Phases]
    BY DEF Dispose, Phases
  <1>4. MuxTypeOK'
    BY <1>1, <1>2, <1>3 DEF Dispose, MuxInv, MuxTypeOK
  <1> QED BY <1>2, <1>4, SMT DEF Dispose, MuxInv, SubscribedIsReal, QuietIsServed, Quiet, Calling


-----------------------------------------------------------------------------
(* The operation that runs.                                                *)

\* The union is read with nothing done and all of it to do.
LEMMA BeginKeeps ==
    ASSUME MuxInv, Begin
    PROVE  MuxInv'
  <1>1. Head(queue) \in Operations /\ Tail(queue) \in Seq(Operations)
    BY SMT DEF Begin, MuxInv, MuxTypeOK
  <1>2. /\ op' \in Operations /\ op'.pc = "subscribe"
        /\ op'.desired = Wanted /\ op'.todo = Wanted
    BY <1>1, WantedIsKnown, SMT DEF Begin, Operations, MuxInv
  <1>3. MuxTypeOK'
    BY <1>1, <1>2, SMT DEF Begin, MuxInv, MuxTypeOK
  <1>4. Wanted' = Wanted
    BY DEF Begin, Wanted
  <1>5. op' # Nothing /\ op.pc = "none"
    BY <1>2, NothingIsIdle DEF Begin
  <1> QED BY <1>2, <1>3, <1>4, <1>5, SMT DEF Begin, MuxInv, FirstHalf, SecondHalf, UnionIsRead,
               Subscribes,
     Unsubscribes, SubscribedIsReal, QuietIsServed, Quiet, Calling, InCall

\* What is passed over in the walk is served, so it is kept: no unsubscription
\* runs while channels are subscribed.
LEMMA ServedIsKept ==
    ASSUME MuxInv, op.pc \in Subscribes, NEW ch \in Channels, Served(ch)
    PROVE  Kept(ch)
  BY DEF MuxInv, SubscribedIsReal, Served, Kept, Subscribes

LEMMA CallSubscribeKeeps ==
    ASSUME MuxInv, CallSubscribe
    PROVE  MuxInv'
  <1> DEFINE missing == {ch \in op.todo : ~Served(ch)}
  <1>1. op \in Operations /\ op.todo \subseteq Channels /\ op.desired \subseteq Channels
    BY DEF MuxInv, MuxTypeOK, Operations
  <1>2. PICK ch \in missing : /\ \A other \in missing : ch <= other
                              /\ Goes("subscribing", {d \in op.todo : d > ch}, ch)
                              /\ statuses' = [statuses EXCEPT ![ch] = "subscribing"]
    <2>1. missing \in SUBSET Nat /\ missing # {}
      BY <1>1, ChannelsAreNumbers DEF CallSubscribe
    <2> QED BY <2>1, FirstIsLeast DEF CallSubscribe
  <1>3. op' \in Operations /\ op'.pc = "subscribing" /\ op'.at = ch /\ op'.desired = op.desired
        /\ op'.todo = {d \in op.todo : d > ch}
    <2>1. {d \in op.todo : d > ch} \in SUBSET Channels /\ ch \in Channels \union {0}
      BY <1>1
    <2> QED BY <1>1, <1>2, <2>1, GoesOn DEF Subscribes, Unsubscribes
  <1>4. MuxTypeOK'
    <2>1. statuses' \in [Channels -> Phases]
      BY <1>1, <1>2 DEF MuxInv, MuxTypeOK, Phases
    <2> QED BY <1>3, <2>1 DEF CallSubscribe, MuxInv, MuxTypeOK
  <1>5. \A d \in op.todo : d > ch \/ d = ch \/ Kept(d)
    <2>1. \A d \in op.todo : d \in missing \/ Kept(d)
      BY <1>1, ServedIsKept DEF CallSubscribe, Subscribes
    <2>2. \A d \in missing : d > ch \/ d = ch
      <3>1. missing \in SUBSET Nat
        BY <1>1, ChannelsAreNumbers
      <3>2. ch \in Nat /\ \A d \in missing : d \in Nat /\ ch <= d
        BY <1>2, <3>1
      <3> QED BY <3>2
    <2> QED BY <2>1, <2>2
  <1>6. op.pc = "subscribe" /\ op' # Nothing
    BY <1>3, NothingIsIdle DEF CallSubscribe
  <1>7. FirstHalf => FirstHalf'
    BY <1>1, <1>3, <1>5, <1>6, SMT DEF CallSubscribe, FirstHalf, Kept, InCall, Subscribes
  <1>8. SubscribedIsReal'
    BY <1>1, <1>2, <1>3, <1>6, SMT DEF CallSubscribe, MuxInv, MuxTypeOK, SubscribedIsReal
  <1>9. /\ SecondHalf' /\ (UnionIsRead => UnionIsRead') /\ QuietIsServed'
        /\ op'.pc = "none" => op' = Nothing
        /\ (Calling => op.at \in Channels)'
    BY <1>1, <1>2, <1>3, <1>6 DEF CallSubscribe, SecondHalf, Unsubscribes, UnionIsRead, QuietIsServed,
         Quiet, Wanted, Calling
  <1> QED BY <1>4, <1>7, <1>8, <1>9 DEF MuxInv, CallSubscribe

\* Everything wanted is kept when the second half begins.
LEMMA AllSubscribedKeeps ==
    ASSUME MuxInv, AllSubscribed
    PROVE  MuxInv'
  <1>1. op \in Operations /\ op.todo \subseteq Channels /\ op.desired \subseteq Channels
        /\ physical \subseteq Channels
    BY DEF MuxInv, MuxTypeOK, Operations
  <1>2. op' \in Operations /\ op'.pc = "unsubscribe" /\ op'.desired = op.desired /\ op'.todo = physical
    BY <1>1, GoesOn DEF AllSubscribed, Unsubscribes
  <1>3. MuxTypeOK'
    BY <1>2, SMT DEF AllSubscribed, MuxInv, MuxTypeOK
  <1>4. op.pc = "subscribe" /\ op' # Nothing
    BY <1>2, NothingIsIdle DEF AllSubscribed
  <1>5. FirstHalf => \A ch \in op.desired : Kept(ch)
    BY <1>1, <1>4, ServedIsKept DEF AllSubscribed, FirstHalf, Subscribes, InCall
  <1>6. FirstHalf => SecondHalf'
    BY <1>2, <1>4, <1>5 DEF AllSubscribed, SecondHalf, Kept, InCall
  <1>7. FirstHalf' /\ (UnionIsRead => UnionIsRead') /\ QuietIsServed' /\ SubscribedIsReal'
    BY <1>2, <1>4, SMT DEF AllSubscribed, MuxInv, FirstHalf, Subscribes, UnionIsRead, QuietIsServed,
         Quiet, Wanted,
       SubscribedIsReal
  <1> QED BY <1>2, <1>3, <1>6, <1>7 DEF MuxInv, AllSubscribed, Calling

\* Only what the operation does not want is unsubscribed.
LEMMA CallUnsubscribeKeeps ==
    ASSUME MuxInv, CallUnsubscribe
    PROVE  MuxInv'
  <1> DEFINE extra == op.todo \ op.desired
  <1>1. op \in Operations /\ op.todo \subseteq Channels /\ op.desired \subseteq Channels
    BY DEF MuxInv, MuxTypeOK, Operations
  <1>2. PICK ch \in extra : /\ \A other \in extra : ch <= other
                            /\ Goes("unsubscribing", {d \in op.todo : d > ch}, ch)
    <2>1. extra \in SUBSET Nat /\ extra # {}
      BY <1>1, ChannelsAreNumbers DEF CallUnsubscribe
    <2> QED BY <2>1, FirstIsLeast DEF CallUnsubscribe
  <1>3. op' \in Operations /\ op'.pc = "unsubscribing" /\ op'.at = ch /\ op'.desired = op.desired
        /\ op'.todo = {d \in op.todo : d > ch}
    <2>1. {d \in op.todo : d > ch} \in SUBSET Channels /\ ch \in Channels \union {0}
      BY <1>1
    <2> QED BY <1>1, <1>2, <2>1, GoesOn DEF Subscribes, Unsubscribes
  <1>4. MuxTypeOK'
    BY <1>3, SMT DEF CallUnsubscribe, MuxInv, MuxTypeOK
  <1>5. \A d \in op.todo : d > ch \/ d = ch \/ d \in op.desired
    <2>1. extra \in SUBSET Nat
      BY <1>1, ChannelsAreNumbers
    <2>2. ch \in Nat /\ \A d \in extra : d \in Nat /\ ch <= d
      BY <1>2, <2>1
    <2> QED BY <2>2
  <1>6. op.pc = "unsubscribe" /\ op' # Nothing
    BY <1>3, NothingIsIdle DEF CallUnsubscribe
  <1>7. SecondHalf => SecondHalf'
    BY <1>1, <1>2, <1>3, <1>5, <1>6, SMT DEF CallUnsubscribe, SecondHalf, Kept, InCall, Unsubscribes
  <1>8. FirstHalf' /\ (UnionIsRead => UnionIsRead') /\ QuietIsServed' /\ SubscribedIsReal'
    BY <1>3, <1>6, SMT DEF CallUnsubscribe, MuxInv, FirstHalf, Subscribes, UnionIsRead, QuietIsServed,
         Quiet, Wanted,
       SubscribedIsReal
  <1> QED BY <1>1, <1>2, <1>3, <1>4, <1>7, <1>8 DEF MuxInv, CallUnsubscribe, Calling

-----------------------------------------------------------------------------
(* The answers of the driver, and the end of an operation.                 *)

LEMMA SubscribeReturnsKeeps ==
    ASSUME MuxInv, SubscribeReturns
    PROVE  MuxInv'
  <1>1. op \in Operations /\ op.at \in Channels
    BY DEF MuxInv, MuxTypeOK, SubscribeReturns, Calling
  <1>2. op' \in Operations /\ op'.pc = "subscribe" /\ op'.desired = op.desired /\ op'.todo = op.todo
    BY <1>1, GoesOn DEF SubscribeReturns, Operations, Subscribes
  <1>3. MuxTypeOK'
    BY <1>1, <1>2, SMT DEF SubscribeReturns, Reached, MuxInv, MuxTypeOK, Phases
  <1>4. op.pc = "subscribing" /\ op' # Nothing 
        /\ op.at \in physical' /\ op.at \in remote'
        /\ \A ch : Kept(ch) => ch \in physical' /\ ch \in remote' \union doubt'
    BY <1>2, NothingIsIdle DEF SubscribeReturns, Reached, Kept
  <1>5. FirstHalf => FirstHalf'
    BY <1>2, <1>4 DEF SubscribeReturns, FirstHalf, Subscribes, InCall, Kept
  <1>6. SubscribedIsReal'
    BY <1>1, <1>2, <1>4, SMT DEF SubscribeReturns, Reached, MuxInv, MuxTypeOK, SubscribedIsReal
  <1>7. SecondHalf' /\ (UnionIsRead => UnionIsRead') /\ QuietIsServed'
    BY <1>2, <1>4 DEF SubscribeReturns, SecondHalf, Unsubscribes, UnionIsRead, QuietIsServed, Quiet,
         Wanted
  <1> QED BY <1>2, <1>3, <1>5, <1>6, <1>7 DEF MuxInv, SubscribeReturns, Calling

LEMMA UnsubscribeReturnsKeeps ==
    ASSUME MuxInv, UnsubscribeReturns
    PROVE  MuxInv'
  <1>1. op \in Operations /\ op.at \in Channels
    BY DEF MuxInv, MuxTypeOK, UnsubscribeReturns, Calling
  <1>2. op' \in Operations /\ op'.pc = "unsubscribe" /\ op'.desired = op.desired /\ op'.todo = op.todo
    BY <1>1, GoesOn DEF UnsubscribeReturns, Operations, Unsubscribes
  <1>3. MuxTypeOK'
    BY <1>1, <1>2, SMT DEF UnsubscribeReturns, Reached, MuxInv, MuxTypeOK, Phases
  <1>4. op.pc = "unsubscribing" /\ op' # Nothing /\ \A ch : ch # op.at /\ Kept(ch) => Kept(ch)'
    BY <1>2, NothingIsIdle DEF UnsubscribeReturns, Reached, Kept
  <1>5. SecondHalf => SecondHalf'
    BY <1>2, <1>4 DEF UnsubscribeReturns, SecondHalf, Unsubscribes, InCall
  <1>6. SubscribedIsReal'
    BY <1>1, <1>2, <1>4, SMT DEF UnsubscribeReturns, Reached, MuxInv, MuxTypeOK, SubscribedIsReal
  <1>7. FirstHalf' /\ (UnionIsRead => UnionIsRead') /\ QuietIsServed'
    BY <1>2, <1>4 DEF UnsubscribeReturns, FirstHalf, Subscribes, UnionIsRead, QuietIsServed, Quiet,
         Wanted
  <1> QED BY <1>2, <1>3, <1>5, <1>6, <1>7 DEF MuxInv, UnsubscribeReturns, Calling

\* An operation that fails leaves a retry behind it, or an abort.
LEMMA FailureKeeps ==
    ASSUME MuxInv, NEW aborting \in BOOLEAN, Fails(aborting),
           UNCHANGED <<callers, physical, queue, disposed>>,
           statuses' \in [Channels -> Phases], remote' \subseteq Channels, doubt' \subseteq Channels,
           SubscribedIsReal'
    PROVE  MuxInv'
  <1>1. timer' \in BOOLEAN /\ stalled' \in BOOLEAN /\ (timer' \/ stalled')
    BY DEF Fails, MuxInv, MuxTypeOK
  <1>2. op' = Nothing
    BY DEF Fails
  <1>3. MuxTypeOK'
    BY <1>1, <1>2, NothingIsIdle DEF MuxInv, MuxTypeOK
  <1> QED BY <1>1, <1>2, <1>3, NothingIsIdle DEF MuxInv, FirstHalf, SecondHalf, UnionIsRead, Subscribes,
               Unsubscribes,
     QuietIsServed, Quiet, Calling

LEMMA InterruptedKeeps ==
    ASSUME MuxInv, Interrupted
    PROVE  MuxInv'
  <1>1. SubscribedIsReal'
    BY SMT DEF Interrupted, MuxInv, SubscribedIsReal
  <1> QED BY <1>1, FailureKeeps DEF Interrupted, MuxInv, MuxTypeOK

LEMMA DriverFailsKeeps ==
    ASSUME MuxInv, DriverFails
    PROVE  MuxInv'
  <1>1. op.at \in Channels
    BY DEF MuxInv, DriverFails
  <1>2. remote' \subseteq Channels /\ \A ch \in Channels : ch # op.at => (ch \in remote' <=> ch \in remote)
    BY <1>1 DEF DriverFails, Reached, MuxInv, MuxTypeOK
  <1>3. /\ statuses' \in [Channels -> Phases]
        /\ statuses'[op.at] # "subscribed"
        /\ \A ch \in Channels : ch # op.at => statuses'[ch] = statuses[ch]
    BY <1>1, SMT DEF DriverFails, MuxInv, MuxTypeOK, Phases
  <1>4. SubscribedIsReal'
    BY <1>2, <1>3, SMT DEF DriverFails, MuxInv, SubscribedIsReal
  <1> QED BY <1>2, <1>3, <1>4, FailureKeeps DEF DriverFails, MuxInv, MuxTypeOK

LEMMA DriverAbortedKeeps ==
    ASSUME MuxInv, DriverAborted
    PROVE  MuxInv'
  <1>1. op.at \in Channels
    BY DEF MuxInv, DriverAborted
  <1>2. remote' \subseteq Channels /\ \A ch \in Channels : ch # op.at => (ch \in remote' <=> ch \in remote)
    BY <1>1 DEF DriverAborted, Reached, MuxInv, MuxTypeOK
  <1>3. SubscribedIsReal'
    BY <1>2, SMT DEF DriverAborted, MuxInv, SubscribedIsReal
  <1>4. PICK aborting \in BOOLEAN : Fails(aborting)
    BY DEF DriverAborted
  <1> QED BY <1>1, <1>2, <1>3, <1>4, FailureKeeps DEF DriverAborted, MuxInv, MuxTypeOK

\* When the walk is over the driver's memory is the union the operation read.
LEMMA DoneKeeps ==
    ASSUME MuxInv, Done
    PROVE  MuxInv'
  <1>1. op' = Nothing /\ op.pc = "unsubscribe" /\ Wanted' = Wanted
    BY DEF Done, Succeeds, Wanted
  <1>2. MuxTypeOK'
    BY <1>1, NothingIsIdle DEF Done, Succeeds, MuxInv, MuxTypeOK
  <1>3. ASSUME SecondHalf, UnionIsRead, queue = <<>>
        PROVE  physical = Wanted /\ Wanted \ doubt \subseteq remote
    BY <1>1, <1>3 DEF Done, SecondHalf, UnionIsRead, Unsubscribes, InCall, Kept
  <1>4. QuietIsServed'
    BY <1>1, <1>3 DEF Done, MuxInv, QuietIsServed, Quiet
  <1>5. SubscribedIsReal'
    BY <1>1, SMT DEF Done, MuxInv, SubscribedIsReal
  <1> QED BY <1>1, <1>2, <1>4, <1>5, NothingIsIdle DEF MuxInv, FirstHalf, SecondHalf, UnionIsRead,
               Subscribes, Unsubscribes,
     Calling

\* A step that changes nothing.
LEMMA StutterKeeps ==
    ASSUME MuxInv, UNCHANGED vars
    PROVE  MuxInv'
  BY SMT DEF vars, MuxInv, MuxTypeOK, FirstHalf, SecondHalf, UnionIsRead, SubscribedIsReal,
       QuietIsServed, Quiet, Kept, InCall,
     Calling, Wanted

\* The mux never loses track of the supplier (reconcile, set and dispose of
\* channelSubscriptionMux.ts): the inductive invariant of the two properties.
THEOREM MuxInvariant == Spec => []MuxInv
  <1>1. ASSUME MuxInv, [Next]_vars PROVE MuxInv'
    BY <1>1, SetKeeps, ReleaseKeeps, ClearKeeps, CallerAbortsKeeps, CancelInFlightKeeps, DisposeKeeps,
       BeginKeeps, InterruptedKeeps, CallSubscribeKeeps, CallUnsubscribeKeeps, AllSubscribedKeeps,
       DoneKeeps, SubscribeReturnsKeeps, UnsubscribeReturnsKeeps, DriverFailsKeeps, DriverAbortedKeeps,
       RetryFiresKeeps, StutterKeeps
       DEF Next, OperationStep
  <1> QED BY <1>1, InitHolds, PTL DEF Spec

\* A channel whose phase is "subscribed" is subscribed at the supplier, unless its
\* unsubscription is on the way or its last call was aborted.
THEOREM ReportsAreReal == Spec => []SubscribedIsReal
  <1>1. MuxInv => SubscribedIsReal
    BY DEF MuxInv
  <1> QED BY <1>1, MuxInvariant, PTL

\* At rest, the supplier serves the union of the callers' sets and the mux
\* remembers nothing else, unless an abort has not been made good.
THEOREM RestIsServed == Spec => []QuietIsServed
  <1>1. MuxInv => QuietIsServed
    BY DEF MuxInv
  <1> QED BY <1>1, MuxInvariant, PTL
=============================================================================
