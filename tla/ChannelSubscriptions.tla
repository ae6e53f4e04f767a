------------------------ MODULE ChannelSubscriptions ------------------------
(***************************************************************************)
(* ChannelSubscriptionMux (channelSubscriptionMux.ts): callers own sets of *)
(* channels; the union of the sets is subscribed at the supplier.  One     *)
(* chain of operations talks to the supplier; a failed operation is        *)
(* repeated by a timer, an aborted one is not.                             *)
(*                                                                         *)
(* The supplier ("remote") is outside the repository: a call of the driver *)
(* that is aborted or fails may have reached it or not.  Channels are      *)
(* numbers because the code walks them in sorted order.  The continuation  *)
(* of a caller after its operation runs in the action that ends the        *)
(* operation; error codes, listeners and the back-off delay are left out.  *)
(***************************************************************************)
EXTENDS Naturals, Sequences

CONSTANTS
    Callers,        \* logical owners of channel sets
    ChannelCount,   \* channels are 1 .. ChannelCount
    MaxChanges,     \* bound: sets, releases and clears
    MaxFailures,    \* bound: calls of the driver that fail
    MaxAborts       \* bound: aborts by a caller or by the lock

ASSUME ChannelsAssumption ==
    /\ Callers # {}
    /\ ChannelCount \in Nat \ {0}
    /\ {MaxChanges, MaxFailures, MaxAborts} \subseteq Nat

Channels == 1 .. ChannelCount

VARIABLES
    callers,    \* the set of each caller
    physical,   \* channels the driver subscribed successfully (a memory)
    statuses,   \* the phase reported for each channel; "idle" is no entry
    queue,      \* operations waiting behind operationTail
    op,         \* the operation that runs, or Nothing
    timer,      \* a retry is scheduled
    disposed,
    remote,     \* channels subscribed at the supplier
    doubt,      \* channels whose last call of the driver was aborted
    stalled,    \* an operation was aborted and none has succeeded since
    used        \* changes, failures and aborts so far

vars == <<callers, physical, statuses, queue, op, timer, disposed, remote, doubt, stalled, used>>

Phases == {"idle", "subscribing", "subscribed", "retrying", "blocked"}
Kinds == {"caller", "clear", "retry"}
Nothing == [kind |-> "none", aborted |-> "no", desired |-> {}, todo |-> {}, pc |-> "none", at |-> 0]
Operation(kind) == [Nothing EXCEPT !.kind = kind]

Init ==
    /\ callers = [c \in Callers |-> {}]
    /\ physical = {}
    /\ statuses = [ch \in Channels |-> "idle"]
    /\ queue = <<>>
    /\ op = Nothing
    /\ timer = FALSE
    /\ disposed = FALSE
    /\ remote = {}
    /\ doubt = {}
    /\ stalled = FALSE
    /\ used = [changes |-> 0, failures |-> 0, aborts |-> 0]

Union(sets) == UNION {sets[c] : c \in Callers}
Wanted == Union(callers)
\* Mutant of Served: the memory of earlier calls is taken for the truth.
ServedByMemory(ch) == ch \in physical

\* The cache counts only while the phase confirms it.
Served(ch) == ch \in physical /\ statuses[ch] = "subscribed"
First(chs) == CHOOSE ch \in chs : \A other \in chs : ch <= other
Enqueue(kind) == queue' = Append(queue, Operation(kind))

-----------------------------------------------------------------------------
(* The callers.                                                            *)

\* set(): the caller's set is replaced at once, whatever the supplier says;
\* a channel that is not known to be served is reported as subscribing.
Set(c, chs) ==
    /\ ~disposed
    /\ used.changes < MaxChanges
    /\ used' = [used EXCEPT !.changes = @ + 1]
    /\ callers' = [callers EXCEPT ![c] = chs]
    /\ LET desired == Union([callers EXCEPT ![c] = chs]) IN
       statuses' = [ch \in Channels |->
           CASE ch \in desired /\ ~Served(ch) -> "subscribing"
             [] ch \in Wanted \ desired       -> "idle"
             [] OTHER                         -> statuses[ch]]
    /\ Enqueue("caller")
    /\ UNCHANGED <<physical, op, timer, disposed, remote, doubt, stalled>>

\* release() keeps the phases of the channels that stay wanted.
Release(c) ==
    /\ ~disposed
    /\ used.changes < MaxChanges
    /\ used' = [used EXCEPT !.changes = @ + 1]
    /\ callers' = [callers EXCEPT ![c] = {}]
    /\ statuses' = [ch \in Channels |->
           IF ch \in Wanted \ Union([callers EXCEPT ![c] = {}]) THEN "idle" ELSE statuses[ch]]
    /\ Enqueue("caller")
    /\ UNCHANGED <<physical, op, timer, disposed, remote, doubt, stalled>>

\* clear(): the lock and a failed start of the mux release every caller.
Clear ==
    /\ ~disposed
    /\ used.changes < MaxChanges
    /\ used' = [used EXCEPT !.changes = @ + 1]
    /\ callers' = [c \in Callers |-> {}]
    /\ statuses' = [ch \in Channels |-> IF ch \in Wanted THEN "idle" ELSE statuses[ch]]
    /\ Enqueue("clear")
    /\ UNCHANGED <<physical, op, timer, disposed, remote, doubt, stalled>>

\* A page cancels its request: the operation it waits for is aborted.
CallerAborts ==
    /\ ~disposed
    /\ used.aborts < MaxAborts
    /\ used' = [used EXCEPT !.aborts = @ + 1]
    /\ \/ /\ op.kind = "caller" /\ op.aborted # "caller"
          /\ op' = [op EXCEPT !.aborted = "caller"]
          /\ UNCHANGED queue
       \/ /\ \E i \in DOMAIN queue :
                /\ queue[i].kind = "caller" /\ queue[i].aborted # "caller"
                /\ queue' = [queue EXCEPT ![i].aborted = "caller"]
          /\ UNCHANGED op
    /\ UNCHANGED <<callers, physical, statuses, timer, disposed, remote, doubt, stalled>>

Aborted(o) == IF o.kind # "none" /\ o.aborted = "no" THEN [o EXCEPT !.aborted = "mux"] ELSE o

\* cancelInFlight(): every operation enqueued so far is aborted.
CancelInFlight ==
    /\ ~disposed
    /\ used.aborts < MaxAborts
    /\ used' = [used EXCEPT !.aborts = @ + 1]
    /\ op' = Aborted(op)
    /\ queue' = [i \in DOMAIN queue |-> Aborted(queue[i])]
    /\ UNCHANGED <<callers, physical, statuses, timer, disposed, remote, doubt, stalled>>

Dispose ==
    /\ ~disposed
    /\ disposed' = TRUE
    /\ op' = Aborted(op)
    /\ queue' = [i \in DOMAIN queue |-> Aborted(queue[i])]
    /\ timer' = FALSE
    /\ callers' = [c \in Callers |-> {}]
    /\ physical' = {}
    /\ statuses' = [ch \in Channels |-> "idle"]
    /\ UNCHANGED <<remote, doubt, stalled, used>>

-----------------------------------------------------------------------------
(* The end of an operation, with the continuation of whoever waits for it. *)

Succeeds ==
    /\ op' = Nothing
    /\ timer' = FALSE
    /\ stalled' = FALSE

\* Mutant of Fails: an abort also ends the retries of the timer.
FailsLikeACaller(aborting) ==
    /\ op' = Nothing
    /\ timer' = (timer \/ (~disposed /\ ~aborting))
    /\ stalled' = (stalled \/ disposed \/ (op.kind # "retry" /\ aborting))

\* An error is retried; an abort is not, unless the timer had started the
\* operation.  Nothing is scheduled after dispose().
Fails(aborting) ==
    /\ op' = Nothing
    /\ LET retried == ~disposed /\ (op.kind = "retry" \/ ~aborting) IN
       /\ timer' = (timer \/ retried)
       /\ stalled' = (stalled \/ ~retried)

\* The operation goes on: the channels it has still to walk, and its call.
Goes(pc, todo, at) ==
    op' = [kind |-> op.kind, aborted |-> op.aborted, desired |-> op.desired, todo |-> todo, pc |-> pc, at |-> at]

\* The union is read when the operation's turn comes.
Begin ==
    /\ op = Nothing
    /\ queue # <<>>
    /\ queue' = Tail(queue)
    /\ op' = [kind |-> Head(queue).kind, aborted |-> Head(queue).aborted,
              desired |-> Wanted, todo |-> Wanted, pc |-> "subscribe", at |-> 0]
    /\ UNCHANGED <<callers, physical, statuses, timer, disposed, remote, doubt, stalled, used>>

\* Between two calls of the driver: an aborted operation ends, the next
\* channel that is not served is subscribed, then what nobody wanted when
\* the operation began is unsubscribed.
Interrupted ==
    /\ op.pc \in {"subscribe", "unsubscribe"}
    /\ op.aborted # "no"
    /\ Fails(TRUE)
    /\ UNCHANGED <<callers, physical, statuses, queue, disposed, remote, doubt, used>>

CallSubscribe ==
    LET missing == {ch \in op.todo : ~Served(ch)} IN
    /\ op.pc = "subscribe"
    /\ op.aborted = "no"
    /\ missing # {}
    /\ LET ch == First(missing) IN
       /\ Goes("subscribing", {d \in op.todo : d > ch}, ch)
       /\ statuses' = [statuses EXCEPT ![ch] = "subscribing"]
    /\ UNCHANGED <<callers, physical, queue, timer, disposed, remote, doubt, stalled, used>>

CallUnsubscribe ==
    LET extra == op.todo \ op.desired IN
    /\ op.pc = "unsubscribe"
    /\ op.aborted = "no"
    /\ extra # {}
    /\ Goes("unsubscribing", {d \in op.todo : d > First(extra)}, First(extra))
    /\ UNCHANGED <<callers, physical, statuses, queue, timer, disposed, remote, doubt, stalled, used>>

AllSubscribed ==
    /\ op.pc = "subscribe"
    /\ op.aborted = "no"
    /\ {ch \in op.todo : ~Served(ch)} = {}
    /\ Goes("unsubscribe", physical, 0)
    /\ UNCHANGED <<callers, physical, statuses, queue, timer, disposed, remote, doubt, stalled, used>>

Done ==
    /\ op.pc = "unsubscribe"
    /\ op.aborted = "no"
    /\ op.todo \subseteq op.desired
    /\ Succeeds
    /\ UNCHANGED <<callers, physical, statuses, queue, disposed, remote, doubt, used>>

-----------------------------------------------------------------------------
(* The driver answers.                                                     *)

Calling == op.pc \in {"subscribing", "unsubscribing"}
Reached == IF op.pc = "subscribing" THEN remote \union {op.at} ELSE remote \ {op.at}

\* Success, and nobody has aborted the operation meanwhile.
SubscribeReturns ==
    /\ op.pc = "subscribing"
    /\ op.aborted = "no"
    /\ remote' = Reached
    /\ doubt' = doubt \ {op.at}
    /\ physical' = physical \union {op.at}
    /\ statuses' = [statuses EXCEPT ![op.at] = "subscribed"]
    /\ Goes("subscribe", op.todo, 0)
    /\ UNCHANGED <<callers, queue, timer, disposed, stalled, used>>

\* Mutant of UnsubscribeReturns: the phase is left as it was.
UnsubscribeKeepsPhase ==
    /\ op.pc = "unsubscribing"
    /\ op.aborted = "no"
    /\ remote' = Reached
    /\ doubt' = doubt \ {op.at}
    /\ physical' = physical \ {op.at}
    /\ Goes("unsubscribe", op.todo, 0)
    /\ UNCHANGED <<callers, statuses, queue, timer, disposed, stalled, used>>

UnsubscribeReturns ==
    /\ op.pc = "unsubscribing"
    /\ op.aborted = "no"
    /\ remote' = Reached
    /\ doubt' = doubt \ {op.at}
    /\ physical' = physical \ {op.at}
    /\ statuses' = [statuses EXCEPT ![op.at] = "idle"]
    /\ Goes("unsubscribe", op.todo, 0)
    /\ UNCHANGED <<callers, queue, timer, disposed, stalled, used>>

\* The call fails; the supplier may have done it all the same.
DriverFails ==
    /\ Calling
    /\ op.aborted = "no"
    /\ used.failures < MaxFailures
    /\ used' = [used EXCEPT !.failures = @ + 1]
    /\ remote' \in {remote, Reached}
    /\ \E phase \in {"retrying", "blocked"} : statuses' = [statuses EXCEPT ![op.at] = phase]
    /\ Fails(FALSE)
    /\ UNCHANGED <<callers, physical, queue, disposed, doubt>>

\* The operation was aborted during the call: no phase changes.  An error
\* that is not an abort is still retried when only the mux was cancelled.
DriverAborted ==
    /\ Calling
    /\ op.aborted # "no"
    /\ remote' \in {remote, Reached}
    /\ doubt' = doubt \union {op.at}
    /\ \E aborting \in IF op.aborted = "mux" THEN BOOLEAN ELSE {TRUE} : Fails(aborting)
    /\ UNCHANGED <<callers, physical, statuses, queue, disposed, used>>

\* The timer of scheduleRetry.
RetryFires ==
    /\ timer
    /\ timer' = FALSE
    /\ Enqueue("retry")
    /\ UNCHANGED <<callers, physical, statuses, op, disposed, remote, doubt, stalled, used>>

-----------------------------------------------------------------------------
OperationStep ==
    \/ Begin \/ Interrupted \/ CallSubscribe \/ CallUnsubscribe \/ AllSubscribed \/ Done
    \/ SubscribeReturns \/ UnsubscribeReturns \/ DriverFails \/ DriverAborted

Next ==
    \/ \E c \in Callers, chs \in SUBSET Channels : Set(c, chs)
    \/ \E c \in Callers : Release(c)
    \/ Clear \/ CallerAborts \/ CancelInFlight \/ Dispose
    \/ OperationStep
    \/ RetryFires

Spec == Init /\ [][Next]_vars

\* The driver answers every call and the timer fires.
FairSpec == Spec /\ WF_vars(OperationStep) /\ WF_vars(RetryFires)

-----------------------------------------------------------------------------
Operations ==
    [kind : Kinds \union {"none"}, aborted : {"no", "caller", "mux"},
     desired : SUBSET Channels, todo : SUBSET Channels,
     pc : {"none", "subscribe", "subscribing", "unsubscribe", "unsubscribing"},
     at : Channels \union {0}]

MuxTypeOK ==
    /\ callers \in [Callers -> SUBSET Channels]
    /\ physical \subseteq Channels
    /\ statuses \in [Channels -> Phases]
    /\ queue \in Seq(Operations)
    /\ op \in Operations
    /\ timer \in BOOLEAN
    /\ disposed \in BOOLEAN
    /\ stalled \in BOOLEAN
    /\ remote \subseteq Channels
    /\ doubt \subseteq Channels

Quiet == op = Nothing /\ queue = <<>> /\ ~timer /\ ~disposed

\* A channel reported as subscribed is subscribed at the supplier, unless it
\* is being unsubscribed this moment or its last call was aborted: neither a
\* failed unsubscription nor a set that comes back during one leaves a
\* report that nothing stands behind.
SubscribedIsReal ==
    \A ch \in Channels :
        statuses[ch] = "subscribed" /\ ch \notin doubt /\ ~(op.pc = "unsubscribing" /\ op.at = ch)
            => ch \in remote

\* When nothing is under way and nothing is scheduled, the union of the
\* callers is served and nothing else is remembered as served, except after
\* an abort that no later operation has made good.
QuietIsServed ==
    Quiet /\ ~stalled =>
        /\ physical = Wanted
        /\ Wanted \ doubt \subseteq remote

\* Once callers, failures and aborts have ended, the mux comes to rest and
\* the supplier serves the union: retries neither stop early nor go on
\* for ever, and a disposed mux starts nothing.
Converges == <>[](disposed \/ stalled \/ (Quiet /\ physical = Wanted /\ Wanted \ doubt \subseteq remote))

\* A channel that comes back during or after its unsubscription is confirmed
\* at the supplier again (channelSubscriptionMux.ts:221-223).
\* The code does not keep this: README, section 3.
ReturningIsConfirmed ==
    \A ch \in Channels : Quiet /\ ~stalled /\ ch \in Wanted => ch \in remote
=============================================================================
