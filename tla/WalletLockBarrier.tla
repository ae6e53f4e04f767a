-------------------------- MODULE WalletLockBarrier --------------------------
(***************************************************************************)
(* src/src/walletLockBarrier.ts: the barrier a global lock leaves behind.  *)
(* The lock itself is immediate; the barrier tracks the clean-up that      *)
(* follows: a fixed list of asynchronous operations in the Worker and one  *)
(* report from every page.  A wallet may be activated again only once the  *)
(* barrier has cleared (snapshot() is undefined, here phase = "none").     *)
(*                                                                         *)
(* JavaScript runs one job at a time, so an action here is one job: a      *)
(* call of a method, the firing of a timer, or the continuation of an      *)
(* awaited promise.  Only the order of the jobs is left open.              *)
(***************************************************************************)
EXTENDS Naturals

CONSTANTS
    Peers,       \* the pages (Window peers) that may take part
    Operations,  \* the clean-up operations handed to begin()
    MaxAttempt,  \* bound: how many attempts retry() may start
    MaxEpoch     \* bound: how many session epochs are generated

ASSUME BarrierAssumption ==
    /\ Operations # {}
    /\ MaxAttempt \in Nat
    /\ MaxEpoch \in Nat

VARIABLES
    participants,  \* registered peers
    windows,       \* Map peer -> "waiting" | "error"; a settled peer is absent
    ops,           \* per operation: stage of its promise, done, error
    attempt,       \* number of the current attempt
    epoch,         \* the session epoch begin() was called with
    phase,         \* state: "none" | "pending" | "failed"
    timer,         \* is the time-out of the current attempt armed
    reported,      \* per page: the last attempt it reported on its own
    reports        \* "settled" reports in flight to the Worker

barrierVars ==
    <<participants, windows, ops, attempt, epoch, phase, timer, reported, reports>>

Epochs == 0 .. MaxEpoch
Attempts == 0 .. MaxAttempt
WindowStates == {"waiting", "error"}
Phases == {"none", "pending", "failed"}

\* stage is the life of operation.pending: no promise, waiting for its
\* setTimeout(0), or running.
OperationStates ==
    [stage : {"none", "scheduled", "running"}, done : BOOLEAN, error : BOOLEAN]
Reports == [peer : Peers, epoch : Epochs, attempt : Attempts, ok : BOOLEAN]

Restricted(f, S) == [p \in S |-> f[p]]

BarrierInit ==
    /\ participants = {}
    /\ windows = [p \in {} |-> "waiting"]
    /\ ops = [o \in Operations |-> [stage |-> "none", done |-> TRUE, error |-> FALSE]]
    /\ attempt = 0
    /\ epoch = 0
    /\ phase = "none"
    /\ timer = FALSE
    /\ reported = [p \in Peers |-> 0]
    /\ reports = {}

-----------------------------------------------------------------------------
\* commit(): the phase the operations o and the windows w amount to.
HasError(o, w) ==
    \/ \E op \in Operations : o[op].error
    \/ \E p \in DOMAIN w : w[p] = "error"

Waiting(o, w) ==
    \/ \E op \in Operations : ~o[op].done
    \/ DOMAIN w # {}

\* Mutant: a cleared barrier gets a phase of its own instead of none.
JudgedWithoutNone(o, w) ==
    IF HasError(o, w) THEN "failed" ELSE IF Waiting(o, w) THEN "pending" ELSE "done"

Judged(o, w) ==
    IF HasError(o, w) THEN "failed" ELSE IF Waiting(o, w) THEN "pending" ELSE "none"

\* Installs o and w and re-evaluates the phase; a cleared barrier disarms the
\* timer and commit() on a clear barrier does nothing.
Commit(o, w, armed) ==
    /\ ops' = o
    /\ windows' = w
    /\ phase' = IF phase = "none" THEN "none" ELSE Judged(o, w)
    /\ timer' = (armed /\ phase' # "none")

\* this.running: the newest attempt is still awaiting some operation.
Running == \E op \in Operations : ops[op].stage # "none"

\* performGlobalLock() reaches begin() only on a clear barrier, retry()
\* otherwise, and does nothing while an attempt runs that has not failed.
CanBegin == phase = "none"
\* Mutant: the inverted condition, a failed attempt is not retried.
CanRetryUnlessFailed == phase = "pending" /\ ~Running
CanRetry == phase = "failed" \/ (phase = "pending" /\ ~Running)

\* Mutant: `=` instead of `??=`, every unfinished operation is started afresh.
StartAttemptAfresh(o) ==
    /\ attempt < MaxAttempt
    /\ attempt' = attempt + 1
    /\ windows' = [p \in participants |-> "waiting"]
    /\ ops' = [op \in Operations |->
                 [stage |-> IF o[op].done THEN "none" ELSE "scheduled",
                  done |-> o[op].done,
                  error |-> FALSE]]
    /\ phase' = "pending"
    /\ timer' = TRUE
    /\ UNCHANGED <<participants, reported, reports>>

\* retry(): every participant is waited for again, errors are forgotten, an
\* operation that is done stays done and one still in flight keeps its promise.
StartAttempt(o) ==
    /\ attempt < MaxAttempt
    /\ attempt' = attempt + 1
    /\ windows' = [p \in participants |-> "waiting"]
    /\ ops' = [op \in Operations |->
                 [stage |-> IF ~o[op].done /\ o[op].stage = "none"
                              THEN "scheduled" ELSE o[op].stage,
                  done |-> o[op].done,
                  error |-> FALSE]]
    /\ phase' = "pending"
    /\ timer' = TRUE
    /\ UNCHANGED <<participants, reported, reports>>

FreshOperations ==
    [op \in Operations |-> [stage |-> "none", done |-> FALSE, error |-> FALSE]]

Begin(e) ==
    /\ CanBegin
    /\ epoch' = e
    /\ StartAttempt(FreshOperations)

Retry ==
    /\ CanRetry
    /\ StartAttempt(ops)
    /\ UNCHANGED epoch

\* The setTimeout(0) before operation.run() has elapsed.
StartOperation(op) ==
    /\ ops[op].stage = "scheduled"
    /\ ops' = [ops EXCEPT ![op].stage = "running"]
    /\ UNCHANGED <<participants, windows, attempt, epoch, phase, timer, reported, reports>>

\* Mutant: the rejection is swallowed without an error or a promise.
StartFailsSilently(op) ==
    /\ ops[op].stage = "scheduled"
    /\ Commit([ops EXCEPT ![op] = [stage |-> "none", done |-> FALSE, error |-> FALSE]],
              windows, timer)
    /\ UNCHANGED <<participants, attempt, epoch, reported, reports>>

\* run() rejects in the very job that started it.
StartFails(op) ==
    /\ ops[op].stage = "scheduled"
    /\ Commit([ops EXCEPT ![op] = [stage |-> "none", done |-> FALSE, error |-> TRUE]],
              windows, timer)
    /\ UNCHANGED <<participants, attempt, epoch, reported, reports>>

\* operation.run() settles.  Success is final; a failure forgets the promise
\* so that the next attempt runs the operation again.
FinishOperation(op, ok) ==
    /\ ops[op].stage = "running"
    /\ Commit([ops EXCEPT ![op] = [stage |-> "none", done |-> ok, error |-> ~ok]],
              windows, timer)
    /\ UNCHANGED <<participants, attempt, epoch, reported, reports>>

\* The time-out marks whatever is unsettled as failed; the promises run on.
Timeout ==
    /\ timer
    /\ Commit([op \in Operations |->
                 [ops[op] EXCEPT !.error = ops[op].error \/ ~ops[op].done]],
              [p \in DOMAIN windows |-> "error"],
              FALSE)
    /\ UNCHANGED <<participants, attempt, epoch, reported, reports>>

Register(p) ==
    /\ p \notin participants
    /\ participants' = participants \cup {p}
    /\ IF phase # "none" /\ p \notin DOMAIN windows
         THEN Commit(ops,
                     [q \in DOMAIN windows \cup {p} |->
                        IF q = p THEN "waiting" ELSE windows[q]],
                     timer)
         ELSE UNCHANGED <<ops, windows, phase, timer>>
    /\ UNCHANGED <<attempt, epoch, reported, reports>>

\* Mutants: the fenced page stays waited for; the phase is not re-evaluated.
RemoveParticipantOnly(p) ==
    /\ p \in participants
    /\ participants' = participants \ {p}
    /\ Commit(ops, windows, timer)
    /\ reported' = [reported EXCEPT ![p] = 0]
    /\ reports' = {r \in reports : r.peer # p}
    /\ UNCHANGED <<attempt, epoch>>

RemoveWithoutCommit(p) ==
    /\ p \in participants
    /\ participants' = participants \ {p}
    /\ windows' = Restricted(windows, DOMAIN windows \ {p})
    /\ reported' = [reported EXCEPT ![p] = 0]
    /\ reports' = {r \in reports : r.peer # p}
    /\ UNCHANGED <<attempt, epoch, ops, phase, timer>>

\* The peer was fenced: its requests are refused from here on, so the reports
\* it had in flight are gone too.
Remove(p) ==
    /\ p \in participants
    /\ participants' = participants \ {p}
    /\ Commit(ops, Restricted(windows, DOMAIN windows \ {p}), timer)
    /\ reported' = [reported EXCEPT ![p] = 0]
    /\ reports' = {r \in reports : r.peer # p}
    /\ UNCHANGED <<attempt, epoch>>

\* reportWindowLockCleanup: once per attempt, when a page sees it pending.  The
\* page passes on the session epoch e it was told together with the attempt.  (It
\* answers again when it is told a newer epoch; report() drops that answer.)
SettlePage(p, e, ok) ==
    /\ p \in participants
    /\ phase = "pending"
    /\ reported[p] # attempt
    /\ reported' = [reported EXCEPT ![p] = attempt]
    /\ reports' = reports \cup {[peer |-> p, epoch |-> e, attempt |-> attempt, ok |-> ok]}
    /\ UNCHANGED <<participants, windows, ops, attempt, epoch, phase, timer>>

\* watchWindowCleanupFailures: a page reports a late failure at any time.
ReportPageFailure(p, e) ==
    /\ p \in participants
    /\ phase # "none"
    /\ reports' = reports \cup {[peer |-> p, epoch |-> e, attempt |-> attempt, ok |-> FALSE]}
    /\ UNCHANGED <<participants, windows, ops, attempt, epoch, phase, timer, reported>>

\* Mutant: the attempt is not compared.
AcceptedAnyAttempt(r) == r.epoch = epoch /\ r.peer \in DOMAIN windows

\* report(): a report of another epoch, another attempt or a peer that is not
\* (or no longer) waited for is dropped.
Accepted(r) ==
    /\ r.epoch = epoch
    /\ r.attempt = attempt
    /\ r.peer \in DOMAIN windows

DeliverReport(r) ==
    /\ r \in reports
    /\ reports' = reports \ {r}
    /\ IF Accepted(r)
         THEN Commit(ops,
                     IF r.ok THEN Restricted(windows, DOMAIN windows \ {r.peer})
                             ELSE [windows EXCEPT ![r.peer] = "error"],
                     timer)
         ELSE UNCHANGED <<ops, windows, phase, timer>>
    /\ UNCHANGED <<participants, attempt, epoch, reported>>

-----------------------------------------------------------------------------
\* The jobs of the Worker and the pages; a lock request is what begins them.
CleanupStep(e) ==
    \/ \E op \in Operations : StartOperation(op) \/ StartFails(op)
    \/ \E op \in Operations, ok \in BOOLEAN : FinishOperation(op, ok)
    \/ Timeout
    \/ \E p \in Peers : Register(p) \/ Remove(p)
    \/ \E p \in Peers, ok \in BOOLEAN : SettlePage(p, e, ok)
    \/ \E p \in Peers : ReportPageFailure(p, e)
    \/ \E r \in reports : DeliverReport(r)

\* A lock begins under a new epoch; the pages answer under any epoch they were told.
BarrierNext ==
    \/ \E e \in Epochs : e > epoch /\ Begin(e)
    \/ Retry
    \/ \E e \in Epochs : CleanupStep(e)

BarrierSpec == BarrierInit /\ [][BarrierNext]_barrierVars

-----------------------------------------------------------------------------
BarrierTypeOK ==
    /\ participants \in SUBSET Peers
    /\ DOMAIN windows \in SUBSET Peers
    /\ windows \in [DOMAIN windows -> WindowStates]
    /\ ops \in [Operations -> OperationStates]
    /\ attempt \in Attempts
    /\ epoch \in Epochs
    /\ phase \in Phases
    /\ timer \in BOOLEAN
    /\ reported \in [Peers -> Attempts]
    /\ reports \in SUBSET Reports

\* An operation whose clean-up succeeded has no promise and no error left, and
\* one that has not succeeded is in flight or has failed: none is ever lost.
Consistent(op) ==
    IF op.done THEN op.stage = "none" /\ ~op.error ELSE op.stage # "none" \/ op.error

OperationsConsistent == \A op \in Operations : Consistent(ops[op])

\* The phase the pages are shown is what the operations and windows amount to
\* (commit() runs wherever either changes), so "none" really means clean.
PhaseIsJudged == phase = Judged(ops, windows)

\* Nothing of a lock outlives the barrier: when it opens the gate, no page is
\* waited for, every operation succeeded and no time-out can fire later.
ClearMeansClean ==
    phase = "none" =>
        /\ DOMAIN windows = {}
        /\ \A op \in Operations : ops[op].done /\ ops[op].stage = "none"
        /\ ~timer

\* Only registered peers are waited for: a fenced page cannot hold the lock.
WaitsForParticipants == DOMAIN windows \subseteq participants

\* A page the open barrier no longer waits for has answered the CURRENT attempt:
\* no report left over from an earlier attempt, or an earlier lock, settles it.
SettledPagesAnswered ==
    phase # "none" =>
        \A p \in participants \ DOMAIN windows : reported[p] = attempt

\* "Only a step that clearly failed is executed again": an operation still
\* running is never started a second time, and one that succeeded never again
\* within the same lock.
DoneOnce ==
    \A op \in Operations :
        /\ ops[op].stage = "running" => ops'[op].stage # "scheduled"
        /\ (ops[op].done /\ epoch' = epoch) => ops'[op].done
NoOverlappingCleanup == [][DoneOnce]_barrierVars

\* A report in flight is of an attempt that was started, and one that reports
\* success of the current attempt is its page's own answer to it.
ReportsAnswerAttempts ==
    \A r \in reports :
        /\ r.attempt <= attempt
        /\ (r.ok /\ r.attempt = attempt) => reported[r.peer] = attempt

BarrierInv ==
    /\ BarrierTypeOK
    /\ OperationsConsistent
    /\ PhaseIsJudged
    /\ ClearMeansClean
    /\ WaitsForParticipants
    /\ SettledPagesAnswered
    /\ ReportsAnswerAttempts
=============================================================================
