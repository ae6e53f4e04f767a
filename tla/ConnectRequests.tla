-------------------------- MODULE ConnectRequests --------------------------
(***************************************************************************)
(* The requests of an external application (ProtocolServiceImpl in         *)
(* protocolService.ts, one per connection; ApplicationConnectionHost owns  *)
(* the connections): a request is checked, confirmed by the user or        *)
(* authorised by a stored permission, queued and executed one at a time.   *)
(* A payment is claimed in a ledger shared by all connections, prepared,   *)
(* approved in the middle of its execution and submitted to the Worker.    *)
(*                                                                         *)
(* A step ends where the code awaits.  The connections belong to pages of  *)
(* their own, so each may end alone.  A connection is opened in an unlocked*)
(* wallet and ends when its page hears of a lock: the phases that wait for *)
(* an unlock are left out, and one that nothing was sent on before a lock  *)
(* stands for a connection of the next session.  "accepted" stands for     *)
(* "already_known" too.  Left out are the checks that a payment keeps its  *)
(* allocation and transaction (they are read from the row of the one       *)
(* claimant) and other writes to the partition, which make a claim retry.  *)
(* A request is a payment ("pay", payment.pay), or "sign" for identity.get,*)
(* intent.sign, cipher.encrypt and cipher.decrypt; payment.status is the   *)
(* Lookup of a payment asked for again.  The Worker's side of a payment is *)
(* P2pkhTransfers; here it is a row per submission.                        *)
(***************************************************************************)
EXTENDS Naturals, Sequences, FiniteSets

CONSTANTS
    Conns,          \* connections of one application
    Requests,       \* the requests it sends, each once
    ConnOf,         \* the connection a request is sent on
    Kind,           \* "pay" or "sign"
    KeyOf,          \* the clientRequestId of a payment
    Keys,
    Granted,        \* kinds the user may have permitted before
    Attended,       \* bound: requests the user answers or the application cancels
    Remembering,    \* requests whose confirmation may store the permission
    MaxTroubles,    \* bound: failures, revocations, ends of connections, pages, sessions
    None

ASSUME RequestsAssumption ==
    /\ ConnOf \in [Requests -> Conns]
    /\ Kind \in [Requests -> {"pay", "sign"}]
    /\ KeyOf \in [Requests -> Keys]
    /\ Granted \subseteq {"pay", "sign"}
    /\ Attended \subseteq Requests
    /\ Remembering \subseteq Requests
    /\ MaxTroubles \in Nat
    /\ None \notin Requests

VARIABLES
    conn,       \* [Conns -> "live", "stale": the lock is not yet known, "ended"]
    troubles,   \* failures and ends so far
    phase,      \* [Requests -> the phase of its record]
    at,         \* [Requests -> the await its handler or its execution is in]
    queue,      \* [Conns -> executionQueue]
    drain,      \* [Conns -> what drainExecutionQueue does]
    head,       \* [Conns -> the request it does it for]
    approval,   \* [Requests -> the promise a payment's execution waits on]
    remember,   \* [Requests -> a confirmation that stores the permission]
    perm,       \* kinds of request the application may make unasked
    status,     \* [Keys -> status of the payment record; "none": no record]
    claimant,   \* [Keys -> the request the record was claimed for]
    fresh,      \* no write to the partition since the claim read its revision
    tx,         \* [Requests -> the Worker's row of the submission]
    got,        \* [Requests -> the status an execution is about to record]
    posted,     \* submissions whose transaction was handed to the network
    carried,    \* requests carried out: signed, or submitted to the Worker
    refused     \* requests refused before they were queued or while confirmed

runVars == <<at, phase, drain, head, queue>>
payVars == <<status, claimant, fresh>>
workerVars == <<tx, posted>>
connVars == <<conn, troubles>>
vars == <<connVars, runVars, approval, remember, perm, payVars, workerVars, got, carried, refused>>

TerminalPhases == {"approved", "rejected", "failed", "timed_out"}
Phases == {"none", "accepting", "confirming", "queued", "executing"} \cup TerminalPhases
FinalStatuses == {"not_signed", "failed", "accepted"}
Statuses == {"none", "pending", "signed_not_dispatched", "unknown"} \cup FinalStatuses
RunSteps == {"act", "claim", "commit", "prepare", "plan", "approval", "submitting", "outcome",
             "caught", "lookup", "merge"}
RowStates == {"none", "prepared", "signing", "signed", "dispatching", "unknown",
              "accepted", "rejected", "cancelled"}

Init ==
    /\ conn = [c \in Conns |-> "live"]
    /\ troubles = 0
    /\ phase = [r \in Requests |-> "none"]
    /\ at = [r \in Requests |-> "off"]
    /\ queue = [c \in Conns |-> <<>>]
    /\ drain = [c \in Conns |-> "idle"]
    /\ head = [c \in Conns |-> None]
    /\ approval = [r \in Requests |-> "none"]
    /\ remember = [r \in Requests |-> "no"]
    /\ perm \in SUBSET Granted
    /\ status = [k \in Keys |-> "none"]
    /\ claimant = [k \in Keys |-> None]
    /\ fresh = [r \in Requests |-> FALSE]
    /\ tx = [r \in Requests |-> "none"]
    /\ got = [r \in Requests |-> "none"]
    /\ posted = {}
    /\ carried = {}
    /\ refused = {}

Live(r) == conn[ConnOf[r]] # "ended"
Trouble == troubles < MaxTroubles /\ troubles' = troubles + 1

\* Once a connection has ended, its failures are no trouble of their own.
Fault(c) == IF conn[c] = "ended" THEN UNCHANGED troubles ELSE Trouble

Alive(r) == phase[r] \notin TerminalPhases \cup {"none"}
Cancellable(r) == phase[r] \in {"accepting", "confirming", "queued"}

-----------------------------------------------------------------------------
(* The queue and its executor.                                             *)

\* The executor looks at the head of q, or stops.
Proceed(c, q) ==
    /\ queue' = [queue EXCEPT ![c] = q]
    /\ drain' = [drain EXCEPT ![c] = IF q = <<>> THEN "idle" ELSE "probe"]
    /\ head' = [head EXCEPT ![c] = IF q = <<>> THEN None ELSE Head(q)]

\* A pushed request is looked at at once unless the executor is busy.
Push(r) ==
    LET c == ConnOf[r]
        q == Append(queue[c], r)
    IN  /\ phase' = [phase EXCEPT ![r] = "queued"]
        /\ IF drain[c] = "idle" THEN Proceed(c, q)
           ELSE queue' = [queue EXCEPT ![c] = q] /\ UNCHANGED <<drain, head>>

\* filter() of a queue that holds a request at most once.
Without(q, r) ==
    LET i == CHOOSE i \in DOMAIN q : q[i] = r
    IN  IF \E j \in DOMAIN q : q[j] = r
        THEN [j \in 1 .. Len(q) - 1 |-> IF j < i THEN q[j] ELSE q[j + 1]]
        ELSE q

\* shift() drops whatever is at the head by now, and nothing of an empty queue.
Shifted(c) == IF queue[c] = <<>> THEN <<>> ELSE Tail(queue[c])

\* probeExecutionCondition answers.  The request it was asked for is executed
\* even when it was cancelled, and left the queue, in the meantime.  Its session
\* is checked once more before it acts: a failure of the act (RunFails).
ProbeExecutes(c) ==
    /\ drain[c] = "probe"
    /\ queue' = [queue EXCEPT ![c] = Shifted(c)]
    /\ drain' = [drain EXCEPT ![c] = "run"]
    /\ phase' = [phase EXCEPT ![head[c]] = "executing"]
    /\ at' = [at EXCEPT ![head[c]] = IF Kind[head[c]] = "pay" THEN "claim" ELSE "act"]
    /\ UNCHANGED <<connVars, head, approval, remember, perm, payVars, workerVars, got, carried, refused>>

\* The session is gone, revoked or cannot be read.
ProbeFails(c) ==
    /\ Fault(c)
    /\ drain[c] = "probe"
    /\ phase' = [phase EXCEPT ![head[c]] = "failed"]
    /\ at' = [at EXCEPT ![head[c]] = "done"]
    /\ Proceed(c, Shifted(c))
    /\ UNCHANGED <<conn, approval, remember, perm, payVars, workerVars, got, carried, refused>>

\* An execution ends: a record that is already closed keeps its phase, and the
\* executor goes on.
Finish(r, end) ==
    /\ at' = [at EXCEPT ![r] = "done"]
    /\ phase' = [phase EXCEPT ![r] = IF Alive(r) THEN end ELSE @]
    /\ Proceed(ConnOf[r], queue[ConnOf[r]])

Goes(r, step) ==
    /\ at' = [at EXCEPT ![r] = step]
    /\ UNCHANGED <<phase, drain, head, queue>>

-----------------------------------------------------------------------------
(* Connections and pages.                                                  *)

Of(c) == {r \in Requests : ConnOf[r] = c}

\* pause and endSession: every open request is rejected without an answer, a
\* payment's question is answered no.  An execution goes on by itself; a probe
\* leads nowhere, because the execution it ends in fails at once.
Pause(c) ==
    LET open == {r \in Of(c) : Alive(r)} IN
    /\ \/ conn[c] = "live" /\ Trouble
       \/ conn[c] = "stale" /\ UNCHANGED troubles
    /\ conn' = [conn EXCEPT ![c] = "ended"]
    /\ phase' = [r \in Requests |-> IF r \in open THEN "rejected" ELSE phase[r]]
    /\ approval' = [r \in Requests |->
           IF r \in open /\ approval[r] = "asked" THEN "no" ELSE approval[r]]
    /\ queue' = [queue EXCEPT ![c] = <<>>]
    /\ IF drain[c] = "probe"
       THEN drain' = [drain EXCEPT ![c] = "idle"] /\ head' = [head EXCEPT ![c] = None]
       ELSE UNCHANGED <<drain, head>>
    /\ UNCHANGED <<at, remember, perm, payVars, workerVars, got, carried, refused>>

\* The page is closed or crashes: what it was doing is never continued.
PageGone(c) ==
    /\ \/ conn[c] # "ended"
       \/ \E r \in Of(c) : at[r] \in RunSteps
    /\ Trouble
    /\ conn' = [conn EXCEPT ![c] = "ended"]
    /\ phase' = [r \in Requests |-> IF r \in Of(c) /\ Alive(r) THEN "rejected" ELSE phase[r]]
    /\ at' = [r \in Requests |-> IF r \in Of(c) THEN "done" ELSE at[r]]
    /\ queue' = [queue EXCEPT ![c] = <<>>]
    /\ drain' = [drain EXCEPT ![c] = "idle"]
    /\ head' = [head EXCEPT ![c] = None]
    /\ approval' = [r \in Requests |-> IF r \in Of(c) THEN "none" ELSE approval[r]]
    /\ remember' = [r \in Requests |-> IF r \in Of(c) THEN "no" ELSE remember[r]]
    /\ UNCHANGED <<perm, payVars, workerVars, got, carried, refused>>

-----------------------------------------------------------------------------
(* A request arrives and is decided on.                                    *)

Accept(r) ==
    /\ conn[ConnOf[r]] = "live"
    /\ phase[r] = "none" /\ at[r] = "off"
    /\ phase' = [phase EXCEPT ![r] = "accepting"]
    /\ at' = [at EXCEPT ![r] = "checking"]
    /\ UNCHANGED <<connVars, queue, drain, head, approval, remember, perm, payVars, workerVars, got,
                   carried, refused>>

\* A payment is confirmed later, by the frozen preview; the rest needs the
\* stored permission or a confirmation.
Unasked(r) == Kind[r] \in {"pay"} \cup perm

\* The session is valid: the request is queued or shown to the user, unless it
\* was refused while it was checked.
Checked(r) ==
    /\ at[r] = "checking"
    /\ at' = [at EXCEPT ![r] = "waiting"]
    /\ \/ /\ ~Alive(r)
          /\ UNCHANGED <<phase, queue, drain, head>>
       \/ /\ Alive(r) /\ Unasked(r)
          /\ Push(r)
       \/ /\ Alive(r) /\ ~Unasked(r)
          /\ phase' = [phase EXCEPT ![r] = "confirming"]
          /\ UNCHANGED <<queue, drain, head>>
    /\ UNCHANGED <<connVars, approval, remember, perm, payVars, workerVars, got, carried, refused>>

\* scheduleFailFastRequest closes the record whatever its phase is.
CheckFails(r) ==
    /\ Fault(ConnOf[r])
    /\ at[r] = "checking"
    /\ Live(r)
    /\ at' = [at EXCEPT ![r] = "waiting"]
    /\ phase' = [phase EXCEPT ![r] = "failed"]
    /\ UNCHANGED <<conn, queue, drain, head, approval, remember, perm, payVars, workerVars, got,
                   carried, refused>>

\* The end of confirmByUser: a payment that waits goes on, another request is
\* queued.
Approve(r) ==
    IF approval[r] = "asked"
    THEN /\ approval' = [approval EXCEPT ![r] = "yes"]
         /\ phase' = [phase EXCEPT ![r] = "executing"]
         /\ UNCHANGED <<queue, drain, head>>
    ELSE Push(r) /\ UNCHANGED approval

Confirm(r) ==
    /\ Live(r)
    /\ phase[r] = "confirming"
    /\ Approve(r)
    /\ UNCHANGED <<connVars, at, remember, perm, payVars, workerVars, got, carried, refused>>

\* "Remember": the permissions are read, then written, then the confirmation
\* is given; the phase is looked at again after each await.
ConfirmAndRemember(r) ==
    /\ Live(r)
    /\ phase[r] = "confirming"
    /\ r \in Remembering
    /\ remember[r] = "no"
    /\ remember' = [remember EXCEPT ![r] = "reading"]
    /\ UNCHANGED <<connVars, runVars, approval, perm, payVars, workerVars, got, carried, refused>>

RememberRead(r) ==
    /\ remember[r] = "reading"
    /\ IF phase[r] = "confirming"
       THEN remember' = [remember EXCEPT ![r] = "writing"]
       ELSE remember' = [remember EXCEPT ![r] = "no"]
    /\ UNCHANGED <<connVars, runVars, approval, perm, payVars, workerVars, got, carried, refused>>

\* Mutant of RememberWritten: the phase is not looked at after the write.
RememberWrittenBlindly(r) ==
    /\ remember[r] = "writing"
    /\ remember' = [remember EXCEPT ![r] = "no"]
    /\ perm' = perm \cup {Kind[r]}
    /\ Approve(r)
    /\ UNCHANGED <<connVars, at, payVars, workerVars, got, carried, refused>>

RememberWritten(r) ==
    /\ remember[r] = "writing"
    /\ remember' = [remember EXCEPT ![r] = "no"]
    /\ perm' = perm \cup {Kind[r]}
    /\ IF phase[r] = "confirming" THEN Approve(r)
       ELSE UNCHANGED <<approval, phase, queue, drain, head>>
    /\ UNCHANGED <<connVars, at, payVars, workerVars, got, carried, refused>>

Revoke(kind) ==
    /\ kind \in perm
    /\ Trouble
    /\ perm' = perm \ {kind}
    /\ UNCHANGED <<conn, runVars, approval, remember, payVars, workerVars, got, carried, refused>>

\* Mutant of Timeout: the execution that waits for the approval is not told.
TimeoutUntold(r) ==
    /\ Live(r)
    /\ phase[r] = "confirming"
    /\ phase' = [phase EXCEPT ![r] = "timed_out"]
    /\ refused' = refused \cup {r}
    /\ UNCHANGED <<connVars, at, queue, drain, head, approval, remember, perm, payVars, workerVars,
                   got, carried>>

\* The timer of a confirmation.
Timeout(r) ==
    /\ Live(r)
    /\ phase[r] = "confirming"
    /\ phase' = [phase EXCEPT ![r] = "timed_out"]
    /\ approval' = [approval EXCEPT ![r] = IF @ = "asked" THEN "no" ELSE @]
    /\ refused' = refused \cup {r}
    /\ UNCHANGED <<connVars, at, queue, drain, head, remember, perm, payVars, workerVars, got, carried>>

\* cancel of the application and rejectByUser of the user.
Cancel(r) ==
    LET c == ConnOf[r] IN
    /\ Live(r)
    /\ Cancellable(r)
    /\ queue' = IF phase[r] = "queued" THEN [queue EXCEPT ![c] = Without(queue[c], r)] ELSE queue
    /\ approval' = [approval EXCEPT ![r] = IF @ = "asked" THEN "no" ELSE @]
    /\ refused' = IF phase[r] = "queued" THEN refused ELSE refused \cup {r}
    /\ phase' = [phase EXCEPT ![r] = "rejected"]
    /\ UNCHANGED <<connVars, at, drain, head, remember, perm, payVars, workerVars, got, carried>>

-----------------------------------------------------------------------------
(* One execution (runRequest, executePaymentPay).                          *)

\* An error before the claim, in a lookup or in a signature; one of them is
\* that 64 payments are pending.
RunFails(r) ==
    /\ Fault(ConnOf[r])
    /\ at[r] \in {"act", "claim", "commit", "lookup", "merge"}
    /\ Finish(r, "failed")
    /\ UNCHANGED <<conn, approval, remember, perm, payVars, workerVars, got, carried, refused>>

Sign(r) ==
    /\ at[r] = "act"
    /\ carried' = carried \cup {r}
    /\ Finish(r, "approved")
    /\ UNCHANGED <<connVars, approval, remember, perm, payVars, workerVars, got, refused>>

\* A write to the partition: every claim that has read the revision is stale.
Written(k, s) ==
    /\ status' = [status EXCEPT ![k] = s]
    /\ fresh' = [r \in Requests |-> FALSE]

\* claimConnectPayment: the revision, then the record is read, to find the
\* payment claimed before.
ReadClaim(r) ==
    /\ at[r] = "claim"
    /\ IF status[KeyOf[r]] # "none"
       THEN Goes(r, "lookup") /\ UNCHANGED fresh
       ELSE Goes(r, "commit") /\ fresh' = [fresh EXCEPT ![r] = TRUE]
    /\ UNCHANGED <<connVars, approval, remember, perm, status, claimant, workerVars, got, carried,
                   refused>>

\* Mutant of CommitClaim: the revision is not a condition of the write.
CommitClaimAnyway(r) ==
    /\ at[r] = "commit"
    /\ Written(KeyOf[r], "pending")
    /\ claimant' = [claimant EXCEPT ![KeyOf[r]] = r]
    /\ Goes(r, "prepare")
    /\ UNCHANGED <<connVars, approval, remember, perm, workerVars, got, carried, refused>>

CommitClaim(r) ==
    /\ at[r] = "commit"
    /\ IF fresh[r]
       THEN /\ Written(KeyOf[r], "pending")
            /\ claimant' = [claimant EXCEPT ![KeyOf[r]] = r]
            /\ Goes(r, "prepare")
       ELSE Goes(r, "claim") /\ UNCHANGED payVars
    /\ UNCHANGED <<connVars, approval, remember, perm, workerVars, got, carried, refused>>

\* From the claim to the submit an error, an ended connection and a refusal
\* lead to the catch.
Caught(r, why) ==
    /\ Goes(r, "caught")
    /\ got' = [got EXCEPT ![r] = why]

PayFails(r) ==
    /\ Fault(ConnOf[r])
    /\ at[r] \in {"prepare", "plan"}
    /\ Caught(r, "not_signed")
    /\ UNCHANGED <<conn, approval, remember, perm, payVars, workerVars, carried, refused>>

\* The Worker freezes the plan and keeps its coins for it.
Prepare(r) ==
    /\ at[r] = "prepare"
    /\ conn[ConnOf[r]] = "live"
    /\ tx' = [tx EXCEPT ![r] = "prepared"]
    /\ Goes(r, "plan")
    /\ UNCHANGED <<connVars, approval, remember, perm, payVars, posted, got, carried, refused>>

Submit(r) ==
    /\ Goes(r, "submitting")
    /\ carried' = carried \cup {r}

\* The plan is stored and the stored permission read.  It decides, or the user
\* is asked while this execution occupies the executor.
StorePlan(r) ==
    /\ at[r] = "plan"
    /\ Live(r)
    /\ Written(KeyOf[r], status[KeyOf[r]])
    /\ IF "pay" \in perm
       THEN Submit(r) /\ UNCHANGED approval
       ELSE /\ at' = [at EXCEPT ![r] = "approval"]
            /\ phase' = [phase EXCEPT ![r] = "confirming"]
            /\ approval' = [approval EXCEPT ![r] = "asked"]
            /\ UNCHANGED <<queue, drain, head, carried>>
    /\ UNCHANGED <<connVars, remember, perm, claimant, workerVars, got, refused>>

Approved(r) ==
    /\ at[r] = "approval"
    /\ approval[r] = "yes" /\ Live(r)
    /\ approval' = [approval EXCEPT ![r] = "none"]
    /\ Submit(r)
    /\ UNCHANGED <<connVars, remember, perm, payVars, workerVars, got, refused>>

Refused(r) ==
    /\ at[r] = "approval"
    /\ \/ approval[r] = "no"
       \/ approval[r] = "yes" /\ ~Live(r)
    /\ approval' = [approval EXCEPT ![r] = "none"]
    /\ Caught(r, "not_signed")
    /\ UNCHANGED <<connVars, remember, perm, payVars, workerVars, carried, refused>>

\* The Worker's answer; anything but a result of the network is unknown.
SubmitAnswered(r) ==
    /\ at[r] = "submitting"
    /\ tx[r] \in {"unknown", "accepted", "rejected", "cancelled", "none"}
    /\ \/ tx[r] = "accepted" /\ got' = [got EXCEPT ![r] = "accepted"]
       \/ tx[r] = "rejected" /\ got' = [got EXCEPT ![r] = "failed"]
       \/ tx[r] # "accepted" /\ got' = [got EXCEPT ![r] = "unknown"]
    /\ Goes(r, "outcome")
    /\ UNCHANGED <<connVars, approval, remember, perm, payVars, workerVars, carried, refused>>

\* storeConnectPaymentRecord: read, merge, write on the revision read, and
\* again if it has moved: one step.  A status is replaced only by a later one.
Successors(s) ==
    CASE s = "pending"               -> {"signed_not_dispatched", "unknown"} \cup FinalStatuses
      [] s = "signed_not_dispatched" -> {"unknown", "failed", "accepted"}
      [] s = "unknown"               -> FinalStatuses
      [] OTHER                       -> {}

Store(k, s) ==
    /\ IF s \in Successors(status[k]) THEN Written(k, s) ELSE UNCHANGED <<status, fresh>>
    /\ UNCHANGED claimant

\* The outcome of a submit, or of the catch, is recorded, if the store allows,
\* and answered.
RecordOutcome(r) ==
    /\ at[r] \in {"outcome", "caught"}
    /\ \/ Store(KeyOf[r], got[r]) /\ UNCHANGED troubles
       \/ at[r] = "caught" /\ Fault(ConnOf[r]) /\ UNCHANGED payVars
    /\ got' = [got EXCEPT ![r] = "none"]
    /\ Finish(r, "approved")
    /\ UNCHANGED <<conn, approval, remember, perm, workerVars, carried, refused>>

\* The submit throws, or its outcome cannot be stored: the catch tries to
\* record "unknown".
OutcomeLost(r) ==
    /\ Fault(ConnOf[r])
    /\ at[r] \in {"submitting", "outcome"}
    /\ Caught(r, "unknown")
    /\ UNCHANGED <<conn, approval, remember, perm, payVars, workerVars, carried, refused>>

\* What the Worker says of a payment; a row that is gone says nothing.
RowStatus(state) ==
    CASE state = "prepared"              -> "pending"
      [] state = "cancelled"             -> "not_signed"
      [] state = "signed"                -> "signed_not_dispatched"
      [] state = "accepted"              -> "accepted"
      [] state = "rejected"              -> "failed"
      [] state = "none"                  -> "none"
      [] OTHER                           -> "unknown"

\* refreshConnectPaymentFromSubmission asks the Worker about an open payment.
Lookup(r) ==
    LET k == KeyOf[r]
        said == RowStatus(tx[claimant[k]])
    IN  /\ at[r] = "lookup"
        /\ Live(r)
        /\ IF status[k] \in FinalStatuses \/ said = "none"
           THEN Finish(r, "approved") /\ UNCHANGED got
           ELSE Goes(r, "merge") /\ got' = [got EXCEPT ![r] = said]
        /\ UNCHANGED <<connVars, approval, remember, perm, payVars, workerVars, carried, refused>>

RecordLookup(r) ==
    /\ at[r] = "merge"
    /\ Live(r)
    /\ Store(KeyOf[r], got[r])
    /\ got' = [got EXCEPT ![r] = "none"]
    /\ Finish(r, "approved")
    /\ UNCHANGED <<connVars, approval, remember, perm, workerVars, carried, refused>>

-----------------------------------------------------------------------------
(* The Worker's row of a submission.                                       *)

Becomes(r, state) ==
    /\ tx' = [tx EXCEPT ![r] = state]
    /\ UNCHANGED <<connVars, runVars, approval, remember, perm, payVars, got, carried, refused>>

\* The submit arrives; the signer answers or fails; the transaction is posted.
Processes(r) ==
    \/ tx[r] = "prepared" /\ r \in carried /\ Becomes(r, "signing") /\ UNCHANGED posted
    \/ /\ tx[r] = "signing"
       /\ Becomes(r, "signed") \/ Becomes(r, "rejected")
       /\ UNCHANGED posted
    \/ tx[r] = "signed" /\ Becomes(r, "dispatching") /\ posted' = posted \cup {r}
    \/ tx[r] = "signed" /\ Becomes(r, "rejected") /\ UNCHANGED posted
    \/ /\ tx[r] = "dispatching"
       /\ \E state \in {"accepted", "rejected", "unknown"} : Becomes(r, state)
       /\ UNCHANGED posted

\* The timer of a preview, and a later observation of the chain.
Expires(r) == tx[r] = "prepared" /\ Becomes(r, "cancelled") /\ UNCHANGED posted
Observed(r) == tx[r] = "unknown" /\ Becomes(r, "accepted") /\ UNCHANGED posted

\* The lock ends the Worker's session and with it every row; the pages hear of
\* it later.
Lock ==
    /\ Trouble
    /\ tx' = [r \in Requests |-> "none"]
    /\ conn' = [c \in Conns |->
           IF conn[c] = "live" /\ (\E r \in Of(c) : phase[r] # "none") THEN "stale" ELSE conn[c]]
    /\ UNCHANGED <<runVars, approval, remember, perm, payVars, posted, got, carried, refused>>

-----------------------------------------------------------------------------
Deciding(r) == Checked(r) \/ CheckFails(r) \/ RememberRead(r) \/ RememberWritten(r)

Executing(r) ==
    \/ RunFails(r) \/ Sign(r)
    \/ ReadClaim(r) \/ CommitClaim(r) \/ PayFails(r) \/ Prepare(r) \/ StorePlan(r)
    \/ Approved(r) \/ Refused(r)
    \/ SubmitAnswered(r) \/ RecordOutcome(r) \/ OutcomeLost(r)
    \/ Lookup(r) \/ RecordLookup(r)

Users(r) ==
    \/ Accept(r)
    \/ r \in Attended /\ (Confirm(r) \/ ConfirmAndRemember(r) \/ Cancel(r))

Probing(c) == ProbeExecutes(c) \/ ProbeFails(c)

\* What goes on without the users.
System ==
    \/ \E c \in Conns : Probing(c) \/ (conn[c] = "stale" /\ Pause(c))
    \/ \E r \in Requests : Deciding(r) \/ Timeout(r) \/ Executing(r) \/ Processes(r)

Next ==
    \/ System
    \/ \E r \in Requests : Users(r) \/ Expires(r) \/ Observed(r)
    \/ \E kind \in perm : Revoke(kind)
    \/ \E c \in Conns : Pause(c) \/ PageGone(c)
    \/ Lock

\* The calls a handler awaits are answered or fail, a confirmation has a timer
\* and the Worker brings a submission to an end (P2pkhTransfers!FundsSettle);
\* no step is ever repeated, so it is enough that not everything stops.  Nobody
\* has to confirm, to cancel or to stay connected.
Fairness == WF_vars(System)

Spec == Init /\ [][Next]_vars
LiveSpec == Spec /\ Fairness

-----------------------------------------------------------------------------
(* Properties.                                                             *)

ConnectTypeOK ==
    /\ conn \in [Conns -> {"live", "stale", "ended"}]
    /\ troubles \in 0 .. MaxTroubles
    /\ phase \in [Requests -> Phases]
    /\ at \in [Requests -> {"off", "checking", "waiting", "done"} \cup RunSteps]
    /\ queue \in [Conns -> Seq(Requests)]
    /\ drain \in [Conns -> {"idle", "probe", "run"}]
    /\ head \in [Conns -> Requests \cup {None}]
    /\ approval \in [Requests -> {"none", "asked", "yes", "no"}]
    /\ remember \in [Requests -> {"no", "reading", "writing"}]
    /\ perm \subseteq {"pay", "sign"}
    /\ status \in [Keys -> Statuses]
    /\ claimant \in [Keys -> Requests \cup {None}]
    /\ fresh \in [Requests -> BOOLEAN]
    /\ tx \in [Requests -> RowStates]
    /\ got \in [Requests -> Statuses]
    /\ posted \subseteq Requests /\ carried \subseteq Requests
    /\ refused \subseteq Requests

\* The record of a payment keeps the promise made to the application: one
\* claim, at most one transaction, a final status that is true and kept.
Posts == [k \in Keys |-> Cardinality({r \in posted : KeyOf[r] = k})]
Ledger == INSTANCE PaymentLedger WITH status <- status, posts <- Posts
PaymentsSpec == Ledger!LedgerSpec

\* What is refused while it is checked or confirmed, by the user, the
\* application or the timer, is not carried out, then or later: not by a
\* confirmation that was storing the permission, nor by the execution that
\* waited for the answer.
RefusalHolds == refused \cap carried = {}

\* The one executor of a connection is never occupied for good: not by a
\* confirmation nobody gives, nor by a connection that has ended.
RunsEnd == \A c \in Conns : []<>(drain[c] = "idle")

\* "rejected" is the end of a request, a cancelled one is not executed (refuted:
\* the executor looks at the head of the queue before it awaits the probe).
CancelHolds ==
    [][\A r \in Requests : phase[r] = "rejected" => phase'[r] # "executing"]_vars
=============================================================================
