---------------------------- MODULE WalletSession ----------------------------
(***************************************************************************)
(* The wallet session of the Coordinator Worker around the lock barrier:   *)
(* performGlobalLock, completeUnlockedBinding and establishWalletSession   *)
(* (src/src/assembly/coordinatorWorker.ts), and the unlock and password    *)
(* change of plugin-vault that they interleave with.                       *)
(*                                                                         *)
(* Unlock and password change run in the Coordinator's serial request      *)
(* queue, one at a time, and are modelled step by step between their       *)
(* awaits; the lock runs in parallel and may fall between any two of them. *)
(***************************************************************************)
EXTENDS WalletLockBarrier

VARIABLES
    vaultStatus,        \* coordinatorState.vaultStatus
    sessionEpoch,       \* coordinatorState.sessionEpoch
    owner,              \* is coordinatorState.activePublicKeyHex set
    key,                \* does the Worker hold the private key
    revocationPending,  \* lockRevocationPending
    tasksBlocked,       \* are the background tasks blocked
    request,            \* the vault request at the head of the serial queue
    announced           \* the session epoch in which the current attempt started

sessionVars ==
    <<vaultStatus, sessionEpoch, owner, key, revocationPending, tasksBlocked, request,
      announced>>
vars == <<barrierVars, sessionVars>>

Steps == {"idle",
          "starting",      \* unlock: reading the cold-start state
          "decrypting",    \* unlock: epoch captured, key.json being decrypted
          "binding",       \* unlock: session established, runtime being bound
          "failing",       \* unlock: waiting for the lock its failure caused
          "rewriting"}     \* changePassword: draining I/O, rewriting key.json
Request == [step : Steps, epoch : Epochs]
NoRequest == [step |-> "idle", epoch |-> 0]

SessionInit ==
    /\ BarrierInit
    /\ vaultStatus = "locked"
    /\ sessionEpoch = 0
    /\ owner = FALSE
    /\ key = FALSE
    /\ revocationPending = FALSE
    /\ tasksBlocked = TRUE
    /\ request = NoRequest
    /\ announced = 0

\* generateEpoch(): an epoch never used before, capped by MaxEpoch.
CanRotate == sessionEpoch < MaxEpoch

-----------------------------------------------------------------------------
\* performGlobalLock(): a first call commits the lock at once and begins the
\* clean-up; on an open barrier it retries, or joins the attempt that runs.
CommitLockKeepingEpoch ==  \* Mutant: the session keeps its epoch.
    /\ CanRotate
    /\ UNCHANGED sessionEpoch
    /\ Begin(sessionEpoch + 1)
    /\ vaultStatus' = "locked"
    /\ owner' = FALSE
    /\ key' = FALSE
    /\ announced' = sessionEpoch'
    /\ revocationPending' = TRUE

CommitLock ==
    /\ CanRotate
    /\ sessionEpoch' = sessionEpoch + 1
    /\ Begin(sessionEpoch + 1)
    /\ vaultStatus' = "locked"
    /\ owner' = FALSE
    /\ key' = FALSE
    /\ announced' = sessionEpoch'
    /\ revocationPending' = TRUE

LockSession == <<vaultStatus, sessionEpoch, owner, key, revocationPending>>

PerformGlobalLock ==
    \/ CommitLock
    \/ Retry /\ announced' = sessionEpoch /\ UNCHANGED LockSession
    \/ ~CanBegin /\ ~CanRetry /\ UNCHANGED <<barrierVars, LockSession, announced>>

\* A lock request, the auto-lock timer or a storage-control lock.
Lock ==
    /\ PerformGlobalLock
    /\ UNCHANGED <<tasksBlocked, request>>

\* Every operation first awaits the one revocation of the lock; if that throws,
\* the operation fails and the next one tries the revocation again.
RunOperation(op) ==
    /\ StartOperation(op)
    /\ \/ ~revocationPending /\ UNCHANGED <<revocationPending, tasksBlocked>>
       \/ revocationPending /\ revocationPending' = FALSE /\ tasksBlocked' = TRUE
    /\ UNCHANGED <<vaultStatus, sessionEpoch, owner, key, request, announced>>

\* The revocation threw, after the tasks were blocked.
RevokeFails(op) ==
    /\ revocationPending
    /\ StartFails(op)
    /\ tasksBlocked' = TRUE
    /\ UNCHANGED <<vaultStatus, sessionEpoch, owner, key, revocationPending, request,
                   announced>>

BarrierOnly(A) == A /\ UNCHANGED sessionVars

\* The session epochs a page may have been told together with the attempt: every
\* event of the attempt carries the epoch of the moment it was published in.
Told == announced .. sessionEpoch

-----------------------------------------------------------------------------
\* handleUnlockUnsafe: refused while the barrier is open.
UnlockStart ==
    /\ request.step = "idle"
    /\ vaultStatus = "locked"
    /\ phase = "none"
    /\ request' = [request EXCEPT !.step = "starting"]
    /\ UNCHANGED <<barrierVars, vaultStatus, sessionEpoch, owner, key,
                   revocationPending, tasksBlocked, announced>>

\* WalletLifecycleService.unlock captures the epoch, then decrypts.
UnlockDecrypt ==
    /\ request.step = "starting"
    /\ request' = [step |-> "decrypting", epoch |-> sessionEpoch]
    /\ UNCHANGED <<barrierVars, vaultStatus, sessionEpoch, owner, key,
                   revocationPending, tasksBlocked, announced>>

\* Wrong password, a lock in between, or an open barrier: nothing changes.
UnlockRefused ==
    /\ request.step \in {"starting", "decrypting"}
    /\ request' = NoRequest
    /\ UNCHANGED <<barrierVars, vaultStatus, sessionEpoch, owner, key,
                   revocationPending, tasksBlocked, announced>>

\* The epoch is compared, establishWalletSession and adoptUnlockedKey insist
\* that the barrier is clear, and both commit in the same job.
UnlockAllowedIgnoringBarrier == sessionEpoch = request.epoch  \* Mutant
UnlockAllowedIgnoringEpoch == phase = "none"                  \* Mutant
UnlockAllowed == sessionEpoch = request.epoch /\ phase = "none"

UnlockCommit ==
    /\ request.step = "decrypting"
    /\ UnlockAllowed
    /\ CanRotate
    /\ sessionEpoch' = sessionEpoch + 1
    /\ vaultStatus' = "unlocked"
    /\ owner' = TRUE
    /\ key' = TRUE
    /\ request' = [step |-> "binding", epoch |-> sessionEpoch + 1]
    /\ UNCHANGED <<barrierVars, revocationPending, tasksBlocked, announced>>

\* Mutant: the session is not looked at again after the awaits.
BindingUnchecked == TRUE

\* completeUnlockedBinding, last check before the tasks resume.
BindingIntact == sessionEpoch = request.epoch /\ vaultStatus = "unlocked"

BindingComplete ==
    /\ request.step = "binding"
    /\ BindingIntact
    /\ tasksBlocked' = FALSE
    /\ request' = NoRequest
    /\ UNCHANGED <<barrierVars, vaultStatus, sessionEpoch, owner, key, revocationPending,
                   announced>>

\* A step of the binding threw, or the session moved on: fail closed.
BindingFailed ==
    /\ request.step = "binding"
    /\ PerformGlobalLock
    /\ request' = [request EXCEPT !.step = "failing"]
    /\ UNCHANGED tasksBlocked

\* The awaited lock promise settles with the operations of its attempt.
UnlockFailedKept ==  \* Mutant: the request is marked instead of released.
    /\ request.step = "failing"
    /\ ~Running
    /\ request' = [request EXCEPT !.step = "failed"]
    /\ UNCHANGED <<barrierVars, vaultStatus, sessionEpoch, owner, key,
                   revocationPending, tasksBlocked, announced>>

UnlockFailed ==
    /\ request.step = "failing"
    /\ ~Running
    /\ request' = NoRequest
    /\ UNCHANGED <<barrierVars, vaultStatus, sessionEpoch, owner, key,
                   revocationPending, tasksBlocked, announced>>

-----------------------------------------------------------------------------
\* vault.operation changePassword: beforePasswordChange rotates the epoch
\* (revokeStorageBindingAndDrain), then drains the old I/O.  Nothing on the way
\* looks at the lock: the request is refused neither in a locked session nor under
\* an open barrier, and a lock may fall into the awaits before the rotation.
ChangePasswordStart ==
    /\ request.step = "idle"
    /\ CanRotate
    /\ sessionEpoch' = sessionEpoch + 1
    /\ request' = [request EXCEPT !.step = "rewriting"]
    /\ UNCHANGED <<barrierVars, vaultStatus, owner, key, revocationPending, tasksBlocked,
                   announced>>

\* Mutant: establishWalletSession does not look at the barrier.
ChangePasswordThroughBarrier ==
    /\ request.step = "rewriting"
    /\ CanRotate
    /\ sessionEpoch' = sessionEpoch + 1
    /\ owner' = TRUE
    /\ request' = NoRequest
    /\ UNCHANGED <<barrierVars, vaultStatus, key, revocationPending, tasksBlocked, announced>>

\* key.json is rewritten: a session is established again, without comparing the
\* epoch with the one the request began in.
ChangePasswordCommit ==
    /\ request.step = "rewriting"
    /\ phase = "none"
    /\ CanRotate
    /\ sessionEpoch' = sessionEpoch + 1
    /\ owner' = TRUE
    /\ request' = NoRequest
    /\ UNCHANGED <<barrierVars, vaultStatus, key, revocationPending, tasksBlocked, announced>>

\* The old password was wrong, the drain or the write failed, or
\* establishWalletSession found the barrier open.
ChangePasswordFails ==
    /\ request.step = "rewriting"
    /\ request' = NoRequest
    /\ UNCHANGED <<barrierVars, vaultStatus, sessionEpoch, owner, key,
                   revocationPending, tasksBlocked, announced>>

-----------------------------------------------------------------------------
SessionNext ==
    \/ Lock
    \/ \E op \in Operations : RunOperation(op) \/ RevokeFails(op)
    \/ \E op \in Operations, ok \in BOOLEAN : BarrierOnly(FinishOperation(op, ok))
    \/ BarrierOnly(Timeout)
    \/ \E p \in Peers : BarrierOnly(Register(p)) \/ BarrierOnly(Remove(p))
    \/ \E p \in Peers, e \in Told, ok \in BOOLEAN : BarrierOnly(SettlePage(p, e, ok))
    \/ \E p \in Peers, e \in Told : BarrierOnly(ReportPageFailure(p, e))
    \/ \E r \in reports : BarrierOnly(DeliverReport(r))
    \/ UnlockStart \/ UnlockDecrypt \/ UnlockRefused \/ UnlockCommit
    \/ BindingComplete \/ BindingFailed \/ UnlockFailed
    \/ ChangePasswordStart \/ ChangePasswordCommit \/ ChangePasswordFails

SessionSpec == SessionInit /\ [][SessionNext]_vars

\* The Worker's timers fire, its operations settle, and pages answer and their
\* messages arrive; nothing is assumed of the user's locks, unlocks and password
\* changes but that a failed clean-up is tried again.
SessionFairness ==
    /\ \A op \in Operations :
         /\ WF_vars(RunOperation(op) \/ RevokeFails(op))
         /\ WF_vars(\E ok \in BOOLEAN : BarrierOnly(FinishOperation(op, ok)))
    /\ WF_vars(BarrierOnly(Timeout))
    /\ WF_vars(phase = "failed" /\ Lock)
    /\ \A p \in Peers :
         /\ WF_vars(\E e \in Told, ok \in BOOLEAN : BarrierOnly(SettlePage(p, e, ok)))
         /\ WF_vars(\E r \in reports : r.peer = p /\ BarrierOnly(DeliverReport(r)))

FairSessionSpec == SessionSpec /\ SessionFairness

-----------------------------------------------------------------------------
SessionTypeOK ==
    /\ vaultStatus \in {"locked", "unlocked"}
    /\ sessionEpoch \in Epochs
    /\ owner \in BOOLEAN
    /\ key \in BOOLEAN
    /\ revocationPending \in BOOLEAN
    /\ tasksBlocked \in BOOLEAN
    /\ request \in Request
    /\ announced \in Epochs

\* The wallet is open, with its key in memory, exactly when it is unlocked, and
\* never while the clean-up of an earlier lock is still under way.
UnlockedOnlyWhenClean ==
    /\ key <=> vaultStatus = "unlocked"
    /\ key => phase = "none" /\ ~revocationPending /\ owner

\* Once its grants are revoked, a locked wallet runs no background task, whatever
\* request was being served when the lock came.
LockedTasksBlocked == (vaultStatus = "locked" /\ ~revocationPending) => tasksBlocked

\* The gate never opens on a lock whose grants were not revoked.
ClearMeansRevoked == phase = "none" => ~revocationPending

\* Until the grants are revoked no clean-up operation runs or has succeeded.
RevocationFirst ==
    revocationPending =>
        \A op \in Operations : ~ops[op].done /\ ops[op].stage # "running"

\* The last lock's epoch, the one its current attempt was announced under and the
\* session's follow each other.
EpochsOrdered == epoch <= announced /\ announced <= sessionEpoch

SessionInv ==
    /\ BarrierInv
    /\ SessionTypeOK
    /\ UnlockedOnlyWhenClean
    /\ LockedTasksBlocked
    /\ ClearMeansRevoked
    /\ RevocationFirst
    /\ EpochsOrdered

\* A lock is not undone by an unlock that was already being served when it
\* came, even if its clean-up ended before the password was decrypted: the last
\* lock (the barrier's epoch) is not newer than the epoch the unlock captured.
NoUnlockAcrossLock ==
    [][(vaultStatus = "locked" /\ vaultStatus' = "unlocked") =>
         epoch <= request.epoch]_vars

\* Until the clean-up of a lock ends, the epoch the barrier accepts reports for is
\* the one the pages report under: storage control refuses a password change, which
\* rotates the epoch, while a clean-up is pending (workerControl.ts:83).
\* The code does not keep this: README, section 3.
BarrierEpochIsCurrent == phase # "none" => epoch = sessionEpoch

\* The clean-up of a lock ends: the barrier clears, or the last attempt that the
\* bound allows has failed.  No attempt, the last one included, waits for ever.
\* It needs pages that eventually stop leaving (once the time-out has fired it is not
\* armed again, and pages that come and go in turn can then keep it pending) and
\* that no password change rotates the epoch under the open barrier.
PagesStay == <>[][participants \subseteq participants']_vars
CleanupEnds ==
    PagesStay /\ []BarrierEpochIsCurrent =>
        (phase # "none" ~> (phase = "none" \/ (phase = "failed" /\ attempt = MaxAttempt)))

\* "Lock: revoke the grants, then clear the in-memory identity": a locked wallet
\* has no active key identity.
\* The code does not keep this: README, section 3.
LockedHasNoIdentity == vaultStatus = "locked" => ~owner

\* "Changing the password locks the wallet immediately."
\* The code does not keep this: README, section 3.
ChangePasswordLocks ==
    [][(request.step = "rewriting" /\ owner' /\ sessionEpoch' # sessionEpoch) =>
         vaultStatus' = "locked"]_vars
=============================================================================
