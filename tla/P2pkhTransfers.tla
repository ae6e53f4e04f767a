--------------------------- MODULE P2pkhTransfers ---------------------------
(***************************************************************************)
(* Spending the wallet's coins in one unlocked session: the allocation     *)
(* pool (p2pkhUtxoManager.ts), the runtime of the transaction intentions   *)
(* (p2pkhSubmissionRuntime.ts), ordinary transfers                         *)
(* (p2pkhTransferService.ts), funding plans that another component signs,  *)
(* sends and sends again (p2pkhProtocolSpend.ts, workerProtocolRuntime.ts, *)
(* workerTransferRuntime.ts) and the broadcast they share                  *)
(* (workerOperations.ts, workerBroadcastExecutor.ts).                      *)
(*                                                                         *)
(* Handlers are asynchronous.  A call is cut where the code awaits: what   *)
(* runs between two awaits is one action, and the catch block that a       *)
(* synchronous throw reaches is part of the action that throws.  The       *)
(* change output of a submission is a coin named like the submission.      *)
(* "already-known" is folded into "accepted": the code treats them alike.  *)
(* The end of the session disposes of runtime and pool together, so one    *)
(* session is one behaviour.                                               *)
(***************************************************************************)
EXTENDS Naturals, FiniteSets

CONSTANTS
    Coins,          \* unspent outputs the first snapshot put in the pool
    Transfers,      \* submissions of ordinary transfers
    Plans,          \* submissions of funding plans
    WithChange,     \* the submissions whose transaction pays change back
    Calls,          \* concurrent handlers
    PreviewLimit,   \* previews remembered at most (32 in the code)
    MaxTries        \* bound: a plan is sent at most this often

Subs == Transfers \union Plans

ASSUME SubsAssumption ==
    /\ Transfers \intersect Plans = {}
    /\ Subs \intersect Coins = {}
    /\ "none" \notin Subs
    /\ WithChange \subseteq Subs
ASSUME BoundsAssumption ==
    /\ PreviewLimit \in Nat \ {0}
    /\ MaxTries \in Nat \ {0}

VARIABLES
    state,      \* the state of each transaction intention
    raw,        \* the intentions whose signed bytes are kept (rawTxHex, txid)
    inputs,     \* the coins each intention was planned with
    frozen,     \* the intentions whose allocation the pool holds
    pool,       \* the coins the pool knows, frozen or not
    previews,   \* the transfers whose preview is remembered
    record,     \* the durable protocol record of each plan
    call,       \* the handlers in flight
    taken,      \* transactions a node has taken: they may be in a block
    tries       \* how often the transaction was dispatched (beginDispatch)

vars == <<state, raw, inputs, frozen, pool, previews, record, call, taken, tries>>

NoCall == [op |-> "none", sub |-> "none", pc |-> "none", res |-> "none"]
States == {"none", "prepared", "signing", "signed", "dispatching", "unknown",
           "accepted", "rejected", "cancelled"}
Records == {"none", "prepared", "unknown", "pending", "rejected"}
Answers == {"none", "taken", "lost", "accepted", "rejected", "unknown",
            "not-dispatched", "error"} \union Records

Init ==
    /\ state = [s \in Subs |-> "none"]
    /\ raw = {}
    /\ inputs = [s \in Subs |-> {}]
    /\ frozen = {}
    /\ pool = Coins
    /\ previews = {}
    /\ record = [s \in Subs |-> "none"]
    /\ call = [c \in Calls |-> NoCall]
    /\ taken = {}
    /\ tries = [s \in Subs |-> 0]

-----------------------------------------------------------------------------
(* The runtime of the intentions and the pool.                             *)

Undispatched == {"prepared", "signing", "signed", "cancelled", "rejected"}

\* What cancelUndispatched leaves: a signer may have been given the bytes.
Sealed(s) ==
    IF state[s] \in {"rejected", "cancelled"} THEN state[s]
    ELSE IF s \in raw \/ state[s] = "signing" THEN "rejected" ELSE "cancelled"

\* outcome() ignores what is settled and refuses what was never dispatched.
Ignored(s, o) ==
    \/ state[s] \in {o, "accepted"}
    \/ o = "unknown" /\ state[s] \in {"rejected", "cancelled"}
Refused(s, o) == ~Ignored(s, o) /\ state[s] \notin {"signed", "dispatching", "unknown"}
Outcome(s, o) == IF Ignored(s, o) \/ Refused(s, o) THEN state[s] ELSE o

\* Mutant of MayDispatch: the bytes are compared, the state is not.
MayDispatchBytes(s) == s \in raw

\* assertExact: the signed bytes may be given to a provider.
MayDispatch(s) == s \in raw /\ state[s] \in {"signed", "unknown"}

\* FundingKernel.request picks among the coins no allocation holds.
Available == pool \ UNION {inputs[s] : s \in frozen}

\* injectP2pkhUtxos adds a change output the pool has not seen.
Injected(s) ==
    IF s \in WithChange /\ \A t \in Subs : s \notin inputs[t]
    THEN pool \union {s} ELSE pool

-----------------------------------------------------------------------------
(* Calls.                                                                  *)

At(c, op, pc) == call[c].op = op /\ call[c].pc = pc
Start(c, op, s, pc) ==
    /\ call[c] = NoCall
    /\ call' = [call EXCEPT ![c] = [op |-> op, sub |-> s, pc |-> pc, res |-> "none"]]
Goto(c, pc, res) == call' = [call EXCEPT ![c].pc = pc, ![c].res = res]
Return(c) == call' = [call EXCEPT ![c] = NoCall]

\* A sealed intention gives its coins back in the same turn.
SealAndRelease(s) ==
    /\ state' = [state EXCEPT ![s] = Sealed(s)]
    /\ frozen' = frozen \ {s}

(***************************************************************************)
(* A funding request freezes coins and registers the plan.  Building the   *)
(* transaction or remembering the preview may fail: the intention is       *)
(* cancelled and the coins are free again.                                 *)
(***************************************************************************)
Fund(s) ==
    /\ state[s] = "none"
    /\ \E coins \in SUBSET Available :
        /\ coins # {}
        /\ inputs' = [inputs EXCEPT ![s] = coins]
    /\ \/ /\ s \in Transfers => Cardinality(previews) < PreviewLimit
          /\ state' = [state EXCEPT ![s] = "prepared"]
          /\ frozen' = frozen \union {s}
          /\ previews' = previews \union ({s} \intersect Transfers)
       \/ /\ state' = [state EXCEPT ![s] = "cancelled"]
          /\ UNCHANGED <<frozen, previews>>
    /\ UNCHANGED <<raw, pool, record, call, taken, tries>>

\* Mutant of Expire: the preview is forgotten, its coins are not released.
ExpireForgets(s) ==
    /\ s \in previews
    /\ previews' = previews \ {s}
    /\ UNCHANGED <<state, raw, inputs, frozen, pool, record, call, taken, tries>>

\* The 120 s timer of a preview: only an unsigned intention is released.
Expire(s) ==
    /\ s \in previews
    /\ previews' = previews \ {s}
    /\ IF state[s] = "prepared"
       THEN SealAndRelease(s)
       ELSE UNCHANGED <<state, frozen>>
    /\ UNCHANGED <<raw, inputs, pool, record, call, taken, tries>>

-----------------------------------------------------------------------------
(* An ordinary transfer: recall, resolve the owner, sign, audit, dispatch. *)

\* The catch block of submit(): only before its own dispatch, or when the
\* intention has ended, are the coins free again.
Caught(c, dispatchAttempted) ==
    LET s == call[c].sub IN
    /\ IF \/ state[s] \in {"prepared", "cancelled", "rejected"}
          \/ ~dispatchAttempted /\ state[s] \in {"signing", "signed"}
       THEN SealAndRelease(s) /\ previews' = previews \ {s}
       ELSE UNCHANGED <<state, frozen, previews>>
    /\ Return(c)

Submit(c, s) ==
    /\ s \in previews
    /\ state[s] = "prepared"
    /\ Start(c, "submit", s, "resolving")
    /\ UNCHANGED <<state, raw, inputs, frozen, pool, previews, record, taken, tries>>

\* A submit whose signal is already aborted.
SubmitAborted(s) ==
    /\ s \in previews
    /\ state[s] = "prepared"
    /\ previews' = previews \ {s}
    /\ SealAndRelease(s)
    /\ UNCHANGED <<raw, inputs, pool, record, call, taken, tries>>

\* The owner is resolved: the preview is used up and the signer starts.
BeginSigning(c) ==
    LET s == call[c].sub IN
    /\ At(c, "submit", "resolving")
    /\ IF s \in previews /\ state[s] = "prepared"
       THEN /\ previews' = previews \ {s}
            /\ state' = [state EXCEPT ![s] = "signing"]
            /\ Goto(c, "signing", "none")
            /\ UNCHANGED frozen
       ELSE Caught(c, FALSE)
    /\ UNCHANGED <<raw, inputs, pool, record, taken, tries>>

\* The signer returns; a late signature of a sealed intention is refused.
TransferSigned(c) ==
    LET s == call[c].sub IN
    /\ At(c, "submit", "signing")
    /\ IF state[s] = "signing"
       THEN /\ state' = [state EXCEPT ![s] = "signed"]
            /\ raw' = raw \union {s}
            /\ Goto(c, "audit", "none")
            /\ UNCHANGED <<frozen, previews>>
       ELSE Caught(c, FALSE) /\ UNCHANGED raw
    /\ UNCHANGED <<inputs, pool, record, taken, tries>>

\* The local submission is on disk: from here on the dispatch was attempted.
TransferAudited(c) ==
    /\ At(c, "submit", "audit")
    /\ Goto(c, "lease", "none")
    /\ UNCHANGED <<state, raw, inputs, frozen, pool, previews, record, taken, tries>>

\* Owner, store, signer, size check or audit fails, or the caller aborts.
SubmitFails(c) ==
    /\ call[c].op = "submit"
    /\ call[c].pc \in {"resolving", "signing", "audit"}
    /\ Caught(c, FALSE)
    /\ UNCHANGED <<raw, inputs, pool, record, taken, tries>>

\* Mutant of SettleTransfer: an outcome the Worker recorded needs no cleanup.
SettleTransferOnce(c) ==
    LET s == call[c].sub
        o == CASE call[c].res \in {"rejected", "not-dispatched", "error"} -> "rejected"
               [] call[c].res = "unknown" -> "unknown"
               [] OTHER -> "accepted"
    IN
    /\ At(c, "submit", "answered")
    /\ IF state[s] \in {"signed", "dispatching", "unknown"}
       THEN /\ state' = [state EXCEPT ![s] = o]
            /\ frozen' = IF o = "rejected" THEN frozen \ {s} ELSE frozen
       ELSE UNCHANGED <<state, frozen>>
    /\ Return(c)
    /\ UNCHANGED <<raw, inputs, pool, previews, record, taken, tries>>

\* The broadcast answered.  An error answer counts as not dispatched; the
\* coins are released when the intention is rejected.
SettleTransfer(c) ==
    LET s == call[c].sub
        o == CASE call[c].res \in {"rejected", "not-dispatched", "error"} -> "rejected"
               [] call[c].res = "unknown" -> "unknown"
               [] OTHER -> "accepted"
    IN
    /\ At(c, "submit", "answered")
    /\ IF state[s] \notin {"accepted", "rejected"} /\ Refused(s, o)
       THEN Caught(c, TRUE)
       ELSE LET next == IF state[s] \in {"accepted", "rejected"} THEN state[s] ELSE Outcome(s, o) IN
            /\ state' = [state EXCEPT ![s] = next]
            /\ frozen' = IF next = "rejected" THEN frozen \ {s} ELSE frozen
            /\ Return(c)
            /\ UNCHANGED previews
    /\ UNCHANGED <<raw, inputs, pool, record, taken, tries>>

-----------------------------------------------------------------------------
(* A funding plan: signed by build(), sent by submitWalletExact() as often *)
(* as its owner's outbox asks, cancelled by releaseFundingPlan().          *)

\* The catch block of build(): seals and releases unless it was dispatched.
BuildFails(c) ==
    LET s == call[c].sub IN
    /\ IF state[s] \in Undispatched
       THEN SealAndRelease(s)
       ELSE UNCHANGED <<state, frozen>>
    /\ Return(c)

Presign(c, s) ==
    /\ state[s] = "prepared"
    /\ Start(c, "presign", s, "resolving")
    /\ UNCHANGED <<state, raw, inputs, frozen, pool, previews, record, taken, tries>>

PresignBegin(c) ==
    LET s == call[c].sub IN
    /\ At(c, "presign", "resolving")
    /\ IF state[s] = "prepared"
       THEN /\ state' = [state EXCEPT ![s] = "signing"]
            /\ Goto(c, "signing", "none")
            /\ UNCHANGED frozen
       ELSE BuildFails(c)
    /\ UNCHANGED <<raw, inputs, pool, previews, record, taken, tries>>

PresignSigned(c) ==
    LET s == call[c].sub IN
    /\ At(c, "presign", "signing")
    /\ IF state[s] = "signing"
       THEN /\ state' = [state EXCEPT ![s] = "signed"]
            /\ raw' = raw \union {s}
            /\ Goto(c, "record", "none")
            /\ UNCHANGED frozen
       ELSE BuildFails(c) /\ UNCHANGED raw
    /\ UNCHANGED <<inputs, pool, previews, record, taken, tries>>

\* The write-ahead record of the signed bytes is on disk.
PresignRecorded(c) ==
    /\ At(c, "presign", "record")
    /\ record' = [record EXCEPT ![call[c].sub] = "prepared"]
    /\ Return(c)
    /\ UNCHANGED <<state, raw, inputs, frozen, pool, previews, taken, tries>>

PresignFails(c) ==
    /\ call[c].op = "presign"
    /\ BuildFails(c)
    /\ UNCHANGED <<raw, inputs, pool, previews, record, taken, tries>>

\* The outbox sends the signed bytes, the first time or once more.
SubmitExact(c, s) ==
    /\ s \in raw
    /\ record[s] # "none"
    /\ state[s] \notin {"rejected", "cancelled"}
    /\ tries[s] < MaxTries
    /\ Start(c, "exact", s, "lease")
    /\ UNCHANGED <<state, raw, inputs, frozen, pool, previews, record, taken, tries>>

\* Neither an error answer nor an unknown result of the exact bytes releases.
SettleExact(c) ==
    LET s == call[c].sub IN
    /\ At(c, "exact", "answered")
    /\ state' = IF call[c].res \in {"unknown", "error"}
                THEN [state EXCEPT ![s] = Outcome(s, "unknown")] ELSE state
    /\ Return(c)
    /\ UNCHANGED <<raw, inputs, frozen, pool, previews, record, taken, tries>>

\* A business receipt proves that a node took the transaction.
ObserveReceipt(s) ==
    /\ s \in taken
    /\ pool' = Injected(s)
    /\ state' = [state EXCEPT ![s] = "accepted"]
    /\ UNCHANGED <<raw, inputs, frozen, previews, record, call, taken, tries>>

\* releaseFundingPlan: an unsigned plan ends at once, a signed one through
\* its durable record, one that may be dispatched stays as it is.
ReleasePlan(c, s) ==
    /\ state[s] # "none"
    /\ \/ /\ s \in raw
          /\ state[s] \in {"signed", "rejected"}
          /\ Start(c, "release", s, "read")
          /\ UNCHANGED <<state, frozen>>
       \/ /\ \/ state[s] \in {"prepared", "signing", "cancelled"}
             \/ state[s] = "rejected" /\ s \notin raw
          /\ SealAndRelease(s)
          /\ UNCHANGED call
    /\ UNCHANGED <<raw, inputs, pool, previews, record, taken, tries>>

\* Releases of one submission are serialised from the read to the end.
ReleaseReads(c) ==
    LET s == call[c].sub IN
    /\ At(c, "release", "read")
    /\ \A d \in Calls : ~(call[d].op = "release" /\ call[d].sub = s /\ call[d].pc \in {"seal", "put"})
    /\ IF record[s] \in {"prepared", "rejected"} THEN Goto(c, "seal", record[s]) ELSE Return(c)
    /\ UNCHANGED <<state, raw, inputs, frozen, pool, previews, record, taken, tries>>

\* The intention is sealed before the record; without one to write the coins
\* are free at once.
ReleaseSeals(c) ==
    LET s == call[c].sub IN
    /\ At(c, "release", "seal")
    /\ IF state[s] \in Undispatched
       THEN /\ state' = [state EXCEPT ![s] = Sealed(s)]
            /\ IF call[c].res = "prepared"
               THEN Goto(c, "put", "none") /\ UNCHANGED frozen
               ELSE Return(c) /\ frozen' = frozen \ {s}
       ELSE Return(c) /\ UNCHANGED <<state, frozen>>
    /\ UNCHANGED <<raw, inputs, pool, previews, record, taken, tries>>

\* The rejection is durable before the coins are free; a failed write keeps
\* them frozen.
ReleaseRecorded(c) ==
    LET s == call[c].sub IN
    /\ At(c, "release", "put")
    /\ Return(c)
    /\ \/ record' = [record EXCEPT ![s] = "rejected"] /\ frozen' = frozen \ {s}
       \/ UNCHANGED <<record, frozen>>
    /\ UNCHANGED <<state, raw, inputs, pool, previews, taken, tries>>

-----------------------------------------------------------------------------
(* The broadcast in the Worker.                                            *)

Broadcasting(c, pc) == call[c].op \in {"submit", "exact"} /\ call[c].pc = pc

\* The catch block of broadcast(): what was dispatching is now unknown.
BroadcastFails(c) ==
    LET s == call[c].sub IN
    /\ state' = IF state[s] = "dispatching" THEN [state EXCEPT ![s] = "unknown"] ELSE state
    /\ Goto(c, "answered", "error")

\* The write lease is granted: the exact bytes are checked and dispatched.
BeginDispatch(c) ==
    LET s == call[c].sub IN
    /\ Broadcasting(c, "lease")
    /\ \/ /\ state[s] = "accepted"
          /\ Goto(c, "answered", "accepted")
          /\ UNCHANGED <<state, tries>>
       \/ /\ MayDispatch(s)
          /\ state' = [state EXCEPT ![s] = "dispatching"]
          /\ tries' = [tries EXCEPT ![s] = @ + 1]
          /\ Goto(c, "dispatch", "none")
       \/ /\ state[s] # "accepted" /\ ~MayDispatch(s)
          /\ BroadcastFails(c)
          /\ UNCHANGED tries
    /\ UNCHANGED <<raw, inputs, frozen, pool, previews, record, taken>>

\* The lease is refused: the caller sees an exception and knows nothing.
LeaseRefused(c) ==
    /\ Broadcasting(c, "lease")
    /\ Goto(c, "answered", "unknown")
    /\ UNCHANGED <<state, raw, inputs, frozen, pool, previews, record, taken, tries>>

\* Before the provider: its audit rows cannot be written, or there is none.
DispatchFails(c) ==
    /\ Broadcasting(c, "dispatch")
    /\ \/ BroadcastFails(c)
       \/ Goto(c, "result", "not-dispatched") /\ UNCHANGED state
    /\ UNCHANGED <<raw, inputs, frozen, pool, previews, record, taken, tries>>

\* The provider posts the bytes: a node takes them or not.
Provide(c) ==
    LET s == call[c].sub IN
    /\ Broadcasting(c, "dispatch")
    /\ record' = IF record[s] = "none" THEN record ELSE [record EXCEPT ![s] = "unknown"]
    /\ \/ taken' = taken \union {s} /\ Goto(c, "provider", "taken")
       \/ UNCHANGED taken /\ Goto(c, "provider", "lost")
    /\ UNCHANGED <<state, raw, inputs, frozen, pool, previews, tries>>

\* The provider's answer.  A node that has the transaction accepts it, or
\* rejects the second posting of it; no answer proves nothing.
ProviderAnswers(c) ==
    LET s == call[c].sub IN
    /\ Broadcasting(c, "provider")
    /\ \/ s \in taken /\ Goto(c, "result", "accepted")
       \/ call[c].res = "lost" /\ Goto(c, "result", "rejected")
       \/ Goto(c, "result", "unknown")
    /\ UNCHANGED <<state, raw, inputs, frozen, pool, previews, record, taken, tries>>

RecordAs(s, status) == IF record[s] = "none" THEN record ELSE [record EXCEPT ![s] = status]

\* The caller of the provider records the outcome.
BroadcastAccepted(c) ==
    LET s == call[c].sub IN
    /\ Broadcasting(c, "result")
    /\ call[c].res = "accepted"
    /\ IF Refused(s, "accepted")
       THEN BroadcastFails(c) /\ UNCHANGED <<pool, record>>
       ELSE /\ state' = [state EXCEPT ![s] = "accepted"]
            /\ pool' = Injected(s)
            /\ record' = RecordAs(s, "pending")
            /\ Goto(c, "answered", "accepted")
    /\ UNCHANGED <<raw, inputs, frozen, previews, taken, tries>>

\* An explicit rejection releases the coins, after the protocol record.
BroadcastRejected(c) ==
    LET s == call[c].sub IN
    /\ Broadcasting(c, "result")
    /\ call[c].res \in {"rejected", "not-dispatched"}
    /\ IF Refused(s, "rejected")
       THEN BroadcastFails(c)
       ELSE state' = [state EXCEPT ![s] = Outcome(s, "rejected")] /\ Goto(c, "reject", call[c].res)
    /\ UNCHANGED <<raw, inputs, frozen, pool, previews, record, taken, tries>>

RejectionRecorded(c) ==
    LET s == call[c].sub IN
    /\ Broadcasting(c, "reject")
    /\ \/ /\ record' = RecordAs(s, "rejected")
          /\ frozen' = frozen \ {s}
          /\ Goto(c, "answered", call[c].res)
          /\ UNCHANGED state
       \/ BroadcastFails(c) /\ UNCHANGED <<record, frozen>>
    /\ UNCHANGED <<raw, inputs, pool, previews, taken, tries>>

BroadcastUnknown(c) ==
    LET s == call[c].sub IN
    /\ Broadcasting(c, "result")
    /\ call[c].res = "unknown"
    /\ IF Refused(s, "unknown")
       THEN BroadcastFails(c)
       ELSE state' = [state EXCEPT ![s] = Outcome(s, "unknown")] /\ Goto(c, "answered", "unknown")
    /\ UNCHANGED <<raw, inputs, frozen, pool, previews, record, taken, tries>>

-----------------------------------------------------------------------------
\* A step of a handler in flight.
CallStep(c) ==
    \/ BeginSigning(c) \/ TransferSigned(c) \/ TransferAudited(c)
    \/ SubmitFails(c) \/ SettleTransfer(c)
    \/ PresignBegin(c) \/ PresignSigned(c) \/ PresignRecorded(c) \/ PresignFails(c)
    \/ SettleExact(c)
    \/ ReleaseReads(c) \/ ReleaseSeals(c) \/ ReleaseRecorded(c)
    \/ BeginDispatch(c) \/ LeaseRefused(c) \/ DispatchFails(c) \/ Provide(c)
    \/ ProviderAnswers(c) \/ BroadcastAccepted(c) \/ BroadcastRejected(c)
    \/ RejectionRecorded(c) \/ BroadcastUnknown(c)

Next ==
    \/ \E s \in Subs : Fund(s)
    \/ \E s \in Transfers : Expire(s) \/ SubmitAborted(s)
    \/ \E s \in Plans : ObserveReceipt(s)
    \/ \E c \in Calls : CallStep(c)
    \/ \E c \in Calls, s \in Transfers : Submit(c, s)
    \/ \E c \in Calls, s \in Plans : Presign(c, s) \/ SubmitExact(c, s) \/ ReleasePlan(c, s)

Spec == Init /\ [][Next]_vars

\* Signer, disk and provider answer in the end, and timers fire.
Fairness ==
    /\ \A c \in Calls : WF_vars(CallStep(c))
    /\ \A s \in Transfers : WF_vars(Expire(s))

FairSpec == Spec /\ Fairness

-----------------------------------------------------------------------------
CallRecord == [op : {"none", "submit", "presign", "exact", "release"},
               sub : Subs \union {"none"},
               pc : {"none", "resolving", "signing", "audit", "lease", "record", "read", "seal",
                     "put", "dispatch", "provider", "result", "reject", "answered"},
               res : Answers]

TransfersTypeOK ==
    /\ state \in [Subs -> States]
    /\ raw \subseteq Subs
    /\ inputs \in [Subs -> SUBSET (Coins \union Subs)]
    /\ frozen \subseteq Subs
    /\ pool \subseteq Coins \union Subs
    /\ previews \subseteq Transfers
    /\ record \in [Subs -> Records]
    /\ call \in [Calls -> CallRecord]
    /\ taken \subseteq Subs
    /\ tries \in [Subs -> Nat]

\* Two transactions that nodes took never spend the same coin, unless one of
\* them was sent again after an unknown result.  Concurrent submits, expiry
\* timers, cancellations and late signers all meet in the pool: coins are
\* given back only when no provider can have the bytes.
NoDoubleSpend ==
    \A s, t \in taken :
        s # t /\ inputs[s] \intersect inputs[t] # {} => \E u \in {s, t} : tries[u] > 1

\* A transfer that ended without a transaction holds no coins once its
\* handlers have returned, whichever of them failed and where.
EndedTransferFreed ==
    \A t \in Transfers :
        state[t] \in {"rejected", "cancelled"} /\ (\A c \in Calls : call[c].sub # t) => t \notin frozen

\* Coins frozen for a transfer are free again, or spent, or held because a
\* node may have the transaction: a forgotten preview does not keep them.
FundsSettle ==
    \A t \in Transfers : t \in frozen ~> (t \notin frozen \/ state[t] \in {"accepted", "unknown"})

\* "unknown leaves the allocation frozen" (workerOperations.ts:48-50),
\* "dispatch uncertainty never authorizes release"
\* (workerProtocolRuntime.ts:113-115): the coins of a transaction that a node
\* took are never free while the wallet has not seen it accepted.
\* The code does not keep this: README, section 3.
UncertainStaysFrozen ==
    \A s \in taken : state[s] # "accepted" => s \in frozen
=============================================================================
