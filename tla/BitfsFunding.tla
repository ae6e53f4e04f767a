---------------------------- MODULE BitfsFunding ----------------------------
(***************************************************************************)
(* A buyer of BitFS content opens its fee pool: it prepares a funding      *)
(* transaction, has the seller presign (Kind 2, Kind 3), dispatches the    *)
(* transaction and delivers the proof (Kind 4); or it cancels.  One        *)
(* purchase session (buyerProtocol.ts, buyerTask.ts, funding.ts,           *)
(* broadcast.ts, workerRuntime.ts) over its durable stores: the session    *)
(* record, evidence files, the funding ledger, the transaction outbox and  *)
(* the wallet's record of the prepared spend.                              *)
(*                                                                         *)
(* A handler is cut at its durable writes and network calls.  The "link"   *)
(* handlers of the session's channel are serialised with one another; the  *)
(* "side" handlers (a cancellation without its channel, the recovery after *)
(* unlocking) are not.  A crash or a lock ends every handler and forgets   *)
(* the wallet's intentions; what was written stays.  Writes do not fail.   *)
(* The session's revision is kept as the set of handlers whose copy of the *)
(* record is current: a compare-and-swap by another handler fails.         *)
(***************************************************************************)
EXTENDS Naturals, FiniteSets

CONSTANTS
    MaxOpens,       \* bound: how often the scheduler's open command is run
    MaxRestarts     \* bound: crashes or locks of the Worker

ASSUME OpensAssumption == MaxOpens \in Nat \ {0}
ASSUME RestartsAssumption == MaxRestarts \in Nat

VARIABLES
    session,    \* the session record: phase, pendingTxid, listed evidence
    seen,       \* the handlers whose copy of the session record is current
    file,       \* evidence files: names, and the funding transaction (0: none)
    plan,       \* the ledger's opening transactions
    pool,       \* the ledger's pool: state and funding transaction
    outbox,     \* the outbox record of each transaction
    wallet,     \* the wallet's durable record of each prepared spend
    live,       \* the intentions the wallet holds in memory
    taken,      \* the transactions nodes have taken
    hand,       \* the handlers in flight: where, which transaction, outcome
    opens,      \* how often the open command was run
    restarts

vars == <<session, seen, file, plan, pool, outbox, wallet, live, taken, hand, opens, restarts>>

Handlers == {"link", "side"}
Txs == 1 .. MaxOpens
Names == {"config", "funding", "kind2", "kind3", "kind4"}
Phases == {"quote-selected", "funding-prepared", "opening-presign", "funding-unknown",
           "funded", "failed", "cancel-opening", "cancelled"}
PlanStates == {"none", "prepared", "unknown", "failed", "observed"}
PoolStates == {"none", "funding-pending", "funding-failed", "open"}
OutboxStates == {"none", "prepared", "unknown", "confirmed", "failed"}
WalletStates == {"none", "prepared", "unknown", "pending", "rejected"}
OpenSteps == {"configure", "configured", "fund", "funded-again", "reserve", "anchor", "anchored",
              "outbox", "prepared", "sign", "kind2", "signed", "present", "send",
              "undo", "undo-ledger", "fail", "mark"}
AnswerSteps == {"delivered", "kind3", "answered", "accept"}
SubmitSteps == {"submit", "dispatch", "mark-outbox", "reconcile", "unknown", "unknown-phase",
                "release", "release-ledger", "failed-phase", "observe", "kind4", "proven", "funded"}
CancelSteps == {"recover", "intend", "check", "ledger", "free", "free-ledger", "finish", "withdraw"}
Steps == {"idle", "lookup"} \union OpenSteps \union AnswerSteps \union SubmitSteps \union CancelSteps
Idle == [pc |-> "idle", tx |-> 0, res |-> "none"]

Init ==
    /\ session = [phase |-> "quote-selected", tx |-> 0, listed |-> {}]
    /\ seen = {}
    /\ file = [names |-> {}, funding |-> 0]
    /\ plan = [t \in Txs |-> "none"]
    /\ pool = [state |-> "none", tx |-> 0]
    /\ outbox = [t \in Txs |-> "none"]
    /\ wallet = [t \in Txs |-> "none"]
    /\ live = {}
    /\ taken = {}
    /\ hand = [h \in Handlers |-> Idle]
    /\ opens = 0
    /\ restarts = 0

-----------------------------------------------------------------------------
(* The session journal and the control of a handler.                       *)

money == <<plan, pool, outbox, wallet, live, taken>>
bounds == <<opens, restarts>>

At(h, pc) == hand[h].pc = pc
Forward(h, pc) == IF pc = "idle" THEN Idle ELSE [hand[h] EXCEPT !.pc = pc]
Goto(h, pc) == hand' = [hand EXCEPT ![h] = Forward(h, pc)]
Return(h) == Goto(h, "idle")

Read(h) == seen' = seen \union {h}

\* update(): the record is replaced if it is still the one that was read.
Commit(h, new, next, conflict) ==
    IF h \in seen
    THEN session' = new /\ seen' = {h} /\ Goto(h, next)
    ELSE Goto(h, conflict) /\ UNCHANGED <<session, seen>>

InPhase(p) == [session EXCEPT !.phase = p]
Pending(p, t) == [InPhase(p) EXCEPT !.tx = t]
Listed(names) == [session EXCEPT !.listed = @ \union names]

\* putEvidence() writes the file, once, before it lists it in the record.
Write(name) == file' = [file EXCEPT !.names = @ \union {name}]

Held(names) == names \intersect (session.listed \union file.names) # {}

\* assertFundingTxReserved with allowObserved.
Reserved(t) == t # 0 /\ outbox[t] # "none" /\ plan[t] # "none" /\ pool.tx = t

-----------------------------------------------------------------------------
(* The wallet and the ledger.                                              *)

\* releasePreparedSubmission: the record must say "prepared" or "rejected".
MayRelease(t) == wallet[t] \in {"prepared", "rejected"}
ReleaseSpend(t) ==
    /\ wallet' = [wallet EXCEPT ![t] = "rejected"]
    /\ live' = live \ {t}

\* releaseDefinitelyUndispatchedTransaction, also of the pool of the plan.
ReleasePlan(t) ==
    IF plan[t] \in {"none", "failed", "observed"} \/ pool = [state |-> "open", tx |-> t]
    THEN UNCHANGED <<plan, pool>>
    ELSE /\ plan' = [plan EXCEPT ![t] = "failed"]
         /\ pool' = [pool EXCEPT !.state = "funding-failed"]

\* cancelUnfundedOpening looks at the pool's first opening transaction.
HasPlan == \E t \in Txs : plan[t] # "none"
FirstPlan == CHOOSE t \in Txs : plan[t] # "none" /\ \A u \in Txs : plan[u] # "none" => t <= u

-----------------------------------------------------------------------------
(* The link opens the pool (startPurchase, prepareOpening,                 *)
(* prepareBitfsFunding).  An open command is run again only while the      *)
(* seller has not answered.                                                *)

Open ==
    /\ At("link", "idle")
    /\ opens < MaxOpens
    /\ "kind3" \notin file.names
    /\ opens' = opens + 1
    /\ Read("link")
    /\ session.phase \in {"quote-selected", "opening-presign", "funding-prepared"}
    /\ \/ "config" \notin file.names /\ Goto("link", "configure")
       \/ "config" \in file.names /\ "kind2" \notin file.names /\ Goto("link", "fund")
       \/ /\ {"config", "kind2"} \subseteq file.names
          /\ Goto("link", IF ~Reserved(file.funding) THEN "fail"
                          ELSE IF session.phase = "funding-prepared" THEN "present" ELSE "send")
    /\ UNCHANGED <<session, file, money, restarts>>

\* The quote, the arbiter, the budget or the block height no longer fit.
OpenRefused ==
    /\ hand["link"].pc \in {"configure", "fund"}
    /\ Goto("link", "fail")
    /\ UNCHANGED <<session, seen, file, money, bounds>>

Configure ==
    /\ At("link", "configure")
    /\ Write("config")
    /\ Goto("link", "configured")
    /\ UNCHANGED <<session, seen, money, bounds>>

Configured ==
    /\ At("link", "configured")
    /\ Commit("link", Listed({"config"}), "fund", "fail")
    /\ UNCHANGED <<file, money, bounds>>

\* No transaction is fixed yet: coins are frozen, the transaction is signed
\* and the wallet records it.
FundNew ==
    LET t == 1 + Cardinality({u \in Txs : wallet[u] # "none"}) IN
    /\ At("link", "fund")
    /\ file.funding = 0
    /\ Read("link")
    /\ IF session.phase = "quote-selected"
       THEN /\ wallet' = [wallet EXCEPT ![t] = "prepared"]
            /\ live' = live \union {t}
            /\ hand' = [hand EXCEPT !["link"] = [pc |-> "reserve", tx |-> t, res |-> "none"]]
       ELSE Goto("link", "fail") /\ UNCHANGED <<wallet, live>>
    /\ UNCHANGED <<session, file, plan, pool, outbox, taken, bounds>>

\* The transaction is fixed: outbox and session are brought up to date, it is
\* never signed again.  A released one cannot be used again.
FundAgain ==
    LET t == file.funding IN
    /\ At("link", "fund")
    /\ t # 0
    /\ Read("link")
    /\ IF session.tx \in {0, t}
       THEN /\ outbox' = IF outbox[t] = "none" THEN [outbox EXCEPT ![t] = "prepared"] ELSE outbox
            /\ hand' = [hand EXCEPT !["link"] =
                 [pc |-> IF plan[t] \in {"none", "failed"} \/ pool # [state |-> "funding-pending", tx |-> t] THEN "fail"
                         ELSE IF session.phase = "quote-selected" THEN "funded-again" ELSE "sign",
                  tx |-> t, res |-> "none"]]
       ELSE Goto("link", "fail") /\ UNCHANGED outbox
    /\ UNCHANGED <<session, file, plan, pool, wallet, live, taken, bounds>>

FundedAgain ==
    /\ At("link", "funded-again")
    /\ Commit("link", Pending("funding-prepared", hand["link"].tx), "sign", "fail")
    /\ UNCHANGED <<file, money, bounds>>

\* reservePoolFunding: one unreleased opening transaction per pool.
Reserve ==
    LET t == hand["link"].tx IN
    /\ At("link", "reserve")
    /\ IF \/ pool.state = "none"
          \/ pool.state = "funding-failed" /\ plan[pool.tx] = "failed"
       THEN /\ plan' = [plan EXCEPT ![t] = "prepared"]
            /\ pool' = [state |-> "funding-pending", tx |-> t]
            /\ Goto("link", "anchor")
       ELSE Goto("link", "undo") /\ UNCHANGED <<plan, pool>>
    /\ UNCHANGED <<session, seen, file, outbox, wallet, live, taken, bounds>>

\* The exact bytes are fixed if the session is still the one that was read.
Anchor ==
    /\ At("link", "anchor")
    /\ IF "link" \in seen /\ file.funding = 0
       THEN file' = [file EXCEPT !.funding = hand["link"].tx] /\ Goto("link", "anchored")
       ELSE Goto("link", "undo") /\ UNCHANGED file
    /\ UNCHANGED <<session, seen, money, bounds>>

Anchored ==
    /\ At("link", "anchored")
    /\ Commit("link", Listed({"funding"}), "outbox", "undo")
    /\ UNCHANGED <<file, money, bounds>>

PutOutbox ==
    /\ At("link", "outbox")
    /\ outbox' = [outbox EXCEPT ![hand["link"].tx] = "prepared"]
    /\ Goto("link", "prepared")
    /\ UNCHANGED <<session, seen, file, plan, pool, wallet, live, taken, bounds>>

Prepared ==
    /\ At("link", "prepared")
    /\ Commit("link", Pending("funding-prepared", hand["link"].tx), "sign", "undo")
    /\ UNCHANGED <<file, money, bounds>>

\* The signer returns: the session must still await this transaction.
Sign ==
    LET t == hand["link"].tx IN
    /\ At("link", "sign")
    /\ IF /\ Reserved(t) /\ outbox[t] = "prepared" /\ pool.state = "funding-pending"
          /\ session.tx = t /\ session.phase = "funding-prepared"
       THEN session' = Listed({"funding"}) /\ seen' = {"link"} /\ Goto("link", "kind2")
       ELSE Goto("link", "fail") /\ UNCHANGED <<session, seen>>
    /\ UNCHANGED <<file, money, bounds>>

WriteKind2 ==
    /\ At("link", "kind2")
    /\ Write("kind2")
    /\ Goto("link", "signed")
    /\ UNCHANGED <<session, seen, money, bounds>>

Signed ==
    /\ At("link", "signed")
    /\ Commit("link", Listed({"kind2"}), "present", "fail")
    /\ UNCHANGED <<file, money, bounds>>

Present ==
    /\ At("link", "present")
    /\ Commit("link", Pending("opening-presign", file.funding), "send", "fail")
    /\ UNCHANGED <<file, money, bounds>>

\* Kind 2 goes out, or the channel is gone.
Send ==
    /\ At("link", "send")
    /\ Return("link") \/ Goto("link", "fail")
    /\ UNCHANGED <<session, seen, file, money, bounds>>

\* Mutant of Undo: the wallet gives the coins back, the ledger is not told.
UndoWallet ==
    LET t == hand["link"].tx IN
    /\ At("link", "undo")
    /\ IF MayRelease(t) THEN ReleaseSpend(t) ELSE UNCHANGED <<wallet, live>>
    /\ Goto("link", "fail")
    /\ UNCHANGED <<session, seen, file, plan, pool, outbox, taken, bounds>>

\* The catch block of prepareBitfsFunding: the wallet first, then the ledger.
Undo ==
    LET t == hand["link"].tx IN
    /\ At("link", "undo")
    /\ IF MayRelease(t)
       THEN ReleaseSpend(t) /\ Goto("link", "undo-ledger")
       ELSE Goto("link", "fail") /\ UNCHANGED <<wallet, live>>
    /\ UNCHANGED <<session, seen, file, plan, pool, outbox, taken, bounds>>

UndoLedger ==
    /\ At("link", "undo-ledger")
    /\ ReleasePlan(hand["link"].tx)
    /\ Goto("link", "fail")
    /\ UNCHANGED <<session, seen, file, outbox, wallet, live, taken, bounds>>

\* markFailed reads the record; a conflict of its write is swallowed.
Fail ==
    /\ At("link", "fail")
    /\ Read("link")
    /\ IF session.phase = "failed" THEN Return("link") ELSE Goto("link", "mark")
    /\ UNCHANGED <<session, file, money, bounds>>

MarkFailed ==
    /\ At("link", "mark")
    /\ Return("link")
    /\ IF "link" \in seen
       THEN session' = InPhase("failed") /\ seen' = {"link"}
       ELSE UNCHANGED <<session, seen>>
    /\ UNCHANGED <<file, money, bounds>>

OpenStep ==
    \/ OpenRefused \/ Configure \/ Configured \/ FundNew \/ FundAgain \/ FundedAgain
    \/ Reserve \/ Anchor \/ Anchored \/ PutOutbox \/ Prepared \/ Sign \/ WriteKind2
    \/ Signed \/ Present \/ Send \/ Undo \/ UndoLedger \/ Fail \/ MarkFailed

-----------------------------------------------------------------------------
(* The seller answers with Kind 3 (handleOpeningResponse), on the channel  *)
(* of the opening or, to the same Kind 2, on a later one.                  *)

Respond ==
    /\ At("link", "idle")
    /\ "kind2" \in session.listed
    /\ session.phase \in {"opening-presign", "funding-prepared", "funding-unknown", "funded"}
    /\ Read("link")
    /\ Goto("link", CASE "kind4" \in file.names                         -> "delivered"
                      [] {"kind3", "kind4"} \intersect file.names = {} -> "kind3"
                      [] OTHER -> IF session.phase = "opening-presign" THEN "accept" ELSE "submit")
    /\ UNCHANGED <<session, file, money, bounds>>

\* Kind 4 is on file: it is sent again and the session becomes funded.
Delivered ==
    /\ At("link", "delivered")
    /\ Return("link")
    /\ IF session.phase = "funded"
       THEN UNCHANGED <<session, seen>>
       ELSE session' = Pending("funded", 0) /\ seen' = {"link"}
    /\ UNCHANGED <<file, money, bounds>>

WriteKind3 ==
    /\ At("link", "kind3")
    /\ Write("kind3")
    /\ Goto("link", "answered")
    /\ UNCHANGED <<session, seen, money, bounds>>

Answered ==
    /\ At("link", "answered")
    /\ Commit("link", Listed({"kind3"}),
              IF session.phase = "opening-presign" THEN "accept" ELSE "submit", "idle")
    /\ UNCHANGED <<file, money, bounds>>

Accept ==
    /\ At("link", "accept")
    /\ Commit("link", InPhase("funding-prepared"), "submit", "idle")
    /\ UNCHANGED <<file, money, bounds>>

AnswerStep == Delivered \/ WriteKind3 \/ Answered \/ Accept

-----------------------------------------------------------------------------
(* submitOrReconcileFunding: the first dispatch, or a look at the chain.   *)

\* Mutant of Submit: an outbox that is not confirmed is dispatched again.
SubmitAgain(h) ==
    LET t == file.funding
        next == IF session.phase \notin {"funding-prepared", "funding-unknown"} \/ ~Reserved(t) THEN "idle"
                ELSE IF outbox[t] = "confirmed" THEN "reconcile" ELSE "dispatch"
    IN
    /\ At(h, "submit")
    /\ hand' = [hand EXCEPT ![h] = IF next = "idle" THEN Idle ELSE [pc |-> next, tx |-> t, res |-> "none"]]
    /\ UNCHANGED <<session, seen, file, money, bounds>>

\* Mutant of Submit: a transaction found in the meantime needs no more work.
SubmitFound(h) ==
    LET t == file.funding
        next == IF session.phase \notin {"funding-prepared", "funding-unknown"} \/ ~Reserved(t) THEN "idle"
                ELSE CASE outbox[t] = "prepared"   -> "dispatch"
                       [] outbox[t] = "failed"     -> "release"
                       [] outbox[t] = "confirmed"  -> "idle"
                       [] OTHER                    -> "reconcile"
    IN
    /\ At(h, "submit")
    /\ hand' = [hand EXCEPT ![h] = IF next = "idle" THEN Idle ELSE [pc |-> next, tx |-> t, res |-> "none"]]
    /\ UNCHANGED <<session, seen, file, money, bounds>>

\* What was dispatched before is looked up; a rejected one stays rejected.
Submit(h) ==
    LET t == file.funding
        next == IF session.phase \notin {"funding-prepared", "funding-unknown"} \/ ~Reserved(t) THEN "idle"
                ELSE CASE outbox[t] = "prepared"   -> "dispatch"
                       [] outbox[t] = "failed"     -> "release"
                       [] OTHER                    -> "reconcile"
    IN
    /\ At(h, "submit")
    /\ hand' = [hand EXCEPT ![h] = IF next = "idle" THEN Idle ELSE [pc |-> next, tx |-> t, res |-> "none"]]
    /\ UNCHANGED <<session, seen, file, money, bounds>>

\* submitWalletExact: only an intention of this life is posted.  A node takes
\* the bytes or not; its answer may be lost.  A refusal before the provider
\* or by a node is final, of a second posting as well; anything else is
\* unknown.
Dispatch(h) ==
    LET t == hand[h].tx
        Told(res, record) ==
            /\ hand' = [hand EXCEPT ![h] = [pc |-> "mark-outbox", tx |-> t, res |-> res]]
            /\ wallet' = [wallet EXCEPT ![t] = record]
    IN
    /\ At(h, "dispatch")
    /\ \/ wallet[t] = "rejected" /\ t \in live /\ Told("failed", "rejected") /\ UNCHANGED taken
       \/ t \notin live /\ Told("unknown", wallet[t]) /\ UNCHANGED taken
       \/ /\ t \in live /\ wallet[t] # "rejected"
          /\ \/ taken' = taken \union {t} /\ Told("confirmed", "pending")
             \/ taken' = taken \union {t} /\ Told("unknown", "unknown")
             \/ UNCHANGED taken /\ Told("unknown", "unknown")
             \/ UNCHANGED taken /\ Told("failed", "rejected")
    /\ UNCHANGED <<session, seen, file, plan, pool, outbox, live, bounds>>

\* The outcome is written after the call.
MarkOutbox(h) ==
    LET res == hand[h].res IN
    /\ At(h, "mark-outbox")
    /\ outbox' = [outbox EXCEPT ![hand[h].tx] = res]
    /\ Goto(h, CASE res = "confirmed" -> "observe" [] res = "failed" -> "release" [] OTHER -> "unknown")
    /\ UNCHANGED <<session, seen, file, plan, pool, wallet, live, taken, bounds>>

\* Mutant of Reconcile: no answer of the chain counts as found.
ReconcileHopeful(h) ==
    /\ At(h, "reconcile")
    /\ outbox' = [outbox EXCEPT ![hand[h].tx] = "confirmed"]
    /\ Goto(h, "observe")
    /\ UNCHANGED <<session, seen, file, plan, pool, wallet, live, taken, bounds>>

\* reconcile(): the chain is asked; an answer may fail or be late.
Reconcile(h) ==
    LET t == hand[h].tx IN
    /\ At(h, "reconcile")
    /\ \/ /\ outbox[t] = "confirmed" \/ t \in taken
          /\ outbox' = [outbox EXCEPT ![t] = "confirmed"]
          /\ Goto(h, "observe")
       \/ /\ outbox[t] # "confirmed"
          /\ Goto(h, "unknown")
          /\ UNCHANGED outbox
    /\ UNCHANGED <<session, seen, file, plan, pool, wallet, live, taken, bounds>>

LedgerUnknown(h) ==
    LET t == hand[h].tx IN
    /\ At(h, "unknown")
    /\ plan' = IF plan[t] = "prepared" THEN [plan EXCEPT ![t] = "unknown"] ELSE plan
    /\ Goto(h, "unknown-phase")
    /\ UNCHANGED <<session, seen, file, pool, outbox, wallet, live, taken, bounds>>

\* The handler of Kind 3 asks again for a while.
UnknownPhase(h) ==
    /\ At(h, "unknown-phase")
    /\ IF session.phase = "funding-unknown"
       THEN UNCHANGED <<session, seen>>
       ELSE session' = Pending("funding-unknown", hand[h].tx) /\ seen' = {h}
    /\ Return(h) \/ (h = "link" /\ Goto(h, "submit"))
    /\ UNCHANGED <<file, money, bounds>>

\* Definitely not dispatched: the wallet, the ledger and the session follow.
ReleaseFailed(h) ==
    LET t == hand[h].tx IN
    /\ At(h, "release")
    /\ CASE plan[t] \in {"failed", "observed"} -> Goto(h, "failed-phase") /\ UNCHANGED <<wallet, live>>
         [] plan[t] \notin {"failed", "observed"} /\ MayRelease(t) -> ReleaseSpend(t) /\ Goto(h, "release-ledger")
         [] OTHER -> Return(h) /\ UNCHANGED <<wallet, live>>
    /\ UNCHANGED <<session, seen, file, plan, pool, outbox, taken, bounds>>

ReleaseFailedPlan(h) ==
    /\ At(h, "release-ledger")
    /\ ReleasePlan(hand[h].tx)
    /\ Goto(h, "failed-phase")
    /\ UNCHANGED <<session, seen, file, outbox, wallet, live, taken, bounds>>

FailedPhase(h) ==
    /\ At(h, "failed-phase")
    /\ session' = InPhase("failed")
    /\ seen' = IF session.phase = "failed" THEN seen ELSE {h}
    /\ Return(h)
    /\ UNCHANGED <<file, money, bounds>>

\* observePoolFunding refuses a pool that was released or replaced.
Observe(h) ==
    LET t == hand[h].tx IN
    /\ At(h, "observe")
    /\ IF pool.tx = t /\ pool.state \in {"funding-pending", "open"}
       THEN /\ plan' = [plan EXCEPT ![t] = "observed"]
            /\ pool' = [pool EXCEPT !.state = "open"]
            /\ Goto(h, "kind4")
       ELSE Return(h) /\ UNCHANGED <<plan, pool>>
    /\ UNCHANGED <<session, seen, file, outbox, wallet, live, taken, bounds>>

\* Kind 4 proves the funding; Kind 3 must be on file.
WriteKind4(h) ==
    /\ At(h, "kind4")
    /\ Read(h)
    /\ Write("kind4")
    /\ Goto(h, "proven")
    /\ UNCHANGED <<session, money, bounds>>

Proven(h) ==
    /\ At(h, "proven")
    /\ Commit(h, Listed({"kind4"}), IF session.phase = "funded" THEN "idle" ELSE "funded", "idle")
    /\ UNCHANGED <<file, money, bounds>>

Funded(h) ==
    /\ At(h, "funded")
    /\ Commit(h, Pending("funded", hand[h].tx), "idle", "idle")
    /\ UNCHANGED <<file, money, bounds>>

SubmitStep(h) ==
    \/ Submit(h) \/ Dispatch(h) \/ MarkOutbox(h) \/ Reconcile(h)
    \/ LedgerUnknown(h) \/ UnknownPhase(h)
    \/ ReleaseFailed(h) \/ ReleaseFailedPlan(h) \/ FailedPhase(h)
    \/ Observe(h) \/ WriteKind4(h) \/ Proven(h) \/ Funded(h)

-----------------------------------------------------------------------------
(* Cancellation, on the channel of the session or beside it.               *)

Cancel(h) ==
    /\ At(h, "idle")
    /\ session.phase \in {"quote-selected", "opening-presign", "funding-prepared", "cancel-opening"}
    /\ {"kind3", "kind4"} \intersect session.listed = {}
    /\ Read(h)
    /\ Goto(h, CASE session.phase = "cancel-opening" -> "check"
                 [] session.phase = "quote-selected" /\ {"config", "funding"} \intersect session.listed = {} -> "withdraw"
                 [] OTHER -> "intend")
    /\ UNCHANGED <<session, file, money, bounds>>

\* Nothing was prepared: the session ends at once.
Withdraw(h) ==
    /\ At(h, "withdraw")
    /\ Commit(h, InPhase("cancelled"), "idle", "idle")
    /\ UNCHANGED <<file, money, bounds>>

\* The intent to cancel is durable before anything is released.
Intend(h) ==
    /\ hand[h].pc \in {"intend", "recover"}
    /\ Commit(h, InPhase("cancel-opening"), "check", "idle")
    /\ UNCHANGED <<file, money, bounds>>

\* cancelUnfundedOpening: the seller must not have answered ...
Check(h) ==
    /\ At(h, "check")
    /\ IF session.phase \in {"cancel-opening", "cancelled"} /\ ~Held({"kind3", "kind4"})
       THEN Goto(h, "ledger") ELSE Return(h)
    /\ UNCHANGED <<session, seen, file, money, bounds>>

\* ... and neither the ledger nor the outbox may know of a dispatch.
CheckLedger(h) ==
    /\ At(h, "ledger")
    /\ hand' = [hand EXCEPT ![h] =
        IF HasPlan
        THEN IF /\ {session.tx, file.funding} \subseteq {0, FirstPlan}
                /\ outbox[FirstPlan] \in {"none", "prepared"}
                /\ plan[FirstPlan] \in {"prepared", "failed"}
             THEN [pc |-> "free", tx |-> FirstPlan, res |-> "none"]
             ELSE Idle
        ELSE IF {session.tx, file.funding} = {0} THEN Forward(h, "finish") ELSE Idle]
    /\ UNCHANGED <<session, seen, file, money, bounds>>

\* The wallet first: from here on the transaction cannot be dispatched.
Free(h) ==
    LET t == hand[h].tx IN
    /\ At(h, "free")
    /\ IF MayRelease(t)
       THEN ReleaseSpend(t) /\ Goto(h, "free-ledger")
       ELSE Return(h) /\ UNCHANGED <<wallet, live>>
    /\ UNCHANGED <<session, seen, file, plan, pool, outbox, taken, bounds>>

FreeLedger(h) ==
    LET t == hand[h].tx IN
    /\ At(h, "free-ledger")
    /\ IF plan[t] \in {"prepared", "failed", "observed"}
       THEN ReleasePlan(t) /\ Goto(h, "finish")
       ELSE Return(h) /\ UNCHANGED <<plan, pool>>
    /\ UNCHANGED <<session, seen, file, outbox, wallet, live, taken, bounds>>

FinishCancel(h) ==
    /\ At(h, "finish")
    /\ Return(h)
    /\ IF session.phase = "cancelled"
       THEN UNCHANGED <<session, seen>>
       ELSE session' = Pending("cancelled", 0) /\ seen' = {h}
    /\ UNCHANGED <<file, money, bounds>>

CancelStep(h) ==
    Withdraw(h) \/ Intend(h) \/ Check(h) \/ CheckLedger(h) \/ Free(h) \/ FreeLedger(h) \/ FinishCancel(h)

-----------------------------------------------------------------------------
(* Recovery: after unlocking, and whenever the purchase is looked at again *)
(* (restoreMsfileBitfsBuyerPurchaseSummary).                               *)

Restore ==
    /\ At("side", "idle")
    /\ \/ {"kind2", "config", "funding"} \intersect session.listed # {}
       \/ session.phase = "cancel-opening"
    /\ \/ /\ session.phase = "failed"
          /\ ~Held({"kind3", "kind4"})
          /\ Goto("side", "recover")
       \/ /\ session.phase = "cancel-opening"
          /\ Goto("side", "check")
       \/ /\ session.phase = "funding-unknown"
          /\ Reserved(file.funding)
          /\ outbox[file.funding] # "failed"
          /\ hand' = [hand EXCEPT !["side"] = [pc |-> "lookup", tx |-> file.funding, res |-> "none"]]
    /\ Read("side")
    /\ UNCHANGED <<session, file, money, bounds>>

\* reconcileFunding: a transaction found is settled like a confirmed one.
LookUp ==
    LET t == hand["side"].tx IN
    /\ At("side", "lookup")
    /\ \/ /\ outbox[t] = "confirmed" \/ t \in taken
          /\ outbox' = [outbox EXCEPT ![t] = "confirmed"]
          /\ Goto("side", "submit")
       \/ /\ outbox[t] # "confirmed"
          /\ Return("side")
          /\ UNCHANGED outbox
    /\ UNCHANGED <<session, seen, file, plan, pool, wallet, live, taken, bounds>>

\* The Worker crashes or the wallet is locked.  When it runs again the outbox
\* asks the chain, with or without an answer (reconcileBitfsTransactions).
Restart ==
    /\ restarts < MaxRestarts
    /\ restarts' = restarts + 1
    /\ hand' = [h \in Handlers |-> Idle]
    /\ seen' = {}
    /\ live' = {}
    /\ \E found \in SUBSET taken :
        outbox' = [t \in Txs |-> IF t \in found /\ outbox[t] \in {"prepared", "unknown"}
                                 THEN "confirmed" ELSE outbox[t]]
    /\ UNCHANGED <<session, file, plan, pool, wallet, taken, opens>>

-----------------------------------------------------------------------------
Step(h) == SubmitStep(h) \/ CancelStep(h)

Next ==
    \/ Open \/ OpenStep \/ Respond \/ AnswerStep
    \/ \E h \in Handlers : Step(h) \/ Cancel(h)
    \/ Restore \/ LookUp \/ Restart

Spec == Init /\ [][Next]_vars

\* Handlers run on; the seller answers while the session can use it; the
\* recovery is run again; a transaction a node has is found in the end.
Fairness ==
    /\ WF_vars(OpenStep) /\ WF_vars(AnswerStep)
    /\ \A h \in Handlers : WF_vars(Step(h))
    /\ WF_vars(LookUp)
    /\ SF_vars(Respond) /\ SF_vars(Restore)
    /\ \A h \in Handlers : SF_vars(Reconcile(h) /\ hand'[h].pc = "observe")
    /\ SF_vars(LookUp /\ hand'["side"].pc = "submit")

FairSpec == Spec /\ Fairness

-----------------------------------------------------------------------------
FundingTypeOK ==
    /\ session \in [phase : Phases, tx : {0} \union Txs, listed : SUBSET Names]
    /\ seen \subseteq Handlers
    /\ file \in [names : SUBSET Names, funding : {0} \union Txs]
    /\ plan \in [Txs -> PlanStates]
    /\ pool \in [state : PoolStates, tx : {0} \union Txs]
    /\ outbox \in [Txs -> OutboxStates]
    /\ wallet \in [Txs -> WalletStates]
    /\ live \subseteq Txs
    /\ taken \subseteq Txs
    /\ hand \in [Handlers -> [pc : Steps, tx : {0} \union Txs, res : {"none"} \union OutboxStates]]
    /\ opens \in 0 .. MaxOpens
    /\ restarts \in 0 .. MaxRestarts

\* A released transaction is in no block: coins that a cancellation, a failed
\* opening or a refused dispatch gave back are never spent by it as well.
ReleasedUntaken == \A t \in Txs : wallet[t] = "rejected" \/ plan[t] = "failed" => t \notin taken

\* A pool is open only over a transaction that a node has, that is the one
\* fixed in the session, and that the outbox knows; a funded session has the
\* proof on file.
OpenIsFunded ==
    /\ pool.state = "open" =>
        pool.tx \in taken /\ pool.tx = file.funding /\ outbox[pool.tx] = "confirmed"
    /\ session.phase = "funded" => pool.state = "open" /\ {"kind3", "kind4"} \subseteq file.names

\* A cancelled session leaves nothing reserved once its handlers are done,
\* although an opening may have been under way beside the cancellation.  A
\* crash in between is excepted: nobody comes back to a cancelled session.
CancelledFreed ==
    session.phase = "cancelled" /\ restarts = 0 /\ (\A h \in Handlers : At(h, "idle"))
        => \A t \in Txs : plan[t] \in {"none", "failed"} /\ wallet[t] \in {"none", "rejected"}

\* Money in the network is not forgotten: with a seller that answers, the
\* session becomes funded whatever was lost in between.
PaidIsFunded == taken # {} ~> session.phase = "funded"

\* "after an interruption the same cancellation goes on under cancel-opening"
\* (buyerTask.ts:547-548): a recorded cancellation comes to an end.
\* The code does not keep this: README, section 3.
CancellationSettles == session.phase = "cancel-opening" ~> session.phase # "cancel-opening"
=============================================================================
