# Verification project for Keymaster

Keymaster (`src/`) is a local-first BSV wallet for the browser. Its pages are plain
windows; the private key, the storage and the network live in one SharedWorker, the
*Coordinator*, assembled in `src/src/assembly/coordinatorWorker.ts` out of plugin packages
(`src/packages/*`). This directory holds TLA+ models of the parts whose correctness depends
on the order in which things happen, the TLC runs that check them on small instances, and
TLAPS proofs of what matters most for every size.

JavaScript runs one job at a time. In every module an action is therefore one job, the code
between two `await`s, a timer that fires or a message that is handled, and the only thing
left open is the order of the jobs. Text, logging, validation of shapes and cryptography
are left out; every decision, early return, failure path and assignment that a later
decision reads is kept.

## 1. The system

### Components

| Component | State | Operations | Hard part | What makes it correct |
|---|---|---|---|---|
| Wallet lock barrier (`src/src/walletLockBarrier.ts`) | waiting pages, clean-up operations with their promises, attempt, phase, time-out | `begin`, `retry`, `register`, `remove`, `report`, time-out | reports of older attempts, time-outs with operations still running, pages that come and go | opens only when everything was cleaned; never runs an operation twice at once; ends |
| Wallet session (`coordinatorWorker.ts` 2480–2780, plugin-vault) | vault status, session epoch, active key, in-memory key, revocation, blocked tasks | global lock, unlock, binding, password change | the lock is not queued: it falls between any two awaits of the request being served | a lock is not undone by an older request; no key and no task behind a lock |
| Page sessions (`coordinatorWorker.ts` 1390–1530, 2870–3240) | peer registry with generations, bindings, storage I/O owner, exposed services | connect, open, replace, join, close, revoke, reconcile exposures | an open waits twice, in its own tail and in one shared by all pages | no overtaken open commits; the last open owns storage I/O; no stale proxies |
| Topic stream (`coordinatorWorker.ts` 1230–1310, 3180–3240; client 480–560, 1340–1420) | bounded queue per page, baselines, revisions, the page's projection | publish, subscribe, yield, deliver, reconnect | queue limit, responses that overtake events, a Worker that counts from zero again | no lost update, no step back, catches up |
| Background tasks (`plugin-background/src/workerRuntime.ts`) | runtime of each task, timers, completions, blocked flag | register, run-now, cancel, restart, settings, lock, timers | an aborted run ends later than the state that aborted it | one run at a time, quiet while locked, scheduled while available |
| Final I/O authority (`src/src/coordinator/{coordinatorAuthorityLock,workerAuthority}.ts`) | Web Lock, authority record, upgrade gate, leases, shared read lease | claim, admit, acquire, run, judge, release, close the gate | two Workers alive at once; the gate closes during an operation | one writer per origin; leases exact; no success behind a closed gate |
| Request queue (`coordinatorWorker.ts` 2403–2486) | promise chain, cancellations | enqueue, start, cancel | a request starts in another session than it was issued in | started only under its own epoch |
| Worker units (`src/src/coordinator/workerUnit*.ts`, `sharedWorkerRetirement.ts`) | instances, readiness, retirement timer | register, start, stop, retire | a late result of a replaced instance | fenced by the instance id |
| K-V engine and IndexedDB store (`platform-storage/src/kv-engine`, `local`) | heads, value objects, revisions, the write queue of the database | get, list, commit with CAS and retry, garbage collection, reset | every request has a handle of its own; readers and the collection take no lock | a head never refers to a missing value; a commit takes effect once, in one step |
| Storage bindings (`platform-storage/src/coordinator`) | grants per page, epoch and generation | bind, revoke, drain | revoked before committed | no grant survives its session |
| Wallet lifecycle (`plugin-vault/src/walletLifecycleService.ts`, `workerWallet.ts`, `workerAutoLock.ts`) | key record, store | create, import, rename, reset, automatic lock | failure between two steps | record and session agree |
| Channel subscriptions (`plugin-sat-subscription/src/channelSubscriptionMux.ts`) | callers' sets, remembered physical set, reported phases, operation queue, retry timer | set, release, clear, retry, dispose | wanted again while being released; an aborted call may have reached the supplier | the supplier's set follows the union of the callers; a report is true |
| Sat provider (`plugin-sat-subscription`, the rest) | suppliers, fees, acknowledgements | choose, register, acknowledge | expired quotes and late acknowledgements | no fee is paid twice |
| P2PKH transfers (`plugin-p2pkh`, broadcast of `plugin-woc`) | coins, frozen allocations, intentions, previews, durable plan records | prepare, presign, submit, expire, cancel, release, observe a receipt | handlers of one coin meet at every await; a lost answer leaves the result open | no coin used twice; coins come back |
| BitFS buyer: opening a pool (`plugin-msfile/src/bitfs`) | session record, evidence files, funding ledger, outbox, wallet record | open, presign, dispatch, prove, cancel, recover | five stores and no transaction over them; the seller may answer a cancelled opening | what was given back was never paid; what was paid is not forgotten |
| BitFS pool: payments, close, arbitration, seller (`plugin-msfile/src/bitfs`) | journals of buyer and seller, evidence files and their listing, the data channel, the transaction that spends the pool | request, deliver, pay, close, arbitrate, reconnect | replay after a lost connection, crashes between two writes, an arbitration timer beside the frames | both hold the same payments; a close covers them; the pool is settled once |
| Connect (`plugin-protocol`) | the requests of each connection, their queue and executor, approvals, permissions, the payment records | accept, confirm, time out, cancel, execute, pay, look up, pause | a decision falls into any await; one payment asked for on two connections; the approval of a payment inside its execution | what was refused is not carried out; one payment, one transaction, a true record; the executor comes free |
| MSFile service and streams (`plugin-msfile`) | collectors, streams | serve, collect | partial files | what is served was verified |
| WoC queue (`plugin-woc/src/wocActor.ts`) | request queue, rate budget | enqueue, drain, abort | abort during a request | order, budget, progress |
| Window P2P (`plugin-window-p2p`), media (`msfile-media`), runtime and Host adapter (`runtime`, `bootstrapPlugins.ts`), client (`keymasterSessionCoordinatorClient.ts`), pages, AI, scan, apps, contracts, crypto | see `PROJECT.json` | | | |

External code the product rests on: `webloom-framework` (plugin Host, upgrade gate,
RPC and streams), `keymaster-utxo-manager`, `keymaster-trade-scheduler`, `bitfs-protocol`,
`bitcoin-libp2p`, and the browser (Web Locks, IndexedDB, SharedWorker). It is modelled only
as the code under `src/` uses it.

### How they interact

```
 page ── session.open / close ──► page sessions ── storage I/O owner ──► storage bindings
  │  ◄── topic stream ──────────  (peers, generations)                        │
  │                                     ▲ expose / revoke services            ▼
  ├── requests ──► request queue ──► vault (unlock, password) ──► final I/O authority ─► K-V, IndexedDB
  │                                     │   epoch                   gate, leases, Web Lock
  ├── lock (not queued) ─────────► wallet session ─► lock barrier ─► revoke, stop units,
  └── lock report ───────────────────────────────────►  │            drain tasks, close gate
                                                        └► background tasks, Worker units

 BitFS seller ◄─ Kind 2..13 ─► BitFS buyer (pool: requests, payments, close) ─► arbiter
 BitFS buyer ─ funding, Kind 2..4 ─► ledger, outbox ─ spend plan ─► P2PKH transfers ─► broadcast ─► node
      │ journal, evidence                                                │ durable record
      └───────────────────────────► K-V engine ◄─────────────────────────┘
 consumers ─ channel sets ─► channel subscriptions ─► supplier
 application ─ request, cancel ─► Connect (queue, executor) ─ payment ─► P2PKH transfers
                                     └ payment records, permissions ─► K-V engine
```

The **session epoch** ties the parts together: it is rotated by a lock, an unlock and a
password change, pages are told it, and requests, events, reports, runs and final I/O
compare the epoch they began in with the current one. Most hazards of this code are a
missing, early or late comparison.

## 2. The modules

| Module | Models | Its proofs |
|---|---|---|
| `WalletLockBarrier` | the barrier, every method but the `reset` of the test harness | `WalletProofs` |
| `WalletSession` | EXTENDS the barrier with the session that drives it: it composes the lock, unlock, binding and password change | `WalletProofs` |
| `CoordinatorSessions` | the sessions of all pages | `CoordinatorProofs` |
| `CoordinatorTopics` | Worker, port and projection of one page | `CoordinatorProofs` |
| `BackgroundTasks` | one task between timers, requests, the Host and the lock | `BackgroundTasksProofs` |
| `CoordinatorAuthority` | several Workers of an origin and the final I/O operations in each | `CoordinatorProofs` |
| `KvStore` | abstract: what the key-value store promises, one atomic map per partition | its implementation: `WalletProofs` |
| `WalletKvEngine` | the engine of heads and value objects over IndexedDB; implements `KvStore` | `WalletProofs` |
| `P2pkhTransfers` | the spending of one unlocked session: pool, intentions, transfers, funding plans, broadcast | `P2pkhTransfersProofs` |
| `BitfsFunding` | one purchase of a BitFS buyer over its durable stores, to the funded pool or the cancellation | `BitfsFundingProofs` |
| `BitfsPayments` | a funded pool between buyer and seller: requests, payments, close, arbitration, reconnection, crashes | `BitfsPaymentsProofs` |
| `ChannelSubscriptions` | the multiplexer of channel subscriptions and its supplier | `ChannelSubscriptionsProofs` |
| `PaymentLedger` | abstract: what an application is promised about its payments | its implementation: `ConnectRequestsProofs` |
| `ConnectRequests` | the requests and payments of an application over several connections; implements `PaymentLedger` | `ConnectRequestsProofs` |

An `MC` module only declares the symmetry and the sets of constants a `.cfg` needs.
Definitions marked `Mutant` are variations of the definition beside them with a bug one
could plausibly write there; no specification uses them. Replacing the definition by its
mutant makes TLC find the property violated, which shows that the property says something
about that code. `PROJECT.json` lists them, and maps every definition to the lines it
translates.

### State and actions against the code

**WalletLockBarrier.** `windows` is the `Map` of pages still waited for (a settled page is
deleted from it), `ops[o]` an operation with its promise: no promise, behind its
`setTimeout(0)`, or running. `Commit` is `commit()`; it runs after every change, as in the
code, and disarms the timer of a cleared barrier. A page's report travels as a message of
`reports` that carries epoch and attempt; `Accepted` is the guard of `report()`. A page
that is fenced takes its reports with it, because the Worker refuses requests of a fenced
peer.

**WalletSession.** The serial queue lets one vault request run at a time: `request` is its
step and the epoch it captured. `Lock` may occur at any step. `RunOperation` and
`RevokeFails` model the revocation that the four clean-up operations share: the first that
succeeds clears `revocationPending`, every failure is retried by the next. `BindingFailed`
is the fail-closed path of `completeUnlockedBinding`, which locks the wallet.
`ChangePasswordStart` has no guard but the serial queue: a password change by `vault.operation`
is refused neither in a locked session nor under an open barrier, and it rotates the session's
epoch when it comes to it. The pages report under the session's epoch, not the barrier's:
`announced` is the epoch in which the current attempt started, and `Told` the epochs in which
a page may have been told of it since. `BarrierSpec` lets a page report under any epoch and the
barrier drop what it does not accept, so the session implements it through such a change as well;
what is lost is progress (`CleanupEnds`, and `BarrierEpochIsCurrent` in section 3).

**CoordinatorSessions.** A peer has a status, a generation and, while open, a binding
(generation and lease). `opens[p]` is the peer's operation tail, `initTail` the tail all
peers share. `RequestOpen` remembers the generation the request saw; `BeginOpen`,
`StartInitialization` and `CommitOpen` each compare it after a wait. `Fence` is
`fenceCoordinatorPeerSession` with the owner selection it triggers. `pages` is the
environment: what each page asked, was told and closed, with late and repeated closes.

**CoordinatorTopics.** `Enqueue` coalesces adjacent storage activity, and ends the stream of
a page whose queue is full. `BuildBaselines` takes one snapshot of every topic after the
queue was registered; `Yield` puts one item on the port when the stream has credit, so call
responses (`Respond`) overtake items that wait. `Applied` is `applyTopicEvent`, with deferred
unit events of other epochs. A lost connection and a new Worker both reset the page.

**BackgroundTasks.** `task` is the entry of `taskRuntimes`, `runs` the executions whose
promise has not settled (a run keeps the epoch it began in), `draining` the completions the
lock waits for. `Finish` is the end of `executeTask`, its `try`, `catch` and `finally` in
one job. `Lock`, `Revoke`, `Cleaned`, `Unlock` and `Bind` are what the session does to the tasks.
Tasks share nothing but the idle timer, so a single task is modelled, with either sync
policy.

**CoordinatorAuthority.** Every Worker has its own record and operations; `webLock` belongs
to the origin. The phases of an operation are the awaits of
`withCoordinatorFinalIoLeaseAdmitted`. A reader enters and leaves the shared lease through a
promise chain (`mutations`). `LockCommit` and `LockRevoke` are two jobs, so operations run
between the commit of a lock and the closing of the gate.

**KvStore and WalletKvEngine.** `KvStore` has two steps for a commit, `Apply` and `Answer`, and
two for a read, `See` and `Tell`; each says what the step may depend on. In `WalletKvEngine`
a commit is `ReadHead` (the head, the judgement and the batch of the write transaction, one
turn), `Batch` when the database gets to it (transactions of a store run in order, `queue`) and
`Landed`, with a retry when the head has moved. A handle is stale once a lock or a reset
has ended its era: every transaction may be refused before and after it ran, which is why
`AnswerCommit(w, "unavailable")` is possible although the commit has landed. `GcList`,
`GcReadHead` and `GcDelete` are the garbage collection, which lists the values before
it reads the heads one by one. `KvStoreSpec` is the instance of `KvStore` under the mapping
in which the heads' contents are the map.

**P2pkhTransfers.** `state[s]` is the entry of a transaction intention, `frozen` the
allocations of the pool, `record` the durable record of a funding plan, `call[h]` a handler
with its place among the awaits. `taken` is the environment: a node has the bytes. A
broadcast is `dispatch`, `provider` and `result`; between the first two the answer may be lost.
`Submit` and what follows is an ordinary transfer, `Presign`, `SubmitExact` and `ReleasePlan`
what a BitFS funding calls, `Expire` the timer of a preview. The lock is not an action: it
disposes of pool and runtime together, and the next session starts from the chain.

**BitfsFunding.** Two handlers, `link` (the frames of the channel, serialized) and `side` (a
cancellation without a channel, and the recovery). `hand[h].pc` is the durable write or
network call the handler is at; `session` is the record under compare-and-swap (`Commit`,
`seen`), `file` the evidence that is written before it is listed, `plan` and `pool` the
funding ledger, `outbox` the broadcast record, `wallet` the prepared spend, which is
`P2pkhTransfers`' record of a plan seen from its caller. `Restart` ends the handlers and keeps
the files. The blocks of a definition follow the order of the writes in the code, because that
order is what the properties are about.

**BitfsPayments.** `buyer` and `seller` are the two session records with their evidence: `file` is
what is on disk, `listed` what the record names. The handlers of a session run one after the
other (`serial`, `exclusive`), so a handler's action decides, on the record it reads, the
list of what it will do (`running`): write, await, assert its context, send, ask the network.
`WriteEffect`, `SendEffect` and the others do one item each, and a crash or a closed channel falls
between any two. A signature is its digest on disk, then the signature on disk (`SignWith`); a
digest alone is `Uncertain`, and both sides refuse it for ever, as the code does. The seller awaits
the block height before it answers a request or signs a payment or the close, and the signer
between digest and signature (`Await`): `AwaitAnswer` lets the call succeed, or fail, which closes
the connection (`Broken`) or, for a pool under arbitration, ends the attempt. A call of the buyer
that fails ends its handler and its channel: that is `Lose`, then the end of the handler at its
next `assert`. A frame is a kind, a
request and a payment number: payments are cumulative and one per request, so a number stands
for an amount. What the scheduler (outside this repository) decides, to ask, to close, to use a
new connection, is left open. `Connect` is a new connection the scheduler uses, `Reconnect` one
over which the user resumes the purchase, where Kind 2 goes first.

**ChannelSubscriptions.** `callers`, `physical` and `statuses` are the maps of the class,
`queue` and `op` its `operationTail` and the operation under way. `remote` is the supplier: what
it really serves. Each call of the driver is a start and an end (`subscribing`,
`unsubscribing`), and an abort in between leaves the supplier in `doubt`.

**PaymentLedger and ConnectRequests.** `phase[r]` is the phase of a request's record and `at[r]` the
await its handler or its execution is in; the two are apart because a record may be closed
while its execution runs on. `queue`, `drain` and `head` are `executionQueue` and the loop of
`drainExecutionQueue`, with the request it took before it awaited the probe. `approval` is the
promise that a payment's execution waits on in the middle, `remember` a confirmation that
stores the permission over two awaits (`RememberRead`, `RememberWritten`). A claim is `ReadClaim`
(revision, then record) and `CommitClaim` (the conditional write); `fresh` says that the
revision read is still the current one. `tx[r]` is the Worker's row of a submission, the
intention of `P2pkhTransfers` seen from its caller. `Lock` clears the rows at once and makes the
connections in use stale; their pages hear of it later (`Pause`). `PaymentsSpec` is the instance of
`PaymentLedger` under the mapping in which a payment's posts are the submissions that were
posted for its key.

## 3. Runs

| Run | Checks | Instance | What it shows |
|---|---|---|---|
| `session` | `SettledPagesAnswered`, `UnlockedOnlyWhenClean`, `LockedTasksBlocked`, `NoOverlappingCleanup`, `NoUnlockAcrossLock`, `BarrierSpec`, `CleanupEnds` | 1 page, 2 operations, 2 attempts, 3 epochs (162k) | a lock at every point of unlock and password change, a password change at every point of a lock; what holds whenever the gate opens; the clean-up ends while no password change rotates the epoch under it; the session implements the barrier |
| `sessions` | `BindingCurrent`, `SessionKept`, `ExposureCurrent`, `OwnerIsLatestOpen`, `OpensAnswered` | 2 pages, 2 opens and 1 open, 2 identities (45k) | bindings, I/O owner, exposures and progress |
| `topics` | `NoLostUpdate`, `CatchesUp` | queue of 2, 3 publications, 2 epochs, 1 loss or restart, 1 response (636k) | nothing lost, the page catches up |
| `tasks` | `SingleRun`, `QuietWhileLocked`, `KeepsSyncing` | both policies, 6 epochs (32k) | one run at a time, quiet while locked, synced again and again while available |
| `authority` | `SingleWriter`, `LeasesExact`, `NoLateSuccess`, `WaitsEnd` | 2 Workers: one with an operation of every kind beside a read, one with a write; 2 epochs, 1 exit (130k) | one Worker does final I/O; leases are exact; cut-off I/O is no success; waits end though bodies may hang |
| `kv` | `HeadsIntact`, `KvStoreSpec` | 2 writers, 1 reader, 2 partitions, 1 key, 1 content, 2 value ids, 2 attempts, 2 commits (78k, symmetric) | the collection never takes a value a head refers to; commits and reads are atomic |
| `transfers` | `NoDoubleSpend`, `EndedTransferFreed`, `FundsSettle` | 2 coins, 1 transfer, 1 plan, 2 handlers, 1 preview, 2 tries (422k) | coins are given back only when no node can have the bytes, and are given back |
| `subscriptions` | `SubscribedIsReal`, `QuietIsServed`, `Converges` | 2 callers, 2 channels, 3 changes, 1 failure, 1 abort (373k) | reports are true; the supplier follows the callers |
| `bitfs` | `ReleasedUntaken`, `OpenIsFunded`, `CancelledFreed`, `PaidIsFunded` | 3 openings, 2 crashes or locks (33k) | nothing is given back that was paid, and what was paid becomes a funded session |
| `payments` | `PaymentsAgree`, `CloseIsFinal`, `OneSettlement`, `CloseServed` | 2 requests, 1 lost connection, failed call or crash, 1 frame waiting when the close is asked for again (264k) | both journals hold the same payments; a close covers them; one settlement; a close that was asked for is served unless a failed call cut a signing short |
| `connect` | `RefusalHolds`, `PaymentsSpec`, `RunsEnd` | 2 connections, 1 payment asked for on both, 1 signature behind it, 1 trouble (506k) | nothing refused is carried out; the payment ledger is kept; the executor of a connection comes free |

One run expects a violation; it is a disagreement between the code and what the
repository says of it (quoted in `PROJECT.json` under `findings`):

| Run | Violated | What happens |
|---|---|---|
| `connect_cancel` | `CancelHolds` | The executor takes the head of the queue, then awaits whether it may be executed (`protocolService.ts:3021`). A request cancelled in between has left the queue and was answered `user_rejected`; it is executed all the same, and the `shift()` that follows drops the request behind it, which stays queued for ever |

Eleven more statements were refuted the same way by runs that are not kept. Their definitions
stay in the modules, marked:

| Definition | What happens |
|---|---|
| `WalletSession!BarrierEpochIsCurrent` | Storage control refuses a password change while a clean-up is pending (`workerControl.ts:83`); the same change by `vault.operation` is not refused (`coordinatorWorker.ts:2459` looks at the barrier for `unlock` only). It gives the session a new epoch (759) while the barrier keeps the lock's, and the barrier drops the reports of pages that have not answered yet (`walletLockBarrier.ts:63`): they time out, and so does every retry as long as a page is registered |
| `WalletSession!LockedHasNoIdentity` | `changePassword` compares no epoch after its awaits (`walletLifecycleService.ts:440`). A lock whose clean-up ends in between is followed by a session: the locked wallet has an active key identity and a new epoch. The same comes of a password change that is asked for while the wallet is locked. (The key itself stays erased, see `UnlockedOnlyWhenClean`.) |
| `WalletSession!ChangePasswordLocks` | The dialog (`plugin-vault/src/manifest.ts:316`) says that a password change locks the wallet; the code keeps it unlocked under a new epoch |
| `CoordinatorSessions!ReconcileRevokesOld` | A reconcile that throws for one page stops (`coordinatorWorker.ts:3039`): the pages after it keep the services of the old identity |
| `CoordinatorTopics!DeferredApplied` | A call response brings the new epoch before `session.state` does; then the `session.state` finds nothing changed, and the deferred units event stays unapplied (`keymasterSessionCoordinatorClient.ts:1357`) |
| `BackgroundTasks!IntervalKept` | A password change cancels the tasks of a wallet that stays unlocked (`coordinatorWorker.ts:769`); nothing schedules them again before the next lock and unlock |
| `ChannelSubscriptions!ReturningIsConfirmed` | A channel that becomes wanted again is reported as subscribed from memory, before the supplier confirmed it (`channelSubscriptionMux.ts:221`) |
| `P2pkhTransfers!UncertainStaysFrozen` | A plan whose result is unknown is sent again; a refusal of the second sending frees the coins although the first may be in the network (comments at `workerProtocolRuntime.ts:113` and `workerOperations.ts:48`) |
| `WalletKvEngine!LateWritesRefused` | `resetWallet` says that writes which come late are refused (`walletLifecycleService.ts:462`). A commit whose transaction is queued behind the one that clears the store lands in the emptied store: the reset revokes the grants but neither changes the epoch nor waits for what is under way |
| `BitfsPayments!ReplayServed` | The seller is to answer a repeated request with the delivery it saved (`sellerProtocol.ts:274`). After a lost connection the buyer sends its proof of funding again before the request (`buyerProtocol.ts:712`); a seller that has prepared the delivery refuses the proof and closes the channel, so the delivery is never sent again |
| `BitfsFunding!CancellationSettles` | A cancellation that is fixed between the write of the seller's answer as a file and its listing in the record is refused on every later attempt (`buyerTask.ts:558`) |

Smaller disagreements between comments and code that modelling showed, without a run:

- `storageBindingAuthority.ts` says that the generation changes when the same key is imported
  after a reset; the generation is a function of network and public key.
- `indexedDbWalletStore.ts:493` says that a new generation is written in the transaction of the
  reset; the code returns an empty one.
- After a crash between the reservation of a pool's funding and the re-read of the session, a
  cancellation that finishes leaves the plan `prepared` in the ledger and nobody returns to
  it. `CancelledFreed` therefore excepts restarts.
- A payment (Kind 7) that is lost is not sent again: the buyer's replay has the close, or the proof
  of funding and the request, and the seller waits in `delivery-prepared` for the close or the
  arbiter. For the same reason the branches that answer a repeated request, delivery or
  payment are reached in no run: every replay that could repeat one begins with the
  refused proof of funding. They are in the model because they are in the code.
- A seller that dies between the countersigned payment and the phase `paid` stays in
  `payment-signing`. The branch of `sellerProtocol.ts` that should mend it (a repeated Kind 7
  reuses the saved transaction) stands behind the test for a saved payment, which returns first.
- When Kind 13 is lost after the seller's phase is `closed`, the Kind 2 of every reconnection is
  refused with `pool_closed`: the buyer does not learn of the close by this protocol.
- When the block height or the signer fails for the seller after a payment is on record
  (`payment-signing`), the handler ends with an error and the connection is closed. The buyer has
  moved on to its next request or the close and never sends that payment again, and the seller
  refuses a Kind 12 in this phase (`sellerProtocol.ts:417`); after the digest of the close it
  refuses to sign again (631). No close is then served, though nothing crashed:
  `SigningCutShort`, which `CloseServed` excepts.
- A crash, a lock or a failed call between the digest and the signature of a payment or a close is refused for
  ever by both signers (they fail closed); a buyer that dies between a saved Kind 12 and its
  phase, and then pays again, cannot close, because the amount is bound to the older payments.
- A seller that dies before its arbitration request is listed may sign a close and, later, the
  arbitration of one pool. `OneSettlement` therefore excepts crashes of the seller.
- A queued request can start after the session it was issued in has ended
  (`coordinatorWorker.ts:2439`), and the `worker.units` of an epoch can reach a page before its
  `session.state` does (client line 1355): hazards that no run covers.
- A page that closes between the claim of a payment and its plan leaves a record that stays
  `pending` when the Worker never had a row for it (`protocolService.ts:4411`): a lookup learns
  nothing, asking again finds the claim, and the record counts against the 64 pending payments of
  its origin. `PaymentsSpec` promises no end for that reason.
- `coordinatorWorker.ts` 682–684 can broadcast a session state while exposures are stale.

### Bounds

Constants named `Max…` cap counters the code leaves unbounded, except `MaxAttempts` (the
eight automatic retries of a commit) and, in the topics, `QueueLimit` (256 in the code);
besides the types they appear only in the guards of the actions that count. They are enough
because the code compares counters for equality or order with at most one remembered older
value: two attempts give a report an older attempt to belong to, two locks an older epoch,
two opens of a page an older lease and two identities an older exposure. Three epochs allow the
session an unlock, a lock and a password change, in any order and one inside the other. The queue
limit 2 of the topics is the least that can both coalesce and overflow. `MaxRevision` of the
topics counts the publications of one Worker over all topics. Two pages do not show the
choice among several successors of the storage I/O owner: there `OwnerIsLatestOpen` is covered
by its proof, for any number of pages. The engine's two partitions are what a collection needs
to read one head before and one after a commit, its two ids what a lost race needs to leave a
value behind; `NoValueLost` covers every size. Three openings of a BitFS purchase give a
transaction that failed, one that was replaced and one that was paid; two crashes fall before and
after the dispatch. Two requests in a pool are the least with a payment before another; one
lost connection, failed call of the seller or crash at any write is followed by a full replay. In the requests of an application
`Attended` are those the user answers or the application cancels, `Remembering` those whose
confirmation may store the permission, `Granted` the permissions of an earlier visit; a
trouble (`MaxTroubles`) is a failed call, a revocation, a lock or a page that ends. One
trouble falls at any await of three executions, and a lost answer and the second request
for the payment that asks after it need no second one.

The sizes keep every run within two or three minutes. Larger instances passed once: the barrier's
session with 4 epochs (493k states) and with 5 (1.45M), both pages opening twice (497k), the
engine with two keys (791k), with three ids (936k), with two contents (839k) and with two
commits of a partition (318k), the transfers with two transfers (740k) and with two plans
(2.6M), the pool with two faults (1.48M). The symmetric runs check safety only.

`CHECK_DEADLOCK FALSE` is stated for the topics, the tasks, the transfers, the subscriptions,
the purchase, the pool and the requests, where everything may have happened that the bounds allow, and the system then
rests.

### Fairness

Weak fairness of jobs the JavaScript runtime or the browser runs on its own, and, where
named, strong fairness of what the outside does again and again:

- barrier: timers fire, operations settle (each awaits bounded work or is failed by the
  time-out), pages answer and messages arrive, and the user retries a failed clean-up. Without that retry
  nothing in the code runs a failed operation again, so `CleanupEnds` is conditional on it.
  It has two more premises. Pages stop leaving (`PagesStay`): the time-out is armed once per attempt,
  and pages that register and leave in turn afterwards can hold a barrier pending. And the
  barrier's epoch stays the session's (`BarrierEpochIsCurrent`), which a password change breaks.
  Under them every attempt ends: the barrier clears, or the last attempt allowed fails.
- page sessions: the promises of an open settle, the shared initialization among them.
- topics: the page's reconnection timer fires, calls settle, credit is granted. A page that
  never grants credit is the case the queue limit exists for, and is not promised anything.
- tasks: timers fire and runs end. A provider that ignores its abort signal is outside this.
- authority: promise reactions run. Bodies are not assumed to end: `WaitsEnd` shows that others
  do not wait for them.
- transfers: signer, disk and provider answer in the end, and the preview timers fire.
- subscriptions: the driver answers every call and the retry timer fires.
- purchase: handlers run on. Strong fairness of `Respond` (a seller that can be reached again and
  again answers once), of `Restore` (the recovery is run again) and of chain lookups that
  find what a node has. `PaidIsFunded` is conditional on that seller.
- pool: handlers and frames on an open channel go on, and the seller's idle timer closes a channel on
  which nothing happens. Strong fairness of `Reconnect`: the user resumes an unfinished purchase.
  `CloseServed` is conditional on it, and excepts crashes and failed calls that cut a signing
  short, after which a signature is refused for ever (above), and a seller that turns to the
  arbiter. A call that is awaited is answered or fails.
- requests: one weak fairness of everything that goes on without the users. The calls a handler
  awaits are answered or fail, a confirmation has a timer, the Worker brings a submission to an
  end (`FundsSettle`), and a stale page hears of the lock. No step of a request is ever
  repeated, so it is enough that not everything stops. Nobody has to confirm or to stay connected.

## 4. Proofs

All theorems hold for every value of the constants under the named assumptions of the
modules: `BarrierAssumption`, `SessionsAssumption`, `AuthorityAssumption`, `TasksAssumption`,
`TopicsAssumption`, `KvAssumption`, `SubsAssumption` and `BoundsAssumption` (transfers), `OpensAssumption` and
`RestartsAssumption` (purchase), `FaultsAssumption` and `QueueAssumption` (pool), `ChannelsAssumption`, `RequestsAssumption` (requests). They say
that bounds are natural numbers, that null values are not members of the sets they extend,
that channels are numbers, and that each request has its connection and payment key. TLC
evaluates them in the runs.

Every safety invariant is proved in the same way: an inductive invariant stronger than the
property, which TLC checked first as an invariant of the run; one lemma per action that the action keeps it;
one theorem for the invariant, one for each property it implies.

- **WalletProofs**, the barrier. `BarrierInv` is the checked invariants and
  `ReportsAnswerAttempts`. That last part is the strengthening: `SettledPagesAnswered` says
  that a page no longer waited for has answered the *current* attempt, and is kept by the
  delivery of a report only because a success report in flight for the current attempt is
  its page's own answer. From it: `GateOpensClean`, `StaleReportsNeverSettle` and, with
  `OperationsConsistent`, `CleanupNeverOverlaps`.
- **WalletProofs**, the session. Every step of the session is a step of `BarrierSpec`
  or leaves its variables alone (`SessionImplementsBarrier`), so the barrier's theorems carry
  over: the barrier is the abstract specification of what a lock guarantees, the session its
  implementation. `SessionInv` adds `RevocationFirst` (until the revocation succeeded no
  operation runs or is done), which gives `ClearMeansRevoked`, and `EpochsOrdered`
  (`epoch <= announced <= sessionEpoch`), which `LockIsNotUndone` needs. Also `KeyOnlyWhenClean`
  and `TasksStayBlocked`. Neither needs the barrier's epoch to be the session's: password changes
  come at any point of a lock.
- **CoordinatorProofs**, the page sessions. `SessionsInv` is types, `BindingCurrent`,
  `OneRequestAtATime` and `OwnerIsLatestOpen`. `OneRequestAtATime` is the strengthening: only
  the head of a peer's tail has left the queued stage, and while it is under way no session
  of the peer is open, so a commit never lands on an open session. The owner's part needs
  that the commit order of open sessions is bounded by `commits`, so that a new commit is the
  latest. The choice of a successor needs no finiteness of `Peers`: the action exhibits the
  session with the greatest order. `PagesInv` adds the page's side: the leases of
  its requests never decrease, a page that was told the session of its last lease has it also
  while the same request waits again, and a lost connection overtook every request; with it
  `ToldSessionsAreKept` and `ExposuresAreCurrent`. The others
  are `SessionsTyped`, `CommittedSessionsAreCurrent`, `LatestSessionOwnsStorage` and the action
  property `HandoffsAreNew`.
- **CoordinatorProofs**, the authority. `WriterInv` says that a Worker with an authority
  record holds the Web Lock, and that only such a Worker has operations past the claim. The
  second part makes it inductive, and covers the readers that skip the assertion of the
  authority because they join a shared lease: they passed the claim first. With it
  `OneWriter`. `GatesInv`: gates are numbered as they are opened, and an operation that was cut
  off is at a gate which is not the current one and, the numbers growing, never will be again; the
  action property `CutOffIsNoSuccess` follows. `LeasesInv` says that the readers' queue of lease
  changes holds each waiting reader once, that the leases on record are those of the
  operations past their acquisition, and that the shared lease counts the readers between
  their entry and their release: `LeasesAreExact`.
- **CoordinatorProofs**, the topics. `TopicsInv`: nothing on its way to a page, and nothing it
  shows, is newer than the last publication of its topic, and an ended connection forgets what
  was shown. The second part is what makes it inductive: `applyTopicEvent` drops what is not newer than the
  page's revision, so a page that remembered a revision of an older Worker would drop
  the last publication of the new one. From it `PublicationsAreKept`. The invariant also has the queue within
  its limit.
- **BackgroundTasksProofs**. `TasksInv`: while a task is registered, its completion is that of
  the one execution that has not settled (`Tracks`), and a task that is gone has left none,
  because its disposal waits. From it `TaskRunsOnce` and `TasksQuietWhileLocked`.
- **WalletProofs**, the key-value engine, proves `NoValueLost`, that every value a head refers to is stored,
  for any number of handles, partitions, keys and values. `HeadsIntact` is not inductive: the
  collection deletes on the word of heads it read earlier. Its invariant follows a value from
  the draw of its id: a value a commit has yet to store is in no list, one it shares is in
  the head it read, and what the collection has listed and not yet found used is in no head
  that is still unchanged. `EngineImplementsStore` proves the refinement of `KvStore`:
  `StoreInv` relates what a handle has read and computed to the abstract state the
  mapping gives it, and each action is then a step of the store or a stutter.
- **P2pkhTransfersProofs**. `TransfersInv` says what a handler knows at each of its awaits, and
  that as long as a transaction was dispatched once at most, its coins stay frozen from the dispatch
  until the provider has refused it. (A second dispatch breaks that, which is the refuted
  `UncertainStaysFrozen`.) `FreedKnown` names for each refused transfer that still holds coins the handler
  that will free them. From it `CoinsAreSpentOnce` and `EndedTransfersAreFreed`.
- **BitfsFundingProofs**. `FundingInv` relates the five stores: the wallet makes transactions
  in the order of their numbers; `TxKnown` says for each what ledger, outbox and wallet may show
  together with the network (a transaction that was refused or never sent is in no block); `LinkKnown`,
  `SideKnown` and `HandKnown` say what a handler knows at each write. A dispatch is possible
  only for the handler of the channel, over an outbox that says `prepared`. From it
  `ReleasedIsUntaken` and `OpenPoolsAreFunded`. `CancelInv` holds while nothing crashed: every
  transaction but the fixed one is cleaned up by the opening that made it, the fixed one by the
  cancellation (`CancelledIsFreed`). That the wallet's next transaction exists uses the
  well-foundedness of the natural numbers.
- **BitfsPaymentsProofs**. `PaymentsAgree` is not inductive, because a handler has decided what it
  will write before it writes: the countersignature that follows a phase, the listing that follows a
  file, the broadcast that follows the close. `PoolInv` therefore also speaks of what is still to
  come. Of each side it says what its evidence and phase promise (`BuyerFiles`, `BuyerRecord`;
  `SellerFiles`, `SellerChain`) and what every effect ahead of it (`Ahead`) needs to stay right until its
  turn (`BuyerAhead`, `SellerAhead`); of each frame in flight, what its receiver may rely on
  (`FramesOK`): a payment that travels is on the buyer's disk, a delivery answers a request the buyer
  has on disk for at most one payment more than is countersigned, a close comes from a buyer
  that pays no more. `Stage` orders the kinds of effects once for all handlers, and every plan is
  `Sorted` by it. What an effect needs can thus be said of an effect and not of its place in a
  plan, and each plan is checked once, when its handler starts; a crash or a closed channel
  only takes effects away (`BuyerRests`, `SellerRests`). `SellerSettles` holds while the seller has not
  crashed: a close that covers its payments leaves the phases that an arbitration may start in.
  A failed call must not part the two either: while a handler has a call to await, no close is
  counted on (`Tells`), and no arbitration is listed after one (`SellerAwaits`). From these:
  `PaymentsAgreeAlways`, `CloseIsFinalAlways` and `OneSettlementAlways`, for any number of
  requests, lost connections and crashes and for channels of any length.
- **ChannelSubscriptionsProofs**. `MuxInv`: the subscribing half of an operation leaves only
  kept channels behind it, the unsubscribing half touches none of them and leaves nothing
  else, and whoever changes the union after an operation has read it waits in the queue.
  From it `ReportsAreReal` and `RestIsServed`. `FirstIsLeast` (a set of channels has
  a least one) uses well-foundedness again.
- **ConnectRequestsProofs**. `RunInv`: where a request is in its handler says what its record may
  show, a refused request is at no await that leads to its execution, and the executor of
  a connection holds the one request that runs (`RefusalIsKept`). `PayInv`: only the claimant
  of a payment key has a row in the Worker or is posted, and a final status that was or is about to be recorded is true and
  stays true (`PostsNoMore`). With both, `RequestsImplementLedger` proves the refinement
  of `PaymentLedger`; the posts of a key are counted, and there is never more than one.

Refinement: all three, `BarrierSpec`, `KvStoreSpec` and `PaymentsSpec`, are checked by TLC
(runs `session`, `kv`, `connect`) and proved.

Only model-checked: everything under fairness (`CleanupEnds`, `OpensAnswered`, `CatchesUp`,
`KeepsSyncing`, `WaitsEnd`, `FundsSettle`, `Converges`, `PaidIsFunded`, `CloseServed`, `RunsEnd`),
which is beyond the prover. Every safety property of the passing runs is proved. `ClearMeansClean` of the barrier is proved
and has no run of its own any more.

## 5. Not modelled

The parts without a module, each with its reason, are the components of status
`not_modelled` in `PROJECT.json`; the hazards that no property covers carry a note. In
short: user interface, contracts and pure cryptography have no order to get wrong; wire
formats and coin selection belong to external libraries; the others are in the plan.
Within the modelled parts these are left out: the diagnostics of the barrier, the requests
of a page that a fence aborts, the contents of events, more than one final I/O in a body,
the upgrade of the Worker's own build beyond its gate, writes of the BitFS stores that fail,
several pools of one seed in one ledger, the choice of coins and fees, cancelling a funded
pool, refunds after maturity, the buyer's retrieval from the arbiter, what a listener does
with a subscription's report; of Connect the phases that wait for an unlock, the kinds of request for
storage, files, channels and logins, the feed of past commands, the settings of an origin, and
a clientRequestId used again for other facts.

## 6. Plan

Done, in this order: the lock barrier; the session around it; page sessions; topics;
background tasks; final I/O authority; the key-value engine with its abstract store; channel
subscriptions; the spending of an unlocked session; the opening of a BitFS pool; its payments,
close and arbitration; the requests and payments of external applications; the proofs of the safety
properties of all of them.

Next, most important first:

1. `StorageBindings`: grants, generations, revocation before commit, composed with the
   generations of `CoordinatorSessions`.
2. `RequestQueue` and `WorkerUnits`: the serial chain with its cancellations; instances,
   availability and retirement, with the client's presence.
3. `WalletLifecycle`: create, import, reset and the automatic lock on top of `WalletSession`.
4. The WoC queue: order, budget and progress.
