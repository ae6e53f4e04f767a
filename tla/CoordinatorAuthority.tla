------------------------ MODULE CoordinatorAuthority ------------------------
(***************************************************************************)
(* Final I/O of the Coordinator: which physical Worker may touch storage   *)
(* and the network, and what becomes of the operations under way when the  *)
(* wallet is locked or its storage binding is revoked.                     *)
(*                                                                         *)
(* Two Workers of one origin (an old and a new build, or a Worker that has *)
(* not yet died and its successor) contend for one Web Lock, held until    *)
(* the Worker ends (coordinatorAuthorityLock.ts).  Inside a Worker every   *)
(* final I/O goes through withCoordinatorFinalIoLease (workerAuthority.ts):*)
(* ensure the claim, ensure an upgrade session, admit at its gate,         *)
(* register a lease (readers share one, counted, behind a promise chain),  *)
(* run the body, judge the gate again, and release.  A lock or a revoked   *)
(* binding closes the gate while any number of operations are between two  *)
(* of these steps.  Each action below is the code between two awaits.      *)
(***************************************************************************)
EXTENDS Integers, FiniteSets, Sequences

CONSTANTS Workers,      \* physical Workers of the origin
          Ops,          \* slots for concurrent final I/O operations of a Worker
          Requests,     \* per slot: the <<kind, allowed>> pairs of its operations
          None,
          MaxEpoch,     \* bound: session epochs of a Worker's lifetime
          MaxExits      \* bound: Workers that end

Kinds == {"read", "plain", "write"}       \* "plain": a read with durableLease false
Allowances == {"none", "lock", "both"}    \* allowLocalLock, and allowLocalOwnerTransition

ASSUME AuthorityAssumption ==
  /\ None \notin Workers \cup Ops
  /\ Requests \in [Workers -> [Ops -> SUBSET (Kinds \X Allowances)]]
  /\ {MaxEpoch, MaxExits} \subseteq Nat

VARIABLES
  webLock,     \* the Worker holding the origin's authority Web Lock, or None
  worker,      \* per Worker: its authority record and its session
  op,          \* per Worker and slot: the operation under way
  leases,      \* per Worker: record.activeIoLeases
  sharedNow,   \* per Worker: coordinatorSharedReadLease, named by the reader that opened it
  sharedRefs,  \* per Worker and shared lease: its references
  mutations,   \* per Worker: coordinatorSharedReadLeaseTail, the readers queued on it
  exits

authorityVars == <<webLock, worker, op, leases, sharedNow, sharedRefs, mutations, exits>>
readVars == <<sharedNow, sharedRefs, mutations>>

(* gate 0 is no gate: closeCoordinatorUpgradeSession closes and forgets it. *)
(* closing: performGlobalLock has committed, its revoke() has not yet run.  *)
NewWorker == [generation |-> 0, claims |-> 0, gate |-> 0, gates |-> 0,
              unlocked |-> FALSE, epoch |-> 0, closing |-> FALSE]

IdleOp == [phase |-> "idle", kind |-> "plain", allow |-> "none",
           gate |-> 0, epoch |-> 0, shared |-> None, cut |-> FALSE]

Phases == {"idle", "tail", "check", "claiming", "session", "admit", "leasing",
           "start", "running", "confirm", "releasing"}

Init ==
  /\ webLock = None
  /\ worker = [w \in Workers |-> NewWorker]
  /\ op = [w \in Workers |-> [o \in Ops |-> IdleOp]]
  /\ leases = [w \in Workers |-> {}]
  /\ sharedNow = [w \in Workers |-> None]
  /\ sharedRefs = [w \in Workers |-> [o \in Ops |-> 0]]
  /\ mutations = [w \in Workers |-> <<>>]
  /\ exits = 0

InPhase(w, o, phase) == op[w][o].phase = phase
Claimed(w) == worker[w].generation # 0

(* assertCoordinatorAuthorityCurrent: this Worker holds the lock, and its record is current. *)
AuthorityCurrent(w) == Claimed(w) /\ webLock = w

(* The record and the lock are private to a Worker; a reader may skip the assertion. *)
HasSharedLease(w) == sharedNow[w] # None /\ sharedRefs[w][sharedNow[w]] > 0

Go(w, o, phase) == op' = [op EXCEPT ![w][o].phase = phase]

-----------------------------------------------------------------------------
(* The claim *)

(* A request enters final I/O and awaits the claim chain. *)
Enter(w, o) ==
  /\ InPhase(w, o, "idle")
  /\ \E r \in Requests[w][o] :
       op' = [op EXCEPT ![w][o] = [IdleOp EXCEPT
               !.kind = r[1], !.allow = r[2],
               !.phase = IF worker[w].claims = 0 THEN "check" ELSE "tail"]]
  /\ UNCHANGED <<webLock, worker, leases, readVars, exits>>

(* It finds the record current, joins the claim in flight, or schedules one. *)
CheckClaim(w, o) ==
  /\ InPhase(w, o, "check")
  /\ IF Claimed(w)
       THEN Go(w, o, "session") /\ UNCHANGED worker
       ELSE /\ Go(w, o, "claiming")
            /\ worker' = [worker EXCEPT ![w].claims = IF @ = 0 THEN 1 ELSE @]
  /\ UNCHANGED <<webLock, leases, readVars, exits>>

Resumed(w, phase) ==
  [o \in Ops |-> CASE InPhase(w, o, "claiming") -> IF phase = "idle" THEN IdleOp
                                                   ELSE [op[w][o] EXCEPT !.phase = phase]
                   [] InPhase(w, o, "tail") -> [op[w][o] EXCEPT !.phase = "check"]
                   [] OTHER -> op[w][o]]

LockOfItsOwn(w) == TRUE  \* Mutant: the lock is one per Worker, not one per origin.

(* ifAvailable: the lock is taken at once or the claim fails with a conflict. *)
CanTakeLock(w) == webLock \in {None, w}

(* claimCoordinatorAuthority succeeds: a new generation with no leases. *)
ClaimSucceeds(w) ==
  /\ worker[w].claims > 0
  /\ CanTakeLock(w)
  /\ webLock' = w
  /\ worker' = [worker EXCEPT ![w] = [@ EXCEPT
                  !.claims = worker[w].claims - 1, !.generation = worker[w].generation + 1]]
  /\ leases' = [leases EXCEPT ![w] = {}]
  /\ op' = [op EXCEPT ![w] = Resumed(w, "session")]
  /\ UNCHANGED <<readVars, exits>>

(* It fails: another Worker is alive, or the browser refuses Web Locks. *)
ClaimFails(w) ==
  /\ worker[w].claims > 0
  /\ webLock # w
  /\ worker' = [worker EXCEPT ![w] = [@ EXCEPT !.claims = worker[w].claims - 1]]
  /\ op' = [op EXCEPT ![w] = Resumed(w, "idle")]
  /\ UNCHANGED <<webLock, leases, readVars, exits>>

-----------------------------------------------------------------------------
(* The gate *)

WithSession(w) ==
  IF worker[w].gate # 0 THEN worker
  ELSE LET next == worker[w].gates + 1
       IN  [worker EXCEPT ![w] = [@ EXCEPT !.gate = next, !.gates = next]]

EnsureSession(w, o) ==
  /\ InPhase(w, o, "session")
  /\ worker' = WithSession(w)
  /\ Go(w, o, "admit")
  /\ UNCHANGED <<webLock, leases, readVars, exits>>

(* completeUnlockedBinding ensures a session of its own. *)
BindSession(w) ==
  /\ worker[w].unlocked /\ Claimed(w)
  /\ worker[w].gate = 0
  /\ worker' = WithSession(w)
  /\ UNCHANGED <<webLock, op, leases, readVars, exits>>

RefuseKept(w, o) ==  \* Mutant: a refused operation is never given back to its caller.
  /\ Go(w, o, "refused")
  /\ UNCHANGED mutations

Refuse(w, o) ==
  /\ op' = [op EXCEPT ![w][o] = IdleOp]
  /\ UNCHANGED mutations

Admitted(w, o) ==
  /\ worker[w].gate # 0
  /\ AuthorityCurrent(w) \/ (op[w][o].kind # "write" /\ HasSharedLease(w))

(* Admission reads the gate again: a lock may have closed it since.  A     *)
(* "plain" read takes no lease; a reader queues for the shared one.        *)
Admit(w, o) ==
  /\ InPhase(w, o, "admit")
  /\ IF Admitted(w, o)
       THEN /\ op' = [op EXCEPT ![w][o] = [@ EXCEPT
                       !.gate = worker[w].gate, !.epoch = worker[w].epoch,
                       !.phase = IF op[w][o].kind = "plain" THEN "start" ELSE "leasing"]]
            /\ mutations' = [mutations EXCEPT ![w] =
                               IF op[w][o].kind = "read" THEN Append(@, o) ELSE @]
       ELSE Refuse(w, o)
  /\ UNCHANGED <<webLock, worker, leases, sharedNow, sharedRefs, exits>>

GateOpen(w, o) == op[w][o].gate = worker[w].gate

-----------------------------------------------------------------------------
(* Leases.  A lease is named by its kind and the operation that opened it. *)

(* acquireCoordinatorFinalIoLeaseExclusive, for a writer *)
AcquireWrite(w, o) ==
  /\ InPhase(w, o, "leasing") /\ op[w][o].kind = "write"
  /\ leases' = [leases EXCEPT ![w] = @ \cup {<<"write", o>>}]
  /\ Go(w, o, "start")
  /\ UNCHANGED <<webLock, worker, readVars, exits>>

NextReader(w, o) == mutations[w] # <<>> /\ Head(mutations[w]) = o

StayQueued(w) == UNCHANGED mutations  \* Mutant: a reader keeps the head of the chain.

Dequeue(w) == mutations' = [mutations EXCEPT ![w] = Tail(@)]

(* A queued reader joins the shared lease, or opens one. *)
AcquireRead(w, o) ==
  /\ InPhase(w, o, "leasing") /\ NextReader(w, o)
  /\ LET s == IF sharedNow[w] # None THEN sharedNow[w] ELSE o IN
       /\ sharedRefs' = [sharedRefs EXCEPT ![w][s] = IF sharedNow[w] # None THEN @ + 1 ELSE 1]
       /\ op' = [op EXCEPT ![w][o].phase = "start", ![w][o].shared = s]
       /\ leases' = [leases EXCEPT ![w] =
                       IF sharedNow[w] # None THEN @ ELSE @ \cup {<<"read", o>>}]
       /\ sharedNow' = [sharedNow EXCEPT ![w] = s]
  /\ Dequeue(w)
  /\ UNCHANGED <<webLock, worker, exits>>

ForgetNothing(w, s) == UNCHANGED sharedNow  \* Mutant: the ended lease stays current.

(* A queued release: the last reader forgets the shared lease and ends it. *)
Forget(w, s) == sharedNow' = [sharedNow EXCEPT ![w] = IF @ = s THEN None ELSE @]

ReleaseRead(w, o) ==
  /\ InPhase(w, o, "releasing") /\ NextReader(w, o)
  /\ LET s == op[w][o].shared IN
       /\ sharedRefs' = [sharedRefs EXCEPT ![w][s] = IF @ = 0 THEN 0 ELSE @ - 1]
       /\ IF sharedRefs[w][s] > 1
            THEN UNCHANGED <<sharedNow, leases>>
            ELSE /\ Forget(w, s)
                 /\ leases' = [leases EXCEPT ![w] = @ \ {<<"read", s>>}]
  /\ op' = [op EXCEPT ![w][o] = IdleOp]
  /\ Dequeue(w)
  /\ UNCHANGED <<webLock, worker, exits>>

(* The finally block: a writer's lease ends now, a reader queues its release. *)
Settle(w, o) ==
  /\ leases' = [leases EXCEPT ![w] = @ \ {<<"write", o>>}]
  /\ IF op[w][o].kind = "read"
       THEN Go(w, o, "releasing") /\ mutations' = [mutations EXCEPT ![w] = Append(@, o)]
       ELSE op' = [op EXCEPT ![w][o] = IdleOp] /\ UNCHANGED mutations
  /\ UNCHANGED <<sharedNow, sharedRefs>>

-----------------------------------------------------------------------------
(* The body *)

(* assertActive after the lease, then the body runs. *)
Start(w, o) ==
  /\ InPhase(w, o, "start")
  /\ IF GateOpen(w, o)
       THEN Go(w, o, "running") /\ UNCHANGED <<leases, readVars>>
       ELSE Settle(w, o)
  /\ UNCHANGED <<webLock, worker, exits>>

(* A session that ended itself, or moved to another owner, while the body ran. *)
LocalLock(w, o) == op[w][o].allow \in {"lock", "both"} /\ ~worker[w].unlocked
LocalTransition(w, o) ==
  op[w][o].allow = "both" /\ worker[w].unlocked /\ worker[w].epoch # op[w][o].epoch

AcceptedIfAllowed(w, o) ==  \* Mutant: the session is not asked whether it ended.
  GateOpen(w, o) \/ op[w][o].allow # "none"

Accepted(w, o) == GateOpen(w, o) \/ LocalLock(w, o) \/ LocalTransition(w, o)

BodyReturns(w, o) ==
  /\ InPhase(w, o, "running")
  /\ IF Accepted(w, o)
       THEN Go(w, o, "confirm") /\ UNCHANGED <<leases, readVars>>
       ELSE Settle(w, o)
  /\ UNCHANGED <<webLock, worker, exits>>

BodyThrows(w, o) ==
  /\ InPhase(w, o, "running")
  /\ Settle(w, o)
  /\ UNCHANGED <<webLock, worker, exits>>

(* The authority is asserted once more, and the operation is over: it       *)
(* returns its result if AuthorityCurrent(w), which its Worker still has.   *)
Confirm(w, o) ==
  /\ InPhase(w, o, "confirm")
  /\ Settle(w, o)
  /\ UNCHANGED <<webLock, worker, exits>>

-----------------------------------------------------------------------------
(* The session, and the end of a Worker *)

(* closeCoordinatorUpgradeSession: admitted operations are cut off. *)
CutOff(w) ==
  [o \in Ops |-> [op[w][o] EXCEPT !.cut = @ \/ (op[w][o].gate # 0 /\ GateOpen(w, o))]]

(* performGlobalLock: the commit comes first, ... *)
LockCommit(w) ==
  /\ worker[w].unlocked /\ ~worker[w].closing
  /\ worker[w].epoch < MaxEpoch
  /\ worker' = [worker EXCEPT ![w] =
                  [@ EXCEPT !.unlocked = FALSE, !.closing = TRUE, !.epoch = worker[w].epoch + 1]]
  /\ UNCHANGED <<webLock, op, leases, readVars, exits>>

(* ... and revoke() closes the gate later. *)
LockRevoke(w) ==
  /\ worker[w].closing
  /\ worker' = [worker EXCEPT ![w] = [@ EXCEPT !.closing = FALSE, !.gate = 0]]
  /\ op' = [op EXCEPT ![w] = CutOff(w)]
  /\ UNCHANGED <<webLock, leases, readVars, exits>>

Unlock(w) ==
  /\ ~worker[w].unlocked /\ ~worker[w].closing
  /\ AuthorityCurrent(w)
  /\ worker[w].epoch < MaxEpoch
  /\ worker' = [worker EXCEPT ![w] = [@ EXCEPT !.unlocked = TRUE, !.epoch = worker[w].epoch + 1]]
  /\ UNCHANGED <<webLock, op, leases, readVars, exits>>

(* revokeStorageBindingAndDrain: a reset or a password change of the wallet. *)
RevokeBinding(w) ==
  /\ Claimed(w) /\ ~worker[w].closing
  /\ worker[w].epoch < MaxEpoch
  /\ worker' = [worker EXCEPT ![w] = [@ EXCEPT !.epoch = worker[w].epoch + 1, !.gate = 0]]
  /\ op' = [op EXCEPT ![w] = CutOff(w)]
  /\ UNCHANGED <<webLock, leases, readVars, exits>>

(* The Worker ends and a fresh one takes its place; the browser frees its lock. *)
Exit(w) ==
  /\ exits < MaxExits
  /\ exits' = exits + 1
  /\ webLock' = IF webLock = w THEN None ELSE webLock
  /\ worker' = [worker EXCEPT ![w] = NewWorker]
  /\ op' = [op EXCEPT ![w] = [o \in Ops |-> IdleOp]]
  /\ leases' = [leases EXCEPT ![w] = {}]
  /\ sharedNow' = [sharedNow EXCEPT ![w] = None]
  /\ sharedRefs' = [sharedRefs EXCEPT ![w] = [o \in Ops |-> 0]]
  /\ mutations' = [mutations EXCEPT ![w] = <<>>]

-----------------------------------------------------------------------------
OpStep(w, o) ==
  \/ CheckClaim(w, o) \/ EnsureSession(w, o) \/ Admit(w, o)
  \/ AcquireWrite(w, o) \/ AcquireRead(w, o) \/ ReleaseRead(w, o)
  \/ Start(w, o) \/ Confirm(w, o)

ClaimStep(w) == ClaimSucceeds(w) \/ ClaimFails(w)

SessionStep(w) ==
  \/ LockCommit(w) \/ LockRevoke(w) \/ Unlock(w)
  \/ BindSession(w) \/ RevokeBinding(w) \/ Exit(w)

Next ==
  \E w \in Workers :
    \/ \E o \in Ops : \/ Enter(w, o) \/ OpStep(w, o)
                      \/ BodyReturns(w, o) \/ BodyThrows(w, o)
    \/ ClaimStep(w)
    \/ SessionStep(w)

Spec == Init /\ [][Next]_authorityVars

(* Promise reactions run; nothing promises that a body ever ends. *)
Fairness ==
  \A w \in Workers : WF_authorityVars(ClaimStep(w)) /\ \A o \in Ops : WF_authorityVars(OpStep(w, o))

FairSpec == Spec /\ Fairness

-----------------------------------------------------------------------------
WorkerRecord == [generation : Nat, claims : Nat, gate : Nat, gates : Nat,
                 unlocked : BOOLEAN, epoch : Nat, closing : BOOLEAN]

OpRecord == [phase : Phases, kind : Kinds, allow : Allowances, gate : Nat,
             epoch : Nat, shared : Ops \cup {None}, cut : BOOLEAN]

(* Types of the variables. *)
AuthorityTypeOK ==
  /\ webLock \in Workers \cup {None}
  /\ worker \in [Workers -> WorkerRecord]
  /\ op \in [Workers -> [Ops -> OpRecord]]
  /\ leases \in [Workers -> SUBSET ({"read", "write"} \X Ops)]
  /\ sharedNow \in [Workers -> Ops \cup {None}]
  /\ sharedRefs \in [Workers -> [Ops -> Nat]]
  /\ mutations \in [Workers -> Seq(Ops)]
  /\ exits \in Nat

(* Two Workers never do final I/O at once, whoever dies or starts, and one *)
(* that lost the race for the Web Lock never runs a body.                  *)
SingleWriter ==
  \A w1, w2 \in Workers : \A o1, o2 \in Ops :
    InPhase(w1, o1, "running") /\ InPhase(w2, o2, "running") => w1 = w2

Readers(w) ==
  {o \in Ops : op[w][o].kind = "read"
               /\ op[w][o].phase \in {"start", "running", "confirm", "releasing"}}
Writers(w) ==
  {o \in Ops : op[w][o].kind = "write" /\ op[w][o].phase \in {"start", "running", "confirm"}}

(* The record lists exactly the leases in use: one per writer, and one for *)
(* all readers together, which counts them and ends with the last; no      *)
(* order of joins and late releases leaves one behind or drops one early.  *)
LeasesExact ==
  \A w \in Workers :
    LET readers == Readers(w) IN
      /\ leases[w] = {<<"write", o>> : o \in Writers(w)}
                     \cup {<<"read", op[w][o].shared>> : o \in readers}
      /\ readers = {} => sharedNow[w] = None
      /\ \A o \in readers : /\ op[w][o].shared = sharedNow[w]
                            /\ sharedRefs[w][sharedNow[w]] = Cardinality(readers)

(* An operation whose gate was closed while it was admitted is taken for a *)
(* success only if it was issued as one that may end the session, and the  *)
(* session did end (or, for one that may change the owner, has moved on).  *)
NoLateSuccess ==
  [][\A w \in Workers : \A o \in Ops :
       /\ InPhase(w, o, "running") /\ op[w][o].cut
       /\ op'[w][o].phase = "confirm"
       => \/ op[w][o].allow = "lock" /\ ~worker[w].unlocked
          \/ op[w][o].allow = "both"]_authorityVars

(* An operation that waits for the claim, the gate, a lease or the readers'  *)
(* queue stops waiting, even when the body of another operation never ends.  *)
WaitsEnd ==
  \A w \in Workers : \A o \in Ops :
    []<>(op[w][o].phase \in {"idle", "running"})
=============================================================================
