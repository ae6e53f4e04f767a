-------------------------- MODULE CoordinatorSessions --------------------------
(***************************************************************************)
(* The page sessions of the Coordinator Worker: the peer registry, the     *)
(* opening, replacing, closing and revoking of a page's session, the owner *)
(* of physical storage I/O, and the services exposed to each page          *)
(* (src/src/assembly/coordinatorWorker.ts, sections "peer" and "Worker     *)
(* Entry Point").                                                          *)
(*                                                                         *)
(* An open request waits twice: in its peer's operation tail and in the    *)
(* initialization tail all peers share. A close or a disconnect may fall   *)
(* while it waits; every wait ends in a generation check.                  *)
(***************************************************************************)
EXTENDS Naturals, Sequences, FiniteSets

CONSTANTS
    Peers,          \* connections of pages; a reconnected page is a new peer
    NoBinding,      \* an undefined sessionBinding
    MaxOpens,       \* bound on the open requests, for each peer
    MaxIdentity     \* bound on the rotations of the service identity

Binding == [generation : Nat, lease : Nat]

ASSUME SessionsAssumption ==
    /\ MaxOpens \in [Peers -> Nat]
    /\ MaxIdentity \in Nat
    /\ NoBinding \notin Binding

VARIABLES
    session,        \* coordinatorPeers: the CoordinatorPeerState of each peer
    opens,          \* sessionOperationTail of each peer: the open requests, oldest first
    initTail,       \* coordinatorSessionOpenTail: the peers that wait for initialization
    owner,          \* storageIoOwner
    commits,        \* coordinatorSessionCommitOrder
    handoffs,       \* coordinatorStorageIoHandoffRevision
    identity,       \* coordinatorSessionExposureIdentity(); 0 while services are not ready
    rotations,      \* identities used so far
    stale,          \* did the identity change since the last complete reconcile
    pages           \* what each page asked for and was told

vars == <<session, opens, initTail, owner, commits, handoffs,
          identity, rotations, stale, pages>>
services == <<identity, rotations, stale>>

OptionalBinding == Binding \cup {NoBinding}

Session == [status : {"absent", "active", "open", "closing", "revoked"},
            generation : Nat,
            binding : OptionalBinding,
            order : Nat,        \* openCommitOrder, 0 when undefined
            exposure : Nat]     \* serviceExposureIdentity, 0 when undefined
Page == [asked : Nat,           \* lease of its last request; every attempt has a lease of its own
         told : OptionalBinding,  \* binding of the last answer
         left : SUBSET Binding,   \* bindings it asked to close
         requests : Nat]
OpenRequest == [lease : Nat,
                expected : Nat,     \* expectedGeneration
                stage : {"queued", "draining", "waiting", "initializing"}]
NoOwner == [peer |-> "none", binding |-> NoBinding, revision |-> 0]

Registered(p) == session[p].status \notin {"absent", "revoked"}
IsOpen(p) == session[p].status = "open"   \* sessionOpen changes together with it

SessionsInit ==
    /\ session = [p \in Peers |-> [status |-> "absent", generation |-> 0, binding |-> NoBinding,
                                   order |-> 0, exposure |-> 0]]
    /\ opens = [p \in Peers |-> <<>>]
    /\ initTail = <<>>
    /\ owner = NoOwner
    /\ commits = 0
    /\ handoffs = 0
    /\ identity = 0
    /\ rotations = 0
    /\ stale = FALSE
    /\ pages = [p \in Peers |-> [asked |-> 0, told |-> NoBinding, left |-> {}, requests |-> 0]]

-----------------------------------------------------------------------------
\* configureCoordinatorPeer
Connect(p) ==
    /\ session[p].status = "absent"
    /\ session' = [session EXCEPT ![p].status = "active"]
    /\ UNCHANGED <<opens, initTail, owner, commits, handoffs, services, pages>>

\* selectCoordinatorStorageIoOwner among the sessions s of the registered peers:
\* the latest commit, under a handoff revision of its own.
AnyRegistered(s) == {p \in Peers : s[p].status \notin {"absent", "revoked"}}  \* Mutant
Candidates(s) == {p \in Peers : s[p].status = "open"}

NoSuccessor(s) ==  \* Mutant: no other session takes over.
    owner' = NoOwner /\ UNCHANGED handoffs

SelectOwner(s) ==
    IF Candidates(s) = {}
    THEN owner' = NoOwner /\ UNCHANGED handoffs
    ELSE /\ handoffs' = handoffs + 1
         /\ \E p \in Candidates(s) :
              /\ \A q \in Candidates(s) : s[q].order <= s[p].order
              /\ owner' = [peer |-> p, binding |-> s[p].binding, revision |-> handoffs + 1]

\* fenceCoordinatorPeerSession: the generation moves, the binding, the exposed
\* services and the I/O ownership go.
Fence(p, status) ==
    LET fenced == [session EXCEPT ![p] =
                     [status |-> status, generation |-> @.generation + 1,
                      binding |-> NoBinding, order |-> 0, exposure |-> 0]]
    IN  /\ session' = fenced
        /\ IF owner.peer = p /\ session[p].binding # NoBinding /\ owner.binding = session[p].binding
           THEN SelectOwner(fenced)
           ELSE UNCHANGED <<owner, handoffs>>

\* A page asks for a session under a new lease, or its request is delivered
\* again: the request remembers the generation it saw.
RequestOpen(p, lease) ==
    /\ Registered(p)
    /\ pages[p].requests < MaxOpens[p]
    /\ lease > 0
    /\ opens' = [opens EXCEPT ![p] = Append(@, [lease |-> lease, stage |-> "queued",
                                                expected |-> session[p].generation])]
    /\ pages' = [pages EXCEPT ![p].asked = lease, ![p].requests = @ + 1]
    /\ UNCHANGED <<session, initTail, owner, commits, handoffs, services>>

SetHead(p, stage, expected) ==
    opens' = [opens EXCEPT ![p] =
        <<[Head(@) EXCEPT !.stage = stage, !.expected = expected]>> \o Tail(@)]

Answer(p) == opens' = [opens EXCEPT ![p] = Tail(@)]

AtHead(p, stage) == opens[p] # <<>> /\ Head(opens[p]).stage = stage

\* The session of this very lease is open: the request joins it.
JoinOpen(p) ==
    /\ AtHead(p, "queued")
    /\ IsOpen(p) /\ session[p].binding.lease = Head(opens[p]).lease
    /\ Answer(p)
    /\ pages' = [pages EXCEPT ![p].told = session[p].binding]
    /\ UNCHANGED <<session, initTail, owner, commits, handoffs, services>>

\* Another lease holds the session: it is fenced, and drained before it is replaced.
ReplaceOpen(p) ==
    /\ AtHead(p, "queued")
    /\ IsOpen(p) /\ session[p].binding.lease # Head(opens[p]).lease
    /\ Fence(p, "closing")
    /\ SetHead(p, "draining", session[p].generation + 1)
    /\ UNCHANGED <<initTail, commits, services, pages>>

\* drainCoordinatorPeer: nothing is left in flight at a closing peer.
DrainSettles(p) ==
    /\ session[p].status = "closing"
    /\ session' = [session EXCEPT ![p].status = "active"]
    /\ UNCHANGED <<opens, initTail, owner, commits, handoffs, services, pages>>

\* The request reaches its turn: it takes the next generation and waits for the
\* initialization, unless the generation it saw is gone.
Ready(p) == \/ AtHead(p, "queued") /\ ~IsOpen(p)
            \/ AtHead(p, "draining") /\ session[p].status # "closing"

BeginOpen(p) ==
    /\ Ready(p)
    /\ session[p].generation = Head(opens[p]).expected
    /\ session' = [session EXCEPT ![p].generation = @ + 1, ![p].status = "active"]
    /\ SetHead(p, "waiting", session[p].generation + 1)
    /\ initTail' = Append(initTail, p)
    /\ UNCHANGED <<owner, commits, handoffs, services, pages>>

RefuseOpen(p) ==
    /\ Ready(p)
    /\ session[p].generation # Head(opens[p]).expected
    /\ Answer(p)
    /\ UNCHANGED <<session, initTail, owner, commits, handoffs, services, pages>>

\* assertCoordinatorSessionOpenFresh
FreshUnchecked(p) == TRUE  \* Mutant: the open is not checked after its waits.
Fresh(p) == Registered(p) /\ session[p].generation = Head(opens[p]).expected

Initializing(p, stage) == initTail # <<>> /\ Head(initTail) = p /\ AtHead(p, stage)

StartInitialization(p) ==
    /\ Initializing(p, "waiting")
    /\ Fresh(p)
    /\ SetHead(p, "initializing", Head(opens[p]).expected)
    /\ UNCHANGED <<session, initTail, owner, commits, handoffs, services, pages>>

\* The final synchronous commit.
CommitOpen(p) ==
    /\ Initializing(p, "initializing")
    /\ Fresh(p)
    /\ LET binding == [generation |-> Head(opens[p]).expected, lease |-> Head(opens[p]).lease]
       IN  /\ session' = [session EXCEPT ![p] =
                            [status |-> "open", generation |-> @.generation, binding |-> binding,
                             order |-> commits + 1, exposure |-> identity]]
           /\ owner' = [peer |-> p, binding |-> binding, revision |-> handoffs + 1]
           /\ pages' = [pages EXCEPT ![p].told = binding]
    /\ commits' = commits + 1
    /\ handoffs' = handoffs + 1
    /\ Answer(p)
    /\ initTail' = Tail(initTail)
    /\ UNCHANGED services

\* Mutant: the initialization tail is not released by a failed open.
AbandonHoldingTail(p) ==
    /\ Initializing(p, "waiting") \/ Initializing(p, "initializing")
    /\ Answer(p)
    /\ UNCHANGED <<session, initTail, owner, commits, handoffs, services, pages>>

\* The request is stale or cancelled, or exposing the services threw.
AbandonOpen(p) ==
    /\ Initializing(p, "waiting") \/ Initializing(p, "initializing")
    /\ Answer(p)
    /\ initTail' = Tail(initTail)
    /\ UNCHANGED <<session, owner, commits, handoffs, services, pages>>

-----------------------------------------------------------------------------
\* A page closes a session it was told of; the message may come late, or twice.
SendClose(p) ==
    /\ pages[p].told # NoBinding /\ pages[p].told.lease = pages[p].asked
    /\ pages' = [pages EXCEPT ![p].left = @ \cup {pages[p].told}]
    /\ UNCHANGED <<session, opens, initTail, owner, commits, handoffs, services>>

\* coordinatorSessionClosed: the whole binding must match.
CloseMatchesAny(p, binding) == IsOpen(p)  \* Mutant
CloseMatches(p, binding) == session[p].binding = binding

SessionClosed(p, binding) ==
    /\ Registered(p)
    /\ binding \in pages[p].left
    /\ CloseMatches(p, binding)
    /\ Fence(p, "closing")
    /\ UNCHANGED <<opens, initTail, commits, services, pages>>

\* The connection is gone: peer.scope.onRevoke.
Revoke(p) ==
    /\ Registered(p)
    /\ Fence(p, "revoked")
    /\ UNCHANGED <<opens, initTail, commits, services, pages>>

-----------------------------------------------------------------------------
\* A lock, an unlock or a password change moves the service identity; the job
\* that moved it reconciles the exposures at once or in a later job.
RotateIdentity(ready) ==
    /\ ready => rotations < MaxIdentity
    /\ ready \/ identity # 0
    /\ IF ready
       THEN rotations' = rotations + 1 /\ identity' = rotations + 1
       ELSE UNCHANGED rotations /\ identity' = 0
    /\ stale' = TRUE
    /\ UNCHANGED <<session, opens, initTail, owner, commits, handoffs, pages>>

\* reconcileCoordinatorSessionExposure
KeptWhileUnlocked(p) ==  \* Mutant: an exposure of an older identity is kept.
    IF ~IsOpen(p) THEN 0
    ELSE IF identity # 0 /\ session[p].exposure # 0 THEN session[p].exposure ELSE identity

Exposed(p) == IF IsOpen(p) THEN identity ELSE 0

\* reconcileCoordinatorSessionExposures
Reconcile ==
    /\ session' = [p \in Peers |-> [session[p] EXCEPT !.exposure = Exposed(p)]]
    /\ stale' = FALSE
    /\ UNCHANGED <<opens, initTail, owner, commits, handoffs, identity, rotations, pages>>

\* exposeGroup threw for the live peer p: only the peers before it are reached.
ReconcileFails ==
    /\ identity # 0
    /\ \E p \in Peers, before \in SUBSET Peers :
         /\ IsOpen(p) /\ session[p].exposure # identity /\ p \notin before
         /\ session' = [q \in Peers |-> [session[q] EXCEPT !.exposure =
                          IF q \in before THEN Exposed(q) ELSE IF q = p THEN 0 ELSE @]]
    /\ stale' = TRUE
    /\ UNCHANGED <<opens, initTail, owner, commits, handoffs, identity, rotations, pages>>

-----------------------------------------------------------------------------
OpenStep(p) ==
    \/ JoinOpen(p) \/ ReplaceOpen(p) \/ DrainSettles(p) \/ BeginOpen(p) \/ RefuseOpen(p)
    \/ StartInitialization(p) \/ CommitOpen(p) \/ AbandonOpen(p)

SessionsNext ==
    \/ \E p \in Peers : Connect(p) \/ OpenStep(p) \/ SendClose(p) \/ Revoke(p)
    \/ \E p \in Peers : \E lease \in {pages[p].asked, pages[p].asked + 1} : RequestOpen(p, lease)
    \/ \E p \in Peers : \E binding \in pages[p].left : SessionClosed(p, binding)
    \/ \E ready \in BOOLEAN : RotateIdentity(ready)
    \/ Reconcile \/ ReconcileFails

SessionsSpec == SessionsInit /\ [][SessionsNext]_vars

\* The promises of an open request settle, and so does the initialization that
\* every page awaits.
FairSessionsSpec == SessionsSpec /\ \A p \in Peers : WF_vars(OpenStep(p))

-----------------------------------------------------------------------------
SessionsTypeOK ==
    /\ session \in [Peers -> Session]
    /\ opens \in [Peers -> Seq(OpenRequest)]
    /\ initTail \in Seq(Peers)
    /\ owner = NoOwner \/ owner \in [peer : Peers, binding : Binding, revision : Nat]
    /\ commits \in Nat /\ handoffs \in Nat
    /\ identity \in 0..MaxIdentity /\ rotations \in 0..MaxIdentity /\ stale \in BOOLEAN
    /\ pages \in [Peers -> Page]

\* A committed session belongs to a connected page and to the current generation
\* of its peer: an open that a close or a disconnect overtook never commits.
BindingCurrent ==
    \A p \in Peers :
        /\ IsOpen(p) <=> session[p].binding # NoBinding
        /\ IsOpen(p) => /\ Registered(p)
                        /\ session[p].binding.generation = session[p].generation
                        /\ session[p].order \in 1..commits

\* Storage I/O goes to the session that committed last of those still open, and
\* to nobody only when no session is open.
OwnerIsLatestOpen ==
    IF Candidates(session) = {}
    THEN owner = NoOwner
    ELSE /\ owner # NoOwner
         /\ IsOpen(owner.peer)
         /\ owner.binding = session[owner.peer].binding
         /\ \A q \in Candidates(session) : session[q].order <= session[owner.peer].order

\* A page that was given a session, asked for no other and did not close it still
\* has it as long as it is connected: neither a late close of an older lease nor
\* an overtaken open takes it away.
SessionKept ==
    \A p \in Peers :
        (/\ Registered(p)
         /\ opens[p] = <<>>
         /\ pages[p].told # NoBinding /\ pages[p].told.lease = pages[p].asked
         /\ pages[p].told \notin pages[p].left)
            => IsOpen(p) /\ session[p].binding = pages[p].told

\* Only open sessions have services exposed, and once the exposures are
\* reconciled with an identity, exactly the open sessions hold it: no proxy of
\* an older epoch, and none at all while the wallet is locked.
ExposureCurrent ==
    /\ \A p \in Peers : session[p].exposure # 0 => IsOpen(p)
    /\ ~stale => \A p \in Peers :
                   session[p].exposure = IF IsOpen(p) THEN identity ELSE 0

\* Every hand-over of storage I/O carries a revision no earlier one had, also
\* when it falls back to a session older than the one that left.
HandoffAdvances ==
    [][owner' \notin {owner, NoOwner} => owner'.revision > handoffs]_vars

\* Every open request is answered, whatever happens to its page and to the others.
OpensAnswered == \A p \in Peers : opens[p] # <<>> ~> opens[p] = <<>>

\* "Revoke the old group first; only the next ready state creates a new one", so
\* that "an old proxy cannot outlive its session epoch": a reconcile, failed or
\* not, leaves no exposure of an older identity.
\* The code does not keep this: README, section 3.
ReconcileRevokesOld ==
    [][Reconcile \/ ReconcileFails =>
         \A p \in Peers : session'[p].exposure \in {0, identity}]_vars
=============================================================================
