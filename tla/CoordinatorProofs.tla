------------------------- MODULE CoordinatorProofs -------------------------
(***************************************************************************)
(* Proofs about the Coordinator Worker.  First CoordinatorSessions, for    *)
(* every set of pages: committed sessions are current, what a page was told*)
(* holds, its services are of the identity it was told, and storage I/O    *)
(* belongs to the latest session.  Then CoordinatorAuthority, for every set*)
(* of Workers and slots: its types, that final I/O has one writer, that an *)
(* operation which was cut off is no success, and that the leases on       *)
(* record are those in use.  Last CoordinatorTopics, for every limit of    *)
(* the queues: a page with a live stream misses no publication.            *)
(***************************************************************************)
EXTENDS
    CoordinatorSessions, CoordinatorTopics, CoordinatorAuthority,
    SequenceTheorems, FiniteSetTheorems, TLAPS

(* Only the request at the head of a page's queue has left its stage        *)
(* "queued", and while it is under way no session of the page is open: the  *)
(* one it replaces is fenced, and nobody else can commit one.               *)
OneRequestAtATime ==
    \A p \in Peers :
        /\ \A i \in 1..Len(opens[p]) : i > 1 => opens[p][i].stage = "queued"
        /\ (opens[p] # <<>> /\ opens[p][1].stage # "queued") => ~IsOpen(p)

SessionsInv == SessionsTypeOK /\ BindingCurrent /\ OneRequestAtATime /\ OwnerIsLatestOpen

(* A new session record of one page leaves those of the others alone. *)
LEMMA SessionUpdated ==
    ASSUME session \in [Peers -> Session], NEW p \in Peers, NEW s \in Session,
           session' = [session EXCEPT ![p] = s]
    PROVE  /\ session' \in [Peers -> Session]
           /\ session'[p] = s
           /\ \A q \in Peers \ {p} : session'[q] = session[q]
    OBVIOUS

(* Moving the head of a queue to another stage keeps the rest of the queue. *)
LEMMA HeadReplaced ==
    ASSUME NEW S, NEW s \in Seq(S), s # <<>>, NEW x \in S
    PROVE  /\ <<x>> \o Tail(s) \in Seq(S)
           /\ <<x>> \o Tail(s) # <<>>
           /\ Len(<<x>> \o Tail(s)) = Len(s)
           /\ (<<x>> \o Tail(s))[1] = x
           /\ \A i \in 1..Len(s) : i > 1 => (<<x>> \o Tail(s))[i] = s[i]
<1>1. Tail(s) \in Seq(S) /\ Len(Tail(s)) = Len(s) - 1 /\ Len(s) \in Nat \ {0}
    OBVIOUS
<1>2. \A i \in 1..Len(s) : i > 1 => Tail(s)[i - 1] = s[i]
    OBVIOUS
<1>3. <<x>> \in Seq(S) /\ Len(<<x>>) = 1 /\ <<x>>[1] = x
    OBVIOUS
<1>4. /\ <<x>> \o Tail(s) \in Seq(S)
      /\ Len(<<x>> \o Tail(s)) = 1 + Len(Tail(s))
      /\ \A i \in 1..(1 + Len(Tail(s))) :
             (<<x>> \o Tail(s))[i] = IF i <= 1 THEN <<x>>[i] ELSE Tail(s)[i - 1]
    BY <1>1, <1>3
<1> QED
    BY <1>1, <1>2, <1>3, <1>4

(* An answered request leaves requests that are all still queued. *)
LEMMA HeadAnswered ==
    ASSUME NEW s \in Seq(OpenRequest), s # <<>>,
           \A i \in 1..Len(s) : i > 1 => s[i].stage = "queued"
    PROVE  /\ Tail(s) \in Seq(OpenRequest)
           /\ \A i \in 1..Len(Tail(s)) : Tail(s)[i].stage = "queued"
<1>1. Tail(s) \in Seq(OpenRequest) /\ Len(Tail(s)) = Len(s) - 1 /\ Len(s) \in Nat
    OBVIOUS
<1>2. \A i \in 1..Len(Tail(s)) : Tail(s)[i] = s[i + 1]
    OBVIOUS
<1> QED
    BY <1>1, <1>2

(* What SelectOwner picks has the type of an owner, and a new revision. *)
LEMMA SelectOwnerTyped ==
    ASSUME NEW s \in [Peers -> Session], handoffs \in Nat,
           owner = NoOwner \/ owner \in [peer : Peers, binding : Binding, revision : Nat],
           \A q \in Candidates(s) : s[q].binding \in Binding,
           SelectOwner(s)
    PROVE  /\ owner' = NoOwner \/ owner' \in [peer : Peers, binding : Binding, revision : Nat]
           /\ handoffs' \in Nat
           /\ owner' # NoOwner => owner'.revision > handoffs
<1>1. CASE Candidates(s) = {}
    BY <1>1 DEF SelectOwner
<1>2. CASE Candidates(s) # {}
    <2>1. handoffs' = handoffs + 1
        BY <1>2 DEF SelectOwner
    <2>2. PICK p \in Candidates(s) :
             owner' = [peer |-> p, binding |-> s[p].binding, revision |-> handoffs + 1]
        BY <1>2 DEF SelectOwner
    <2>3. p \in Peers
        BY <2>2 DEF Candidates
    <2> QED
        BY <2>1, <2>2, <2>3
<1> QED
    BY <1>1, <1>2

(* A fence closes the session of one page and touches no other. *)
LEMMA FenceFacts ==
    ASSUME SessionsTypeOK, NEW p \in Peers, NEW status \in {"closing", "revoked"},
           Fence(p, status)
    PROVE  /\ session' \in [Peers -> Session]
           /\ session'[p] = [status |-> status, generation |-> session[p].generation + 1,
                             binding |-> NoBinding, order |-> 0, exposure |-> 0]
           /\ \A q \in Peers \ {p} : session'[q] = session[q]
<1> DEFINE fenced == [status |-> status, generation |-> session[p].generation + 1,
                      binding |-> NoBinding, order |-> 0, exposure |-> 0]
<1>1. session' = [session EXCEPT ![p] = fenced]
    BY DEF Fence
<1>2. session \in [Peers -> Session] /\ session[p].generation \in Nat
    BY DEF SessionsTypeOK, Session
<1>3. fenced \in Session
    BY <1>2 DEF Session, OptionalBinding
<1> QED
    BY <1>1, <1>2, <1>3

(* Sessions that stay as open as they were keep their owner. *)
LEMMA OwnerUndisturbed ==
    ASSUME SessionsTypeOK, OwnerIsLatestOpen, owner' = owner,
           \A q \in Peers : /\ IsOpen(q)' <=> IsOpen(q)
                            /\ IsOpen(q) => /\ session'[q].binding = session[q].binding
                                            /\ session'[q].order = session[q].order
    PROVE  OwnerIsLatestOpen'
<1>1. Candidates(session') = Candidates(session)
    BY DEF Candidates, IsOpen
<1>2. CASE Candidates(session) = {}
    BY <1>1, <1>2 DEF OwnerIsLatestOpen
<1>3. CASE Candidates(session) # {}
    <2>1. /\ owner # NoOwner /\ IsOpen(owner.peer)
          /\ owner.binding = session[owner.peer].binding
          /\ \A q \in Candidates(session) : session[q].order <= session[owner.peer].order
        BY <1>3 DEF OwnerIsLatestOpen
    <2>2. owner.peer \in Peers
        BY <2>1 DEF SessionsTypeOK
    <2>3. \A q \in Candidates(session) : q \in Peers /\ IsOpen(q)
        BY DEF Candidates, IsOpen
    <2> QED
        BY <1>1, <1>3, <2>1, <2>2, <2>3 DEF OwnerIsLatestOpen
<1> QED
    BY <1>2, <1>3

(* When its owner is fenced, storage I/O goes to the latest of those left. *)
LEMMA FenceOwner ==
    ASSUME SessionsInv, NEW p \in Peers, NEW status \in {"closing", "revoked"},
           Fence(p, status)
    PROVE  /\ owner' = NoOwner \/ owner' \in [peer : Peers, binding : Binding, revision : Nat]
           /\ handoffs' \in Nat
           /\ OwnerIsLatestOpen'
           /\ owner' \notin {owner, NoOwner} => owner'.revision > handoffs
<1>1. /\ session' \in [Peers -> Session]
      /\ session'[p].status = status
      /\ \A q \in Peers \ {p} : session'[q] = session[q]
    <2>1. SessionsTypeOK
        BY DEF SessionsInv
    <2>2. /\ session' \in [Peers -> Session]
          /\ session'[p] = [status |-> status, generation |-> session[p].generation + 1,
                            binding |-> NoBinding, order |-> 0, exposure |-> 0]
          /\ \A q \in Peers \ {p} : session'[q] = session[q]
        BY <2>1, FenceFacts, Zenon
    <2> QED
        BY <2>2
<1>2. /\ handoffs \in Nat
      /\ owner = NoOwner \/ owner \in [peer : Peers, binding : Binding, revision : Nat]
      /\ session \in [Peers -> Session]
    BY DEF SessionsInv, SessionsTypeOK
<1>3. \A q \in Candidates(session') : session'[q].binding \in Binding
    <2> SUFFICES ASSUME NEW q \in Candidates(session')
                 PROVE  session'[q].binding \in Binding
        OBVIOUS
    <2>1. q \in Peers /\ q # p /\ session'[q] = session[q] /\ IsOpen(q)
        BY <1>1 DEF Candidates, IsOpen
    <2> QED
        BY <1>2, <2>1 DEF SessionsInv, BindingCurrent, Session, OptionalBinding
<1>4. CASE owner.peer = p /\ session[p].binding # NoBinding /\ owner.binding = session[p].binding
    <2>1. SelectOwner(session')
        BY <1>4 DEF Fence
    <2>2. OwnerIsLatestOpen'
        <3>1. CASE Candidates(session') = {}
            BY <2>1, <3>1 DEF SelectOwner, OwnerIsLatestOpen
        <3>2. CASE Candidates(session') # {}
            <4>1. PICK n \in Candidates(session') :
                    /\ \A q \in Candidates(session') : session'[q].order <= session'[n].order
                    /\ owner' = [peer |-> n, binding |-> session'[n].binding,
                                 revision |-> handoffs + 1]
                BY <2>1, <3>2 DEF SelectOwner
            <4>2. owner'.binding # NoBinding
                BY <1>3, <4>1, SessionsAssumption
            <4> QED
                BY <3>2, <4>1, <4>2 DEF OwnerIsLatestOpen, Candidates, IsOpen, NoOwner
        <3> QED
            BY <3>1, <3>2
    <2> QED
        BY <1>1, <1>2, <1>3, <2>1, <2>2, SelectOwnerTyped
<1>5. CASE ~(owner.peer = p /\ session[p].binding # NoBinding /\ owner.binding = session[p].binding)
    <2>1. owner' = owner /\ handoffs' = handoffs
        BY <1>5 DEF Fence
    <2>2. OwnerIsLatestOpen'
        <3>1. CASE IsOpen(p)
            <4>1. /\ owner # NoOwner /\ IsOpen(owner.peer)
                  /\ owner.binding = session[owner.peer].binding
                  /\ \A q \in Candidates(session) : session[q].order <= session[owner.peer].order
                BY <3>1 DEF SessionsInv, OwnerIsLatestOpen, Candidates, IsOpen
            <4>2. owner.peer \in Peers \ {p}
                BY <1>2, <1>5, <3>1, <4>1 DEF SessionsInv, BindingCurrent
            <4>3. Candidates(session') \subseteq Candidates(session)
                BY <1>1 DEF Candidates
            <4>4. IsOpen(owner.peer)' /\ owner.peer \in Candidates(session')
                BY <1>1, <2>1, <4>1, <4>2 DEF Candidates, IsOpen
            <4>5. \A q \in Candidates(session') : session'[q] = session[q]
                BY <1>1 DEF Candidates
            <4> QED
                BY <1>1, <2>1, <4>1, <4>2, <4>3, <4>4, <4>5 DEF OwnerIsLatestOpen
        <3>2. CASE ~IsOpen(p)
            <4>1. \A q \in Peers : (IsOpen(q)' <=> IsOpen(q)) /\ (IsOpen(q) => session'[q] = session[q])
                BY <1>1, <3>2 DEF IsOpen
            <4> QED
                BY <2>1, <4>1, OwnerUndisturbed DEF SessionsInv
        <3> QED
            BY <3>1, <3>2
    <2> QED
        BY <1>2, <2>1, <2>2
<1> QED
    BY <1>4, <1>5

-----------------------------------------------------------------------------
(* Types *)

(* Every operation keeps the queues of open requests typed. *)
LEMMA AnswerTyped ==
    ASSUME SessionsInv, NEW p \in Peers, opens[p] # <<>>, Answer(p)
    PROVE  opens' \in [Peers -> Seq(OpenRequest)]
<1>1. opens \in [Peers -> Seq(OpenRequest)] /\ opens[p] \in Seq(OpenRequest)
    BY DEF SessionsInv, SessionsTypeOK
<1>2. Tail(opens[p]) \in Seq(OpenRequest)
    BY <1>1
<1> QED
    BY <1>1, <1>2 DEF Answer

LEMMA SetHeadTyped ==
    ASSUME SessionsInv, NEW p \in Peers, opens[p] # <<>>,
           NEW stage \in {"queued", "draining", "waiting", "initializing"},
           NEW expected \in Nat, SetHead(p, stage, expected)
    PROVE  /\ opens' \in [Peers -> Seq(OpenRequest)]
           /\ opens'[p] # <<>> /\ Len(opens'[p]) = Len(opens[p])
           /\ opens'[p][1].stage = stage
           /\ \A i \in 1..Len(opens[p]) : i > 1 => opens'[p][i] = opens[p][i]
           /\ \A q \in Peers \ {p} : opens'[q] = opens[q]
<1> DEFINE head == [Head(opens[p]) EXCEPT !.stage = stage, !.expected = expected]
<1>1. opens \in [Peers -> Seq(OpenRequest)] /\ opens[p] \in Seq(OpenRequest)
    BY DEF SessionsInv, SessionsTypeOK
<1>2. Head(opens[p]) \in OpenRequest
    BY <1>1
<1>3. head \in OpenRequest /\ head.stage = stage
    BY <1>2 DEF OpenRequest
<1>4. opens' = [opens EXCEPT ![p] = <<head>> \o Tail(opens[p])]
    BY DEF SetHead
<1> HIDE DEF head
<1>5. /\ <<head>> \o Tail(opens[p]) \in Seq(OpenRequest)
      /\ <<head>> \o Tail(opens[p]) # <<>>
      /\ Len(<<head>> \o Tail(opens[p])) = Len(opens[p])
      /\ (<<head>> \o Tail(opens[p]))[1] = head
      /\ \A i \in 1..Len(opens[p]) : i > 1 => (<<head>> \o Tail(opens[p]))[i] = opens[p][i]
    BY <1>1, <1>3, HeadReplaced
<1>6. opens'[p] = <<head>> \o Tail(opens[p])
    BY <1>1, <1>4
<1> QED
    BY <1>1, <1>3, <1>4, <1>5, <1>6

LEMMA TypesKept ==
    SessionsInv /\ [SessionsNext]_vars => SessionsTypeOK'
<1> SUFFICES ASSUME SessionsInv, [SessionsNext]_vars
             PROVE  SessionsTypeOK'
    OBVIOUS
<1> USE DEF SessionsInv
<1>0. /\ SessionsTypeOK
      /\ session \in [Peers -> Session] /\ pages \in [Peers -> Page]
      /\ \A p \in Peers : session[p] \in Session /\ pages[p] \in Page
      /\ \A p \in Peers : session[p].generation \in Nat /\ pages[p].asked \in Nat
    BY DEF SessionsTypeOK, Session, Page
<1>1. ASSUME NEW p \in Peers, Connect(p) PROVE SessionsTypeOK'
    BY <1>0, <1>1, ZenonT(30) DEF Connect, SessionsTypeOK, Session, services
<1>2. ASSUME NEW p \in Peers, JoinOpen(p) PROVE SessionsTypeOK'
    <2>1. opens' \in [Peers -> Seq(OpenRequest)]
        BY <1>2, AnswerTyped DEF JoinOpen, AtHead
    <2>2. pages' \in [Peers -> Page]
        BY <1>0, <1>2 DEF JoinOpen, Page, Session
    <2> QED
        BY <1>0, <1>2, <2>1, <2>2 DEF JoinOpen, SessionsTypeOK, services
<1>3. ASSUME NEW p \in Peers, ReplaceOpen(p) PROVE SessionsTypeOK'
    <2>1. opens' \in [Peers -> Seq(OpenRequest)]
        BY <1>0, <1>3, SetHeadTyped DEF ReplaceOpen, AtHead
    <2>2. session' \in [Peers -> Session]
        BY <1>0, <1>3, FenceFacts DEF ReplaceOpen
    <2>3. /\ owner' = NoOwner \/ owner' \in [peer : Peers, binding : Binding, revision : Nat]
          /\ handoffs' \in Nat
        BY <1>3, FenceOwner DEF ReplaceOpen
    <2> QED
        BY <1>0, <1>3, <2>1, <2>2, <2>3 DEF ReplaceOpen, SessionsTypeOK, services
<1>4. ASSUME NEW p \in Peers, DrainSettles(p) PROVE SessionsTypeOK'
    BY <1>0, <1>4 DEF DrainSettles, SessionsTypeOK, Session, services
<1>5. ASSUME NEW p \in Peers, BeginOpen(p) PROVE SessionsTypeOK'
    <2>1. opens' \in [Peers -> Seq(OpenRequest)]
        <3>1. opens[p] # <<>> /\ session[p].generation + 1 \in Nat
            BY <1>0, <1>5 DEF BeginOpen, Ready, AtHead
        <3> QED
            BY <1>5, <3>1, SetHeadTyped DEF BeginOpen
    <2>2. session' \in [Peers -> Session]
        <3> DEFINE begun == [session[p] EXCEPT !.generation = session[p].generation + 1,
                                               !.status = "active"]
        <3>1. begun \in Session
            <4>1. session[p] \in Session /\ session[p].generation + 1 \in Nat
                BY <1>0
            <4> QED
                BY <4>1 DEF Session
        <3>2. session' = [session EXCEPT ![p] = begun]
            BY <1>0, <1>5 DEF BeginOpen
        <3> QED
            BY <1>0, <3>1, <3>2
    <2>3. initTail' \in Seq(Peers)
        BY <1>0, <1>5 DEF BeginOpen, SessionsTypeOK
    <2> QED
        BY <1>0, <1>5, <2>1, <2>2, <2>3 DEF BeginOpen, SessionsTypeOK, services
<1>6. ASSUME NEW p \in Peers, RefuseOpen(p) PROVE SessionsTypeOK'
    <2>1. opens' \in [Peers -> Seq(OpenRequest)]
        BY <1>6, AnswerTyped DEF RefuseOpen, Ready, AtHead
    <2> QED
        BY <1>0, <1>6, <2>1 DEF RefuseOpen, SessionsTypeOK, services
<1>7. ASSUME NEW p \in Peers, StartInitialization(p) PROVE SessionsTypeOK'
    <2>1. opens' \in [Peers -> Seq(OpenRequest)]
        <3>1. opens[p] # <<>> /\ Head(opens[p]).expected \in Nat
            BY <1>0, <1>7 DEF StartInitialization, Initializing, AtHead, Fresh
        <3> QED
            BY <1>7, <3>1, SetHeadTyped DEF StartInitialization
    <2> QED
        BY <1>0, <1>7, <2>1 DEF StartInitialization, SessionsTypeOK, services
<1>8. ASSUME NEW p \in Peers, CommitOpen(p) PROVE SessionsTypeOK'
    <2> DEFINE binding == [generation |-> Head(opens[p]).expected, lease |-> Head(opens[p]).lease]
    <2>1. opens[p] # <<>> /\ opens[p] \in Seq(OpenRequest)
        BY <1>0, <1>8 DEF CommitOpen, Initializing, AtHead, SessionsTypeOK
    <2>2. binding \in Binding
        <3>1. Head(opens[p]) \in OpenRequest
            BY <2>1
        <3> QED
            BY <3>1 DEF OpenRequest, Binding
    <2>3. opens' \in [Peers -> Seq(OpenRequest)]
        BY <1>8, <2>1, AnswerTyped DEF CommitOpen
    <2>4. commits \in Nat /\ handoffs \in Nat /\ identity \in Nat
        BY SessionsAssumption DEF SessionsTypeOK
    <2>5. session' \in [Peers -> Session]
        BY <1>0, <1>8, <2>2, <2>4 DEF CommitOpen, Session, OptionalBinding
    <2>6. owner' \in [peer : Peers, binding : Binding, revision : Nat]
        BY <1>8, <2>2, <2>4 DEF CommitOpen
    <2>7. pages' \in [Peers -> Page]
        BY <1>0, <1>8, <2>2 DEF CommitOpen, Page, OptionalBinding
    <2>8. initTail' \in Seq(Peers)
        BY <1>8 DEF CommitOpen, Initializing, SessionsTypeOK
    <2>9. /\ commits' \in Nat /\ handoffs' \in Nat
          /\ UNCHANGED <<identity, rotations, stale>>
        BY <1>8, <2>4 DEF CommitOpen, services
    <2> QED
        BY <2>3, <2>5, <2>6, <2>7, <2>8, <2>9 DEF SessionsTypeOK
<1>9. ASSUME NEW p \in Peers, AbandonOpen(p) PROVE SessionsTypeOK'
    <2>1. opens' \in [Peers -> Seq(OpenRequest)]
        BY <1>9, AnswerTyped DEF AbandonOpen, Initializing, AtHead
    <2>2. initTail' \in Seq(Peers)
        BY <1>9 DEF AbandonOpen, Initializing, SessionsTypeOK
    <2> QED
        BY <1>0, <1>9, <2>1, <2>2 DEF AbandonOpen, SessionsTypeOK, services
<1>10. ASSUME NEW p \in Peers, SendClose(p) PROVE SessionsTypeOK'
    <2>1. pages' \in [Peers -> Page]
        <3>1. pages[p].told \in Binding /\ pages[p].left \subseteq Binding
            BY <1>0, <1>10 DEF SendClose, Page, OptionalBinding
        <3> QED
            BY <1>0, <1>10, <3>1 DEF SendClose, Page
    <2> QED
        BY <1>0, <1>10, <2>1 DEF SendClose, SessionsTypeOK, services
<1>11. ASSUME NEW p \in Peers, Revoke(p) PROVE SessionsTypeOK'
    <2>1. session' \in [Peers -> Session]
        BY <1>0, <1>11, FenceFacts DEF Revoke
    <2>2. /\ owner' = NoOwner \/ owner' \in [peer : Peers, binding : Binding, revision : Nat]
          /\ handoffs' \in Nat
        BY <1>11, FenceOwner DEF Revoke
    <2> QED
        BY <1>0, <1>11, <2>1, <2>2 DEF Revoke, SessionsTypeOK, services
<1>12. ASSUME NEW p \in Peers, NEW lease \in {pages[p].asked, pages[p].asked + 1},
              RequestOpen(p, lease)
       PROVE  SessionsTypeOK'
    <2>1. lease \in Nat
        BY <1>0, <1>12
    <2>2. opens' \in [Peers -> Seq(OpenRequest)]
        <3>1. [lease |-> lease, stage |-> "queued", expected |-> session[p].generation] \in OpenRequest
            BY <1>0, <2>1 DEF OpenRequest
        <3>2. opens \in [Peers -> Seq(OpenRequest)] /\ opens[p] \in Seq(OpenRequest)
            BY DEF SessionsTypeOK
        <3>3. Append(opens[p], [lease |-> lease, stage |-> "queued",
                                expected |-> session[p].generation]) \in Seq(OpenRequest)
            BY <3>1, <3>2
        <3> QED
            BY <1>12, <3>2, <3>3 DEF RequestOpen
    <2>3. pages' \in [Peers -> Page]
        <3> DEFINE asking == [pages[p] EXCEPT !.asked = lease,
                                              !.requests = pages[p].requests + 1]
        <3>1. asking \in Page
            <4>1. pages[p] \in Page /\ pages[p].requests + 1 \in Nat
                BY <1>0 DEF Page
            <4> QED
                BY <2>1, <4>1 DEF Page
        <3>2. pages' = [pages EXCEPT ![p] = asking]
            BY <1>0, <1>12 DEF RequestOpen
        <3> QED
            BY <1>0, <3>1, <3>2
    <2> QED
        BY <1>0, <1>12, <2>2, <2>3 DEF RequestOpen, SessionsTypeOK, services
<1>13. ASSUME NEW p \in Peers, NEW binding \in pages[p].left, SessionClosed(p, binding)
       PROVE  SessionsTypeOK'
    <2>1. session' \in [Peers -> Session]
        BY <1>0, <1>13, FenceFacts DEF SessionClosed
    <2>2. /\ owner' = NoOwner \/ owner' \in [peer : Peers, binding : Binding, revision : Nat]
          /\ handoffs' \in Nat
        BY <1>13, FenceOwner DEF SessionClosed
    <2> QED
        BY <1>0, <1>13, <2>1, <2>2 DEF SessionClosed, SessionsTypeOK, services
<1>14. ASSUME NEW ready \in BOOLEAN, RotateIdentity(ready) PROVE SessionsTypeOK'
    BY <1>14, SessionsAssumption DEF RotateIdentity, SessionsTypeOK
<1>15. CASE Reconcile
    <2>1. identity \in Nat
        BY SessionsAssumption DEF SessionsTypeOK
    <2>2. session' \in [Peers -> Session]
        BY <1>0, <1>15, <2>1 DEF Reconcile, Exposed, Session
    <2> QED
        BY <1>15, <2>2 DEF Reconcile, SessionsTypeOK
<1>16. CASE ReconcileFails
    <2>1. identity \in Nat
        BY SessionsAssumption DEF SessionsTypeOK
    <2>2. PICK p \in Peers, before \in SUBSET Peers :
            session' = [q \in Peers |-> [session[q] EXCEPT !.exposure =
                          IF q \in before THEN Exposed(q) ELSE IF q = p THEN 0 ELSE session[q].exposure]]
        BY <1>16 DEF ReconcileFails
    <2>3. \A q \in Peers : session'[q] \in Session
        BY <1>0, <2>1, <2>2 DEF Exposed, Session
    <2>4. session' \in [Peers -> Session]
        BY <2>2, <2>3
    <2> QED
        BY <1>16, <2>4 DEF ReconcileFails, SessionsTypeOK
<1>17. CASE UNCHANGED vars
    BY <1>0, <1>17 DEF vars, SessionsTypeOK
<1> QED
    BY <1>1, <1>2, <1>3, <1>4, <1>5, <1>6, <1>7, <1>8, <1>9, <1>10, <1>11, <1>12,
       <1>13, <1>14, <1>15, <1>16, <1>17 DEF SessionsNext, OpenStep

-----------------------------------------------------------------------------
(* The queues of requests *)

(* The head of a queue that is not empty is its first element. *)
LEMMA HeadIsFirst ==
    ASSUME SessionsInv, NEW p \in Peers, opens[p] # <<>>
    PROVE  Head(opens[p]) = opens[p][1] /\ Head(opens[p]) \in OpenRequest
    BY DEF SessionsInv, SessionsTypeOK

(* An answer leaves a queue in which no request is under way. *)
LEMMA AnswerFacts ==
    ASSUME SessionsInv, NEW p \in Peers, opens[p] # <<>>, Answer(p)
    PROVE  /\ \A i \in 1..Len(opens'[p]) : opens'[p][i].stage = "queued"
           /\ opens'[p] # <<>> => opens'[p][1].stage = "queued"
           /\ \A q \in Peers \ {p} : opens'[q] = opens[q]
<1>1. opens \in [Peers -> Seq(OpenRequest)] /\ opens[p] \in Seq(OpenRequest)
    BY DEF SessionsInv, SessionsTypeOK
<1>2. \A i \in 1..Len(opens[p]) : i > 1 => opens[p][i].stage = "queued"
    BY DEF SessionsInv, OneRequestAtATime
<1>3. /\ Tail(opens[p]) \in Seq(OpenRequest)
      /\ \A i \in 1..Len(Tail(opens[p])) : Tail(opens[p])[i].stage = "queued"
    BY <1>1, <1>2, HeadAnswered
<1>4. opens' = [opens EXCEPT ![p] = Tail(opens[p])]
    BY DEF Answer
<1>5. opens'[p] = Tail(opens[p])
    BY <1>1, <1>4
<1>6. Tail(opens[p]) # <<>> => Len(Tail(opens[p])) \in Nat \ {0}
    BY <1>3
<1>7. \A q \in Peers \ {p} : opens'[q] = opens[q]
    BY <1>1, <1>4
<1>8. opens'[p] # <<>> => 1 \in 1..Len(opens'[p])
    BY <1>5, <1>6
<1>9. \A i \in 1..Len(opens'[p]) : opens'[p][i].stage = "queued"
    BY <1>3, <1>5
<1> QED
    BY <1>7, <1>8, <1>9

(* A page whose queue does not change, and whose session does not open, keeps the order. *)
LEMMA QueueUndisturbed ==
    ASSUME SessionsInv, NEW p \in Peers, opens'[p] = opens[p], IsOpen(p)' => IsOpen(p)
    PROVE  /\ \A i \in 1..Len(opens'[p]) : i > 1 => opens'[p][i].stage = "queued"
           /\ (opens'[p] # <<>> /\ opens'[p][1].stage # "queued") => ~IsOpen(p)'
    BY DEF SessionsInv, OneRequestAtATime

(* Moving the head on keeps the order if the session is not open then. *)
LEMMA HeadMoved ==
    ASSUME SessionsInv, NEW p \in Peers, opens[p] # <<>>,
           NEW stage \in {"queued", "draining", "waiting", "initializing"},
           NEW expected \in Nat, SetHead(p, stage, expected), ~IsOpen(p)',
           \A q \in Peers \ {p} : session'[q] = session[q]
    PROVE  OneRequestAtATime'
<1>1. /\ Len(opens'[p]) = Len(opens[p])
      /\ \A i \in 1..Len(opens[p]) : i > 1 => opens'[p][i] = opens[p][i]
      /\ \A q \in Peers \ {p} : opens'[q] = opens[q]
    BY SetHeadTyped
<1>2. ASSUME NEW q \in Peers \ {p}
      PROVE  /\ \A i \in 1..Len(opens'[q]) : i > 1 => opens'[q][i].stage = "queued"
             /\ (opens'[q] # <<>> /\ opens'[q][1].stage # "queued") => ~IsOpen(q)'
    BY <1>1, <1>2 DEF SessionsInv, OneRequestAtATime, IsOpen
<1>3. \A i \in 1..Len(opens'[p]) : i > 1 => opens'[p][i].stage = "queued"
    BY <1>1 DEF SessionsInv, OneRequestAtATime
<1> QED
    BY <1>2, <1>3 DEF OneRequestAtATime

(* So does answering it, if the other sessions stay as they are. *)
LEMMA HeadGone ==
    ASSUME SessionsInv, NEW p \in Peers, opens[p] # <<>>, Answer(p),
           \A q \in Peers \ {p} : session'[q] = session[q]
    PROVE  OneRequestAtATime'
<1>1. /\ \A i \in 1..Len(opens'[p]) : opens'[p][i].stage = "queued"
      /\ opens'[p] # <<>> => opens'[p][1].stage = "queued"
      /\ \A q \in Peers \ {p} : opens'[q] = opens[q]
    BY AnswerFacts
<1>2. ASSUME NEW q \in Peers \ {p}
      PROVE  /\ \A i \in 1..Len(opens'[q]) : i > 1 => opens'[q][i].stage = "queued"
             /\ (opens'[q] # <<>> /\ opens'[q][1].stage # "queued") => ~IsOpen(q)'
    BY <1>1, <1>2 DEF SessionsInv, OneRequestAtATime, IsOpen
<1> QED
    BY <1>1, <1>2 DEF OneRequestAtATime

LEMMA FenceInv ==
    ASSUME SessionsInv, NEW p \in Peers, NEW status \in {"closing", "revoked"},
           Fence(p, status)
    PROVE  /\ ~IsOpen(p)' /\ session'[p].binding = NoBinding
           /\ \A q \in Peers \ {p} : session'[q] = session[q]
<1>1. SessionsTypeOK
    BY DEF SessionsInv
<1>2. /\ session'[p] = [status |-> status, generation |-> session[p].generation + 1,
                        binding |-> NoBinding, order |-> 0, exposure |-> 0]
      /\ \A q \in Peers \ {p} : session'[q] = session[q]
    BY <1>1, FenceFacts, Zenon
<1> QED
    BY <1>2 DEF IsOpen

LEMMA QueuesKept ==
    SessionsInv /\ [SessionsNext]_vars => OneRequestAtATime'
<1> SUFFICES ASSUME SessionsInv, [SessionsNext]_vars
             PROVE  OneRequestAtATime'
    OBVIOUS
<1>0. /\ session \in [Peers -> Session]
      /\ opens \in [Peers -> Seq(OpenRequest)]
      /\ \A p \in Peers : session[p].generation \in Nat
    BY DEF SessionsInv, SessionsTypeOK, Session
<1>a. ASSUME opens' = opens, \A q \in Peers : IsOpen(q)' => IsOpen(q)
      PROVE  OneRequestAtATime'
    BY <1>a, QueueUndisturbed DEF OneRequestAtATime
<1>1. ASSUME NEW p \in Peers, Connect(p) PROVE OneRequestAtATime'
    BY <1>0, <1>1, <1>a DEF Connect, IsOpen
<1>2. ASSUME NEW p \in Peers, JoinOpen(p) PROVE OneRequestAtATime'
    BY <1>2, HeadGone DEF JoinOpen, AtHead
<1>3. ASSUME NEW p \in Peers, ReplaceOpen(p) PROVE OneRequestAtATime'
    <2>1. /\ opens[p] # <<>> /\ Fence(p, "closing")
          /\ SetHead(p, "draining", session[p].generation + 1)
          /\ session[p].generation + 1 \in Nat
        BY <1>0, <1>3 DEF ReplaceOpen, AtHead
    <2>2. ~IsOpen(p)' /\ \A q \in Peers \ {p} : session'[q] = session[q]
        BY <2>1, FenceInv
    <2> QED
        BY <2>1, <2>2, HeadMoved
<1>4. ASSUME NEW p \in Peers, DrainSettles(p) PROVE OneRequestAtATime'
    BY <1>0, <1>4, <1>a DEF DrainSettles, IsOpen
<1>5. ASSUME NEW p \in Peers, BeginOpen(p) PROVE OneRequestAtATime'
    <2>1. /\ opens[p] # <<>> /\ session[p].generation + 1 \in Nat
          /\ SetHead(p, "waiting", session[p].generation + 1)
        BY <1>0, <1>5 DEF BeginOpen, Ready, AtHead
    <2>2. ~IsOpen(p)' /\ \A q \in Peers \ {p} : session'[q] = session[q]
        BY <1>0, <1>5 DEF BeginOpen, IsOpen
    <2> QED
        BY <2>1, <2>2, HeadMoved
<1>6. ASSUME NEW p \in Peers, RefuseOpen(p) PROVE OneRequestAtATime'
    BY <1>6, HeadGone DEF RefuseOpen, Ready, AtHead
<1>7. ASSUME NEW p \in Peers, StartInitialization(p) PROVE OneRequestAtATime'
    <2>1. /\ opens[p] # <<>> /\ Head(opens[p]).expected \in Nat
          /\ Head(opens[p]).stage = "waiting" /\ session' = session
          /\ SetHead(p, "initializing", Head(opens[p]).expected)
        BY <1>0, <1>7 DEF StartInitialization, Initializing, AtHead, Fresh
    <2>2. ~IsOpen(p)
        BY <2>1, HeadIsFirst DEF SessionsInv, OneRequestAtATime
    <2> QED
        BY <2>1, <2>2, HeadMoved DEF IsOpen
<1>8. ASSUME NEW p \in Peers, CommitOpen(p) PROVE OneRequestAtATime'
    <2>1. opens[p] # <<>> /\ Answer(p) /\ \A q \in Peers \ {p} : session'[q] = session[q]
        BY <1>0, <1>8 DEF CommitOpen, Initializing, AtHead
    <2> QED
        BY <2>1, HeadGone
<1>9. ASSUME NEW p \in Peers, AbandonOpen(p) PROVE OneRequestAtATime'
    BY <1>9, HeadGone DEF AbandonOpen, Initializing, AtHead
<1>10. ASSUME NEW p \in Peers, SendClose(p) PROVE OneRequestAtATime'
    BY <1>10, <1>a DEF SendClose, IsOpen
<1>11. ASSUME NEW p \in Peers, Revoke(p) PROVE OneRequestAtATime'
    BY <1>11, <1>a, FenceInv DEF Revoke, IsOpen
<1>12. ASSUME NEW p \in Peers, NEW lease, RequestOpen(p, lease) PROVE OneRequestAtATime'
    <2> DEFINE request == [lease |-> lease, stage |-> "queued", expected |-> session[p].generation]
    <2>1. /\ opens' = [opens EXCEPT ![p] = Append(opens[p], request)] /\ session' = session
          /\ opens[p] \in Seq(OpenRequest)
        BY <1>0, <1>12 DEF RequestOpen
    <2>2. request.stage = "queued"
        OBVIOUS
    <2> HIDE DEF request
    <2>3. /\ Len(opens'[p]) = Len(opens[p]) + 1 /\ Len(opens[p]) \in Nat
          /\ \A i \in 1..Len(opens[p]) : opens'[p][i] = opens[p][i]
          /\ opens'[p][Len(opens[p]) + 1] = request
          /\ opens[p] = <<>> <=> Len(opens[p]) = 0
        BY <1>0, <2>1
    <2>4. \A i \in 1..Len(opens'[p]) : i > 1 => opens'[p][i].stage = "queued"
        BY <2>2, <2>3 DEF SessionsInv, OneRequestAtATime
    <2>5. opens'[p][1].stage # "queued" => ~IsOpen(p)'
        BY <2>1, <2>2, <2>3 DEF SessionsInv, OneRequestAtATime, IsOpen
    <2>6. \A q \in Peers \ {p} : opens'[q] = opens[q]
        BY <1>0, <2>1
    <2> QED
        BY <2>1, <2>4, <2>5, <2>6, QueueUndisturbed DEF OneRequestAtATime, IsOpen
<1>13. ASSUME NEW p \in Peers, NEW binding, SessionClosed(p, binding) PROVE OneRequestAtATime'
    BY <1>13, <1>a, FenceInv DEF SessionClosed, IsOpen
<1>14. ASSUME NEW ready, RotateIdentity(ready) PROVE OneRequestAtATime'
    BY <1>14, <1>a DEF RotateIdentity, IsOpen
<1>15. CASE Reconcile
    BY <1>0, <1>15, <1>a DEF Reconcile, IsOpen, Session
<1>16. CASE ReconcileFails
    BY <1>0, <1>16, <1>a DEF ReconcileFails, IsOpen, Session
<1>17. CASE UNCHANGED vars
    BY <1>17, <1>a DEF vars, IsOpen
<1> QED
    BY <1>1, <1>2, <1>3, <1>4, <1>5, <1>6, <1>7, <1>8, <1>9, <1>10, <1>11, <1>12,
       <1>13, <1>14, <1>15, <1>16, <1>17 DEF SessionsNext, OpenStep

-----------------------------------------------------------------------------
(* The sessions and the owner of storage I/O *)

(* What BindingCurrent says of one page. *)
Current(p) ==
    /\ IsOpen(p) <=> session[p].binding # NoBinding
    /\ IsOpen(p) => /\ Registered(p)
                    /\ session[p].binding.generation = session[p].generation
                    /\ session[p].order \in 1..commits

(* A page whose status, generation, binding and order stay is as current as it was. *)
LEMMA CurrentUndisturbed ==
    ASSUME SessionsInv, NEW p \in Peers, commits' = commits,
           session'[p].status = session[p].status,
           session'[p].generation = session[p].generation,
           session'[p].binding = session[p].binding,
           session'[p].order = session[p].order
    PROVE  Current(p)'
    BY DEF SessionsInv, BindingCurrent, Current, IsOpen, Registered

(* A page that has no session and no binding is current. *)
LEMMA CurrentWhenClosed ==
    ASSUME NEW p \in Peers, ~IsOpen(p)', session'[p].binding = NoBinding
    PROVE  Current(p)'
    BY DEF Current, IsOpen

LEMMA FenceKeepsCurrent ==
    ASSUME SessionsInv, NEW p \in Peers, NEW status \in {"closing", "revoked"},
           Fence(p, status), commits' = commits
    PROVE  BindingCurrent'
<1>1. /\ ~IsOpen(p)' /\ session'[p].binding = NoBinding
      /\ \A q \in Peers \ {p} : session'[q] = session[q]
    BY FenceInv
<1>2. Current(p)'
    BY <1>1, CurrentWhenClosed
<1>3. \A q \in Peers \ {p} : Current(q)'
    BY <1>1, CurrentUndisturbed
<1> QED
    BY <1>2, <1>3 DEF BindingCurrent, Current

LEMMA SessionsUndisturbed ==
    ASSUME SessionsInv, commits' = commits,
           \A p \in Peers : /\ session'[p].status = session[p].status
                            /\ session'[p].generation = session[p].generation
                            /\ session'[p].binding = session[p].binding
                            /\ session'[p].order = session[p].order
    PROVE  BindingCurrent'
    BY CurrentUndisturbed DEF BindingCurrent, Current

LEMMA CurrentKept ==
    SessionsInv /\ [SessionsNext]_vars => BindingCurrent'
<1> SUFFICES ASSUME SessionsInv, [SessionsNext]_vars
             PROVE  BindingCurrent'
    OBVIOUS
<1>0. /\ session \in [Peers -> Session] /\ commits \in Nat
      /\ \A p \in Peers : session[p].generation \in Nat
      /\ \A p \in Peers : IsOpen(p) <=> session[p].binding # NoBinding
    BY DEF SessionsInv, SessionsTypeOK, Session, BindingCurrent
<1>a. ASSUME NEW p \in Peers, ~IsOpen(p), commits' = commits,
             session'[p].binding = session[p].binding, ~IsOpen(p)',
             \A q \in Peers \ {p} : session'[q] = session[q]
      PROVE  BindingCurrent'
    <2>1. Current(p)'
        BY <1>0, <1>a, CurrentWhenClosed
    <2>2. \A q \in Peers \ {p} : Current(q)'
        BY <1>a, CurrentUndisturbed
    <2> QED
        BY <2>1, <2>2 DEF BindingCurrent, Current
<1>1. ASSUME NEW p \in Peers, Connect(p) PROVE BindingCurrent'
    <2>1. /\ session'[p].binding = session[p].binding /\ session'[p].status = "active"
          /\ session[p].status # "open" /\ commits' = commits
          /\ \A q \in Peers \ {p} : session'[q] = session[q]
        BY <1>0, <1>1 DEF Connect, Session
    <2> QED
        BY <1>a, <2>1 DEF IsOpen
<1>2. ASSUME NEW p \in Peers, JoinOpen(p) PROVE BindingCurrent'
    BY <1>2, SessionsUndisturbed DEF JoinOpen
<1>3. ASSUME NEW p \in Peers, ReplaceOpen(p) PROVE BindingCurrent'
    BY <1>3, FenceKeepsCurrent DEF ReplaceOpen
<1>4. ASSUME NEW p \in Peers, DrainSettles(p) PROVE BindingCurrent'
    <2>1. /\ session'[p].binding = session[p].binding /\ session'[p].status = "active"
          /\ session[p].status # "open" /\ commits' = commits
          /\ \A q \in Peers \ {p} : session'[q] = session[q]
        BY <1>0, <1>4 DEF DrainSettles, Session
    <2> QED
        BY <1>a, <2>1 DEF IsOpen
<1>5. ASSUME NEW p \in Peers, BeginOpen(p) PROVE BindingCurrent'
    <2>1. ~IsOpen(p)
        <3>1. CASE AtHead(p, "queued") /\ ~IsOpen(p)
            BY <3>1
        <3>2. CASE AtHead(p, "draining")
            BY <3>2, HeadIsFirst DEF AtHead, SessionsInv, OneRequestAtATime
        <3> QED
            BY <1>5, <3>1, <3>2 DEF BeginOpen, Ready
    <2>2. /\ session'[p].binding = session[p].binding /\ session'[p].status = "active"
          /\ commits' = commits
          /\ \A q \in Peers \ {p} : session'[q] = session[q]
        BY <1>0, <1>5 DEF BeginOpen, Session
    <2> QED
        BY <1>a, <2>1, <2>2 DEF IsOpen
<1>6. ASSUME NEW p \in Peers, RefuseOpen(p) PROVE BindingCurrent'
    BY <1>6, SessionsUndisturbed DEF RefuseOpen
<1>7. ASSUME NEW p \in Peers, StartInitialization(p) PROVE BindingCurrent'
    BY <1>7, SessionsUndisturbed DEF StartInitialization
<1>8. ASSUME NEW p \in Peers, CommitOpen(p) PROVE BindingCurrent'
    <2> DEFINE binding == [generation |-> Head(opens[p]).expected, lease |-> Head(opens[p]).lease]
    <2>1. /\ session' = [session EXCEPT ![p] =
               [status |-> "open", generation |-> session[p].generation, binding |-> binding,
                order |-> commits + 1, exposure |-> identity]]
          /\ commits' = commits + 1 /\ opens[p] # <<>>
          /\ session[p].generation = Head(opens[p]).expected
        BY <1>8 DEF CommitOpen, Fresh, Initializing, AtHead
    <2>2. binding \in Binding /\ binding.generation = session[p].generation
        BY <2>1, HeadIsFirst DEF OpenRequest, Binding
    <2> HIDE DEF binding
    <2>3. Current(p)'
        BY <1>0, <2>1, <2>2, SessionsAssumption DEF Current, IsOpen, Registered
    <2>4. ASSUME NEW q \in Peers \ {p} PROVE Current(q)'
        <3>1. session'[q] = session[q]
            BY <1>0, <2>1, <2>4
        <3> QED
            BY <1>0, <2>1, <2>4, <3>1 DEF SessionsInv, BindingCurrent, Current, IsOpen, Registered
    <2> QED
        BY <2>3, <2>4 DEF BindingCurrent, Current
<1>9. ASSUME NEW p \in Peers, AbandonOpen(p) PROVE BindingCurrent'
    BY <1>9, SessionsUndisturbed DEF AbandonOpen
<1>10. ASSUME NEW p \in Peers, SendClose(p) PROVE BindingCurrent'
    BY <1>10, SessionsUndisturbed DEF SendClose
<1>11. ASSUME NEW p \in Peers, Revoke(p) PROVE BindingCurrent'
    BY <1>11, FenceKeepsCurrent DEF Revoke
<1>12. ASSUME NEW p \in Peers, NEW lease, RequestOpen(p, lease) PROVE BindingCurrent'
    BY <1>12, SessionsUndisturbed DEF RequestOpen
<1>13. ASSUME NEW p \in Peers, NEW binding, SessionClosed(p, binding) PROVE BindingCurrent'
    BY <1>13, FenceKeepsCurrent DEF SessionClosed
<1>14. ASSUME NEW ready, RotateIdentity(ready) PROVE BindingCurrent'
    BY <1>14, SessionsUndisturbed DEF RotateIdentity
<1>15. CASE Reconcile
    BY <1>0, <1>15, SessionsUndisturbed DEF Reconcile, Session
<1>16. CASE ReconcileFails
    BY <1>0, <1>16, SessionsUndisturbed DEF ReconcileFails, Session
<1>17. CASE UNCHANGED vars
    BY <1>17, SessionsUndisturbed DEF vars
<1> QED
    BY <1>1, <1>2, <1>3, <1>4, <1>5, <1>6, <1>7, <1>8, <1>9, <1>10, <1>11, <1>12,
       <1>13, <1>14, <1>15, <1>16, <1>17 DEF SessionsNext, OpenStep

(* Storage I/O stays with the latest open session, and whenever it is handed *)
(* over the new owner's revision is new.                                     *)
HandoffIsNew == owner' \notin {owner, NoOwner} => owner'.revision > handoffs

LEMMA OwnerKept ==
    SessionsInv /\ [SessionsNext]_vars => OwnerIsLatestOpen' /\ HandoffIsNew
<1> SUFFICES ASSUME SessionsInv, [SessionsNext]_vars
             PROVE  OwnerIsLatestOpen' /\ HandoffIsNew
    OBVIOUS
<1>0. /\ session \in [Peers -> Session] /\ commits \in Nat /\ handoffs \in Nat
      /\ SessionsTypeOK /\ OwnerIsLatestOpen
    BY DEF SessionsInv, SessionsTypeOK
<1>a. ASSUME owner' = owner, session' = session
      PROVE  OwnerIsLatestOpen' /\ HandoffIsNew
    BY <1>0, <1>a, OwnerUndisturbed DEF HandoffIsNew, IsOpen
<1>b. ASSUME owner' = owner,
             \A q \in Peers : /\ IsOpen(q)' <=> IsOpen(q)
                              /\ IsOpen(q) => /\ session'[q].binding = session[q].binding
                                              /\ session'[q].order = session[q].order
      PROVE  OwnerIsLatestOpen' /\ HandoffIsNew
    BY <1>0, <1>b, OwnerUndisturbed DEF HandoffIsNew
<1>1. ASSUME NEW p \in Peers, Connect(p) PROVE OwnerIsLatestOpen' /\ HandoffIsNew
    BY <1>0, <1>1, <1>b DEF Connect, IsOpen
<1>2. ASSUME NEW p \in Peers, JoinOpen(p) PROVE OwnerIsLatestOpen' /\ HandoffIsNew
    BY <1>2, <1>a DEF JoinOpen
<1>3. ASSUME NEW p \in Peers, ReplaceOpen(p) PROVE OwnerIsLatestOpen' /\ HandoffIsNew
    BY <1>3, FenceOwner DEF ReplaceOpen, HandoffIsNew
<1>4. ASSUME NEW p \in Peers, DrainSettles(p) PROVE OwnerIsLatestOpen' /\ HandoffIsNew
    BY <1>0, <1>4, <1>b DEF DrainSettles, IsOpen
<1>5. ASSUME NEW p \in Peers, BeginOpen(p) PROVE OwnerIsLatestOpen' /\ HandoffIsNew
    <2>1. ~IsOpen(p)
        <3>1. CASE AtHead(p, "queued") /\ ~IsOpen(p)
            BY <3>1
        <3>2. CASE AtHead(p, "draining")
            BY <3>2, HeadIsFirst DEF AtHead, SessionsInv, OneRequestAtATime
        <3> QED
            BY <1>5, <3>1, <3>2 DEF BeginOpen, Ready
    <2>2. /\ session'[p].status = "active" /\ owner' = owner
          /\ \A q \in Peers \ {p} : session'[q] = session[q]
        BY <1>0, <1>5 DEF BeginOpen, Session
    <2> QED
        BY <1>b, <2>1, <2>2 DEF IsOpen
<1>6. ASSUME NEW p \in Peers, RefuseOpen(p) PROVE OwnerIsLatestOpen' /\ HandoffIsNew
    BY <1>6, <1>a DEF RefuseOpen
<1>7. ASSUME NEW p \in Peers, StartInitialization(p) PROVE OwnerIsLatestOpen' /\ HandoffIsNew
    BY <1>7, <1>a DEF StartInitialization
<1>8. ASSUME NEW p \in Peers, CommitOpen(p) PROVE OwnerIsLatestOpen' /\ HandoffIsNew
    <2> DEFINE binding == [generation |-> Head(opens[p]).expected, lease |-> Head(opens[p]).lease]
    <2>1. /\ session' = [session EXCEPT ![p] =
               [status |-> "open", generation |-> session[p].generation, binding |-> binding,
                order |-> commits + 1, exposure |-> identity]]
          /\ owner' = [peer |-> p, binding |-> binding, revision |-> handoffs + 1]
          /\ opens[p] # <<>>
        BY <1>8 DEF CommitOpen, Initializing, AtHead
    <2>2. binding # NoBinding
        BY <2>1, HeadIsFirst, SessionsAssumption DEF OpenRequest, Binding
    <2> HIDE DEF binding
    <2>3. /\ session'[p].status = "open" /\ session'[p].binding = binding
          /\ session'[p].order = commits + 1
          /\ \A q \in Peers \ {p} : session'[q] = session[q]
        BY <1>0, <2>1
    <2>4. \A q \in Candidates(session') : session'[q].order <= commits + 1
        <3> SUFFICES ASSUME NEW q \in Candidates(session'), q # p
                     PROVE  session'[q].order <= commits + 1
            BY <1>0, <2>3
        <3>1. q \in Peers /\ session'[q] = session[q] /\ IsOpen(q)
            BY <2>3 DEF Candidates, IsOpen
        <3>2. session[q].order \in 1..commits
            BY <3>1 DEF SessionsInv, BindingCurrent
        <3> QED
            BY <1>0, <3>1, <3>2
    <2>5. owner' # NoOwner /\ owner'.peer = p /\ owner'.binding = binding
        BY <2>1, <2>2 DEF NoOwner
    <2>6. OwnerIsLatestOpen'
        BY <2>3, <2>4, <2>5 DEF OwnerIsLatestOpen, IsOpen, Candidates
    <2>7. HandoffIsNew
        BY <1>0, <2>1 DEF HandoffIsNew
    <2> QED
        BY <2>6, <2>7
<1>9. ASSUME NEW p \in Peers, AbandonOpen(p) PROVE OwnerIsLatestOpen' /\ HandoffIsNew
    BY <1>9, <1>a DEF AbandonOpen
<1>10. ASSUME NEW p \in Peers, SendClose(p) PROVE OwnerIsLatestOpen' /\ HandoffIsNew
    BY <1>10, <1>a DEF SendClose
<1>11. ASSUME NEW p \in Peers, Revoke(p) PROVE OwnerIsLatestOpen' /\ HandoffIsNew
    BY <1>11, FenceOwner DEF Revoke, HandoffIsNew
<1>12. ASSUME NEW p \in Peers, NEW lease, RequestOpen(p, lease)
       PROVE  OwnerIsLatestOpen' /\ HandoffIsNew
    BY <1>12, <1>a DEF RequestOpen
<1>13. ASSUME NEW p \in Peers, NEW binding, SessionClosed(p, binding)
       PROVE  OwnerIsLatestOpen' /\ HandoffIsNew
    BY <1>13, FenceOwner DEF SessionClosed, HandoffIsNew
<1>14. ASSUME NEW ready, RotateIdentity(ready) PROVE OwnerIsLatestOpen' /\ HandoffIsNew
    BY <1>14, <1>a DEF RotateIdentity
<1>15. CASE Reconcile
    BY <1>0, <1>15, <1>b DEF Reconcile, IsOpen, Session
<1>16. CASE ReconcileFails
    BY <1>0, <1>16, <1>b DEF ReconcileFails, IsOpen, Session
<1>17. CASE UNCHANGED vars
    BY <1>17, <1>a DEF vars
<1> QED
    BY <1>1, <1>2, <1>3, <1>4, <1>5, <1>6, <1>7, <1>8, <1>9, <1>10, <1>11, <1>12,
       <1>13, <1>14, <1>15, <1>16, <1>17 DEF SessionsNext, OpenStep

-----------------------------------------------------------------------------
(* What the pages were told *)

(* The leases of a page's requests never decrease: none is older than the last *)
(* one answered, and none is newer than the last one asked for.                *)
Ordered(s, low, high) ==
    /\ low <= high
    /\ \A i \in 1..Len(s) : low <= s[i].lease /\ s[i].lease <= high
    /\ \A i, j \in 1..Len(s) : i <= j => s[i].lease <= s[j].lease

LastTold(p) == IF pages[p].told = NoBinding THEN 0 ELSE pages[p].told.lease
Asked(p) == Ordered(opens[p], LastTold(p), pages[p].asked)

(* A page that was told the session of its last lease has it, also while the *)
(* same request, delivered again, is in the queue.                           *)
Kept(p) ==
    (/\ Registered(p)
     /\ pages[p].told # NoBinding /\ pages[p].told.lease = pages[p].asked
     /\ pages[p].told \notin pages[p].left)
        => IsOpen(p) /\ session[p].binding = pages[p].told

\* Nothing was told to a page before it connected.
Untold(p) == session[p].status = "absent" => pages[p].told = NoBinding

\* A request remembers a generation the peer had, and a lost connection overtook
\* every request: nothing connects the peer again.
Overtaken(p) ==
    \A i \in 1..Len(opens[p]) :
        /\ opens[p][i].expected <= session[p].generation
        /\ session[p].status = "revoked" => opens[p][i].expected < session[p].generation

PagesInv == \A p \in Peers : Asked(p) /\ Kept(p) /\ Untold(p) /\ Overtaken(p)

LEMMA OrderedTail ==
    ASSUME NEW s \in Seq(OpenRequest), s # <<>>, NEW low \in Nat, NEW high \in Nat,
           Ordered(s, low, high)
    PROVE  Ordered(Tail(s), low, high) /\ Ordered(Tail(s), s[1].lease, high)
<1>1. /\ Tail(s) \in Seq(OpenRequest) /\ Len(Tail(s)) = Len(s) - 1 /\ Len(s) \in Nat \ {0}
      /\ \A i \in 1..Len(Tail(s)) : Tail(s)[i] = s[i + 1]
    OBVIOUS
<1>2. \A i \in 1..Len(Tail(s)) : i + 1 \in 1..Len(s)
    BY <1>1
<1>3. 1 \in 1..Len(s) /\ s[1].lease <= high
    BY <1>1 DEF Ordered
<1>4. \A i \in 1..Len(Tail(s)) :
          /\ low <= Tail(s)[i].lease /\ Tail(s)[i].lease <= high
          /\ s[1].lease <= Tail(s)[i].lease
    BY <1>1, <1>2, <1>3 DEF Ordered
<1>5. \A i, j \in 1..Len(Tail(s)) : i <= j => Tail(s)[i].lease <= Tail(s)[j].lease
    <2> SUFFICES ASSUME NEW i \in 1..Len(Tail(s)), NEW j \in 1..Len(Tail(s)), i <= j
                 PROVE  Tail(s)[i].lease <= Tail(s)[j].lease
        OBVIOUS
    <2>1. i + 1 \in 1..Len(s) /\ j + 1 \in 1..Len(s) /\ i + 1 <= j + 1
        BY <1>1
    <2>2. s[i + 1].lease <= s[j + 1].lease
        BY <2>1 DEF Ordered
    <2> QED
        BY <1>1, <2>2
<1> QED
    BY <1>3, <1>4, <1>5 DEF Ordered

LEMMA OrderedAppend ==
    ASSUME NEW s \in Seq(OpenRequest), NEW x \in OpenRequest, NEW low \in Nat, NEW high \in Nat,
           Ordered(s, low, high), x.lease \in {high, high + 1}
    PROVE  Ordered(Append(s, x), low, x.lease)
<1>1. /\ Len(Append(s, x)) = Len(s) + 1 /\ Len(s) \in Nat
      /\ \A i \in 1..Len(s) : Append(s, x)[i] = s[i]
      /\ Append(s, x)[Len(s) + 1] = x
    OBVIOUS
<1>2. \A i \in 1..Len(s) : s[i].lease \in Nat /\ s[i].lease <= high /\ low <= s[i].lease
    <2>1. \A i \in 1..Len(s) : s[i] \in OpenRequest
        OBVIOUS
    <2> QED
        BY <2>1 DEF OpenRequest, Ordered
<1>3. low <= high /\ high <= x.lease /\ x.lease \in Nat
    BY DEF Ordered
<1>4. \A i \in 1..Len(Append(s, x)) :
          low <= Append(s, x)[i].lease /\ Append(s, x)[i].lease <= x.lease
    <2> SUFFICES ASSUME NEW i \in 1..Len(Append(s, x))
                 PROVE  low <= Append(s, x)[i].lease /\ Append(s, x)[i].lease <= x.lease
        OBVIOUS
    <2>1. CASE i \in 1..Len(s)
        BY <1>1, <1>2, <1>3, <2>1
    <2>2. CASE i = Len(s) + 1
        BY <1>1, <1>3, <2>2
    <2> QED
        BY <1>1, <2>1, <2>2
<1>5. \A i, j \in 1..Len(Append(s, x)) : i <= j => Append(s, x)[i].lease <= Append(s, x)[j].lease
    <2> SUFFICES ASSUME NEW i \in 1..Len(Append(s, x)), NEW j \in 1..Len(Append(s, x)), i <= j
                 PROVE  Append(s, x)[i].lease <= Append(s, x)[j].lease
        OBVIOUS
    <2>1. CASE j \in 1..Len(s)
        <3>1. i \in 1..Len(s)
            BY <1>1, <2>1
        <3>2. s[i].lease <= s[j].lease
            BY <2>1, <3>1 DEF Ordered
        <3> QED
            BY <1>1, <2>1, <3>1, <3>2
    <2>2. CASE j = Len(s) + 1
        <3>1. Append(s, x)[j] = x
            BY <1>1, <2>2
        <3> QED
            BY <1>4, <3>1
    <2> QED
        BY <1>1, <2>1, <2>2
<1> QED
    BY <1>3, <1>4, <1>5 DEF Ordered

(* Moving the head on leaves its lease. *)
LEMMA SetHeadAsked ==
    ASSUME SessionsInv, NEW p \in Peers, opens[p] # <<>>,
           NEW stage \in {"queued", "draining", "waiting", "initializing"},
           NEW expected \in Nat, SetHead(p, stage, expected), pages' = pages, PagesInv,
           expected <= session'[p].generation, session[p].generation <= session'[p].generation,
           session'[p].generation \in Nat, session[p].status # "revoked",
           session'[p].status # "revoked"
    PROVE  Asked(p)' /\ Overtaken(p)' /\ \A q \in Peers \ {p} : opens'[q] = opens[q]
<1> DEFINE head == [Head(opens[p]) EXCEPT !.stage = stage, !.expected = expected]
<1>1. opens \in [Peers -> Seq(OpenRequest)] /\ opens[p] \in Seq(OpenRequest)
    BY DEF SessionsInv, SessionsTypeOK
<1>2. Head(opens[p]) \in OpenRequest /\ Head(opens[p]) = opens[p][1]
    BY <1>1
<1>3. head.lease = opens[p][1].lease /\ head \in OpenRequest /\ head.expected = expected
    BY <1>2 DEF OpenRequest
<1>4. opens'[p] = <<head>> \o Tail(opens[p])
    BY <1>1 DEF SetHead
<1> HIDE DEF head
<1>5. /\ Len(opens'[p]) = Len(opens[p])
      /\ opens'[p][1] = head
      /\ \A i \in 1..Len(opens[p]) : i > 1 => opens'[p][i] = opens[p][i]
    BY <1>1, <1>3, <1>4, HeadReplaced
<1>6. \A i \in 1..Len(opens[p]) : opens'[p][i].lease = opens[p][i].lease
    BY <1>1, <1>3, <1>5
<1>7. Asked(p)'
    BY <1>5, <1>6 DEF PagesInv, Asked, Ordered, LastTold
<1>8. Overtaken(p)'
    <2> SUFFICES ASSUME NEW i \in 1..Len(opens'[p])
                 PROVE  opens'[p][i].expected <= session'[p].generation
        BY DEF Overtaken
    <2>1. CASE i = 1
        BY <1>3, <1>5, <2>1
    <2>2. CASE i > 1
        <3>1. opens'[p][i] = opens[p][i] /\ i \in 1..Len(opens[p])
            BY <1>5, <2>2
        <3>2. opens[p][i] \in OpenRequest /\ opens[p][i].expected <= session[p].generation
            BY <1>1, <3>1 DEF PagesInv, Overtaken
        <3>3. opens[p][i].expected \in Nat /\ session[p].generation \in Nat
            BY <3>2 DEF OpenRequest, SessionsInv, SessionsTypeOK, Session
        <3> QED
            BY <3>1, <3>2, <3>3
    <2> QED
        BY <2>1, <2>2
<1> QED
    BY <1>1, <1>7, <1>8 DEF SetHead

(* An answer leaves requests that were overtaken, if they were. *)
LEMMA AnswerOvertaken ==
    ASSUME SessionsInv, PagesInv, NEW p \in Peers, opens[p] # <<>>, Answer(p),
           session'[p].generation = session[p].generation,
           session'[p].status = "revoked" => session[p].status = "revoked"
    PROVE  Overtaken(p)'
<1>1. opens \in [Peers -> Seq(OpenRequest)] /\ opens[p] \in Seq(OpenRequest)
    BY DEF SessionsInv, SessionsTypeOK
<1>2. opens'[p] = Tail(opens[p])
    BY <1>1 DEF Answer
<1>3. \A i \in 1..Len(opens'[p]) : opens'[p][i] = opens[p][i + 1] /\ i + 1 \in 1..Len(opens[p])
    BY <1>1, <1>2
<1> QED
    BY <1>3 DEF PagesInv, Overtaken

(* An answer that tells the page nothing. *)
LEMMA AnswerAsked ==
    ASSUME SessionsInv, PagesInv, NEW p \in Peers, opens[p] # <<>>, Answer(p), pages' = pages
    PROVE  Asked(p)'
<1>1. opens \in [Peers -> Seq(OpenRequest)] /\ opens[p] \in Seq(OpenRequest)
    BY DEF SessionsInv, SessionsTypeOK
<1>2. opens'[p] = Tail(opens[p])
    BY <1>1 DEF Answer
<1>3. LastTold(p) \in Nat /\ pages[p].asked \in Nat
    BY DEF LastTold, SessionsInv, SessionsTypeOK, Page, OptionalBinding, Binding
<1>4. Ordered(Tail(opens[p]), LastTold(p), pages[p].asked)
    BY <1>1, <1>3, OrderedTail DEF PagesInv, Asked
<1> QED
    BY <1>2, <1>4 DEF Asked, LastTold

(* An answer that gives the page a session of the lease of its request. *)
LEMMA AnswerTold ==
    ASSUME SessionsInv, NEW p \in Peers, opens[p] # <<>>, Answer(p), Asked(p),
           NEW binding \in Binding, binding.lease = Head(opens[p]).lease,
           pages' = [pages EXCEPT ![p].told = binding],
           IsOpen(p)', session'[p].binding = binding
    PROVE  /\ Asked(p)' /\ Kept(p)'
           /\ \A q \in Peers \ {p} : pages'[q] = pages[q] /\ opens'[q] = opens[q]
<1>1. /\ opens \in [Peers -> Seq(OpenRequest)] /\ opens[p] \in Seq(OpenRequest)
      /\ pages \in [Peers -> Page]
    BY DEF SessionsInv, SessionsTypeOK
<1>2. opens'[p] = Tail(opens[p]) /\ \A q \in Peers \ {p} : opens'[q] = opens[q]
    BY <1>1 DEF Answer
<1>3. /\ pages'[p].told = binding /\ pages'[p].asked = pages[p].asked
      /\ \A q \in Peers \ {p} : pages'[q] = pages[q]
    BY <1>1 DEF Page
<1>4. LastTold(p) \in Nat /\ pages[p].asked \in Nat
    BY <1>1 DEF LastTold, Page, OptionalBinding, Binding
<1>5. Ordered(Tail(opens[p]), opens[p][1].lease, pages[p].asked)
    BY <1>1, <1>4, OrderedTail DEF Asked
<1>6. binding # NoBinding /\ binding.lease = opens[p][1].lease
    BY <1>1, SessionsAssumption
<1>7. LastTold(p)' = opens[p][1].lease
    BY <1>3, <1>6 DEF LastTold
<1> QED
    BY <1>2, <1>3, <1>5, <1>7 DEF Asked, Kept

(* A page that no step touched. *)
LEMMA PageUndisturbed ==
    ASSUME PagesInv, NEW p \in Peers, opens'[p] = opens[p], pages'[p] = pages[p],
           session'[p].status = session[p].status, session'[p].binding = session[p].binding,
           session'[p].generation = session[p].generation
    PROVE  Asked(p)' /\ Kept(p)' /\ Untold(p)' /\ Overtaken(p)'
    BY DEF PagesInv, Asked, Kept, Untold, Overtaken, LastTold, Registered, IsOpen

(* A page whose session is not open has none to keep, as long as it is not *)
(* connected anew, and a page that connects was told of none.              *)
LEMMA ClosedKept ==
    ASSUME PagesInv, NEW p \in Peers, pages'[p] = pages[p],
           ~IsOpen(p), session'[p].status # "absent",
           session[p].status = "revoked" => session'[p].status = "revoked"
    PROVE  Kept(p)' /\ Untold(p)'
    BY DEF PagesInv, Kept, Untold, Registered

LEMMA FenceMoves ==
    ASSUME SessionsInv, NEW p \in Peers, NEW status \in {"closing", "revoked"},
           Fence(p, status)
    PROVE  /\ session[p].generation \in Nat
           /\ session'[p].generation = session[p].generation + 1
           /\ session'[p].status = status
           /\ \A q \in Peers \ {p} : session'[q] = session[q]
<1>1. SessionsTypeOK
    BY DEF SessionsInv
<1>2. /\ session'[p] = [status |-> status, generation |-> session[p].generation + 1,
                        binding |-> NoBinding, order |-> 0, exposure |-> 0]
      /\ \A q \in Peers \ {p} : session'[q] = session[q]
    BY <1>1, FenceFacts, Zenon
<1>3. session[p].generation \in Nat
    BY <1>1 DEF SessionsTypeOK, Session
<1> QED
    BY <1>2, <1>3

(* A fence of the session of one page. *)
LEMMA FencePages ==
    ASSUME SessionsInv, PagesInv, NEW p \in Peers, NEW status \in {"closing", "revoked"},
           Fence(p, status), pages' = pages, Asked(p)', Overtaken(p)',
           \A q \in Peers \ {p} : opens'[q] = opens[q],
           \/ status = "revoked"
           \/ pages[p].told # NoBinding =>
                \/ pages[p].told.lease # pages[p].asked
                \/ pages[p].told \in pages[p].left
    PROVE  PagesInv'
<1>1. /\ session'[p].status = status
      /\ \A q \in Peers \ {p} : session'[q] = session[q]
    BY FenceMoves
<1>2. Kept(p)' /\ Untold(p)'
    BY <1>1 DEF Kept, Untold, Registered
<1>3. \A q \in Peers \ {p} : Asked(q)' /\ Kept(q)' /\ Untold(q)' /\ Overtaken(q)'
    BY <1>1, PageUndisturbed
<1> QED
    BY <1>2, <1>3 DEF PagesInv

(* A fence overtakes every request of the page. *)
LEMMA FenceOvertakes ==
    ASSUME SessionsInv, PagesInv, NEW p \in Peers, NEW status \in {"closing", "revoked"},
           Fence(p, status), opens' = opens, pages' = pages
    PROVE  Asked(p)' /\ Overtaken(p)'
<1>1. session'[p].generation = session[p].generation + 1 /\ session[p].generation \in Nat
    BY FenceMoves
<1>2. \A i \in 1..Len(opens[p]) : opens[p][i].expected \in Nat
    <2>1. opens[p] \in Seq(OpenRequest)
        BY DEF SessionsInv, SessionsTypeOK
    <2>2. \A i \in 1..Len(opens[p]) : opens[p][i] \in OpenRequest
        BY <2>1
    <2> QED
        BY <2>2 DEF OpenRequest
<1>3. Asked(p)'
    BY DEF PagesInv, Asked, LastTold
<1>4. Overtaken(p)'
    BY <1>1, <1>2 DEF PagesInv, Overtaken
<1> QED
    BY <1>3, <1>4

LEMMA PagesKept ==
    SessionsInv /\ PagesInv /\ [SessionsNext]_vars => PagesInv'
<1> SUFFICES ASSUME SessionsInv, PagesInv, [SessionsNext]_vars
             PROVE  PagesInv'
    OBVIOUS
<1>0. /\ session \in [Peers -> Session] /\ pages \in [Peers -> Page]
      /\ opens \in [Peers -> Seq(OpenRequest)]
      /\ \A p \in Peers : session[p].generation \in Nat /\ pages[p].asked \in Nat
      /\ \A p \in Peers : IsOpen(p) => session[p].binding \in Binding
    BY DEF SessionsInv, SessionsTypeOK, Session, Page, BindingCurrent, OptionalBinding
<1>a. ASSUME pages' = pages, opens' = opens,
             \A q \in Peers : /\ session'[q].status = session[q].status
                              /\ session'[q].binding = session[q].binding
                              /\ session'[q].generation = session[q].generation
      PROVE  PagesInv'
    BY <1>a, PageUndisturbed DEF PagesInv
<1>b. ASSUME NEW p \in Peers, Asked(p)', Kept(p)', Untold(p)', Overtaken(p)',
             \A q \in Peers \ {p} : /\ pages'[q] = pages[q] /\ opens'[q] = opens[q]
                                    /\ session'[q].status = session[q].status
                                    /\ session'[q].binding = session[q].binding
                              /\ session'[q].generation = session[q].generation
      PROVE  PagesInv'
    BY <1>b, PageUndisturbed DEF PagesInv
<1>c. ASSUME NEW p \in Peers, opens[p] # <<>>, Answer(p), pages' = pages, session' = session
      PROVE  PagesInv'
    <2>1. Asked(p)'
        BY <1>c, AnswerAsked DEF PagesInv
    <2>2. Kept(p)' /\ Untold(p)'
        BY <1>c DEF PagesInv, Kept, Untold, Registered, IsOpen
    <2>3. \A q \in Peers \ {p} : opens'[q] = opens[q]
        BY <1>0, <1>c DEF Answer
    <2>4. Overtaken(p)'
        BY <1>c, AnswerOvertaken
    <2> QED
        BY <1>b, <1>c, <2>1, <2>2, <2>3, <2>4
<1>d. ASSUME NEW p \in Peers, pages' = pages, opens' = opens, ~IsOpen(p),
             session'[p].status = "active", session[p].status # "revoked",
             session'[p].generation = session[p].generation,
             \A q \in Peers \ {p} : session'[q] = session[q]
      PROVE  PagesInv'
    <2>1. Asked(p)'
        BY <1>d DEF PagesInv, Asked, LastTold
    <2>2. Kept(p)' /\ Untold(p)'
        BY <1>d, ClosedKept
    <2>3. Overtaken(p)'
        BY <1>d DEF PagesInv, Overtaken
    <2> QED
        BY <1>b, <1>d, <2>1, <2>2, <2>3
<1>1. ASSUME NEW p \in Peers, Connect(p) PROVE PagesInv'
    BY <1>0, <1>1, <1>d DEF Connect, IsOpen, Session
<1>2. ASSUME NEW p \in Peers, JoinOpen(p) PROVE PagesInv'
    <2>1. /\ opens[p] # <<>> /\ Answer(p) /\ IsOpen(p)' /\ session' = session
          /\ session[p].binding \in Binding
          /\ session[p].binding.lease = Head(opens[p]).lease
          /\ pages' = [pages EXCEPT ![p].told = session[p].binding]
        BY <1>0, <1>2 DEF JoinOpen, AtHead, IsOpen
    <2>2. /\ Asked(p)' /\ Kept(p)'
          /\ \A q \in Peers \ {p} : pages'[q] = pages[q] /\ opens'[q] = opens[q]
        BY <2>1, AnswerTold DEF PagesInv
    <2>3. Untold(p)'
        BY <2>1 DEF Untold, IsOpen
    <2>4. Overtaken(p)'
        BY <2>1, AnswerOvertaken
    <2> QED
        BY <1>b, <2>1, <2>2, <2>3, <2>4
<1>3. ASSUME NEW p \in Peers, ReplaceOpen(p) PROVE PagesInv'
    <2>1. /\ opens[p] # <<>> /\ Fence(p, "closing") /\ pages' = pages
          /\ SetHead(p, "draining", session[p].generation + 1)
          /\ session[p].generation + 1 \in Nat
          /\ IsOpen(p) /\ session[p].binding.lease # Head(opens[p]).lease
        BY <1>0, <1>3 DEF ReplaceOpen, AtHead
    <2>2. /\ session'[p].generation = session[p].generation + 1 /\ session'[p].status = "closing"
          /\ session[p].status = "open" /\ session[p].generation \in Nat
        BY <2>1, FenceMoves DEF IsOpen
    <2>3. Asked(p)' /\ Overtaken(p)' /\ \A q \in Peers \ {p} : opens'[q] = opens[q]
        BY <2>1, <2>2, SetHeadAsked
    <2>4. /\ LastTold(p) <= Head(opens[p]).lease /\ Head(opens[p]).lease <= pages[p].asked
          /\ Head(opens[p]).lease \in Nat
        BY <1>0, <2>1, HeadIsFirst DEF PagesInv, Asked, Ordered, OpenRequest
    <2>5. pages[p].told # NoBinding =>
            \/ pages[p].told.lease # pages[p].asked
            \/ pages[p].told \in pages[p].left
        <3> SUFFICES ASSUME pages[p].told # NoBinding, pages[p].told.lease = pages[p].asked,
                            pages[p].told \notin pages[p].left
                     PROVE  FALSE
            OBVIOUS
        <3>1. session[p].binding = pages[p].told
            BY <2>1 DEF PagesInv, Kept, IsOpen, Registered
        <3>2. Head(opens[p]).lease = pages[p].asked
            BY <1>0, <2>4 DEF LastTold
        <3> QED
            BY <2>1, <3>1, <3>2
    <2> QED
        BY <2>1, <2>3, <2>5, FencePages
<1>4. ASSUME NEW p \in Peers, DrainSettles(p) PROVE PagesInv'
    BY <1>0, <1>4, <1>d DEF DrainSettles, IsOpen, Session
<1>5. ASSUME NEW p \in Peers, BeginOpen(p) PROVE PagesInv'
    <2>1. ~IsOpen(p)
        <3>1. CASE AtHead(p, "queued") /\ ~IsOpen(p)
            BY <3>1
        <3>2. CASE AtHead(p, "draining")
            BY <3>2, HeadIsFirst DEF AtHead, SessionsInv, OneRequestAtATime
        <3> QED
            BY <1>5, <3>1, <3>2 DEF BeginOpen, Ready
    <2>2. /\ opens[p] # <<>> /\ session[p].generation = Head(opens[p]).expected
          /\ SetHead(p, "waiting", session[p].generation + 1) /\ pages' = pages
          /\ session'[p].status = "active" /\ session'[p].generation = session[p].generation + 1
          /\ session[p].generation \in Nat /\ session'[p].generation \in Nat
          /\ \A q \in Peers \ {p} : session'[q] = session[q]
        BY <1>0, <1>5 DEF BeginOpen, Ready, AtHead, Session
    <2>3. session[p].status # "revoked"
        <3>1. 1 \in 1..Len(opens[p]) /\ opens[p][1] = Head(opens[p])
            BY <1>0, <2>2
        <3> QED
            BY <2>2, <3>1 DEF PagesInv, Overtaken
    <2>4. Asked(p)' /\ Overtaken(p)' /\ \A q \in Peers \ {p} : opens'[q] = opens[q]
        BY <2>2, <2>3, SetHeadAsked
    <2>5. Kept(p)' /\ Untold(p)'
        BY <2>1, <2>2, <2>3, ClosedKept
    <2> QED
        BY <1>b, <2>2, <2>4, <2>5
<1>6. ASSUME NEW p \in Peers, RefuseOpen(p) PROVE PagesInv'
    BY <1>6, <1>c DEF RefuseOpen, Ready, AtHead
<1>7. ASSUME NEW p \in Peers, StartInitialization(p) PROVE PagesInv'
    <2>1. /\ opens[p] # <<>> /\ Head(opens[p]).expected = session[p].generation
          /\ SetHead(p, "initializing", session[p].generation)
          /\ pages' = pages /\ session' = session
          /\ session[p].generation \in Nat /\ session[p].status # "revoked"
        BY <1>0, <1>7 DEF StartInitialization, Initializing, AtHead, Fresh, Registered
    <2>2. Asked(p)' /\ Overtaken(p)' /\ \A q \in Peers \ {p} : opens'[q] = opens[q]
        BY <2>1, SetHeadAsked
    <2>3. Kept(p)' /\ Untold(p)'
        BY <2>1 DEF PagesInv, Kept, Untold, Registered, IsOpen
    <2> QED
        BY <1>b, <2>1, <2>2, <2>3
<1>8. ASSUME NEW p \in Peers, CommitOpen(p) PROVE PagesInv'
    <2> DEFINE binding == [generation |-> Head(opens[p]).expected, lease |-> Head(opens[p]).lease]
    <2>1. /\ session' = [session EXCEPT ![p] =
               [status |-> "open", generation |-> session[p].generation, binding |-> binding,
                order |-> commits + 1, exposure |-> identity]]
          /\ pages' = [pages EXCEPT ![p].told = binding]
          /\ opens[p] # <<>> /\ Answer(p)
        BY <1>8 DEF CommitOpen, Initializing, AtHead
    <2>2. binding \in Binding /\ binding.lease = Head(opens[p]).lease
        BY <2>1, HeadIsFirst DEF OpenRequest, Binding
    <2> HIDE DEF binding
    <2>3. /\ session'[p].status = "open" /\ session'[p].binding = binding
          /\ session'[p].generation = session[p].generation
          /\ \A q \in Peers \ {p} : session'[q] = session[q]
        BY <1>0, <2>1
    <2>4. /\ Asked(p)' /\ Kept(p)'
          /\ \A q \in Peers \ {p} : pages'[q] = pages[q] /\ opens'[q] = opens[q]
        BY <2>1, <2>2, <2>3, AnswerTold DEF PagesInv, IsOpen
    <2>5. Untold(p)' /\ Overtaken(p)'
        BY <2>1, <2>3, AnswerOvertaken DEF Untold
    <2> QED
        BY <1>b, <2>3, <2>4, <2>5
<1>9. ASSUME NEW p \in Peers, AbandonOpen(p) PROVE PagesInv'
    BY <1>9, <1>c DEF AbandonOpen, Initializing, AtHead
<1>10. ASSUME NEW p \in Peers, SendClose(p) PROVE PagesInv'
    <2>1. /\ pages' = [pages EXCEPT ![p].left = pages[p].left \cup {pages[p].told}]
          /\ session' = session /\ opens' = opens
        BY <1>10 DEF SendClose
    <2>2. /\ pages'[p].told = pages[p].told /\ pages'[p].asked = pages[p].asked
          /\ pages[p].left \subseteq pages'[p].left
          /\ \A q \in Peers \ {p} : pages'[q] = pages[q]
        BY <1>0, <2>1 DEF Page
    <2>3. Asked(p)' /\ Kept(p)' /\ Untold(p)' /\ Overtaken(p)'
        BY <2>1, <2>2 DEF PagesInv, Asked, LastTold, Kept, Untold, Overtaken, Registered, IsOpen
    <2> QED
        BY <1>b, <2>1, <2>2, <2>3
<1>11. ASSUME NEW p \in Peers, Revoke(p) PROVE PagesInv'
    <2>1. Fence(p, "revoked") /\ opens' = opens /\ pages' = pages
        BY <1>11 DEF Revoke
    <2> QED
        BY <2>1, FenceOvertakes, FencePages
<1>12. ASSUME NEW p \in Peers, NEW lease \in {pages[p].asked, pages[p].asked + 1},
              RequestOpen(p, lease)
       PROVE  PagesInv'
    <2> DEFINE request == [lease |-> lease, stage |-> "queued", expected |-> session[p].generation]
    <2>1. /\ opens' = [opens EXCEPT ![p] = Append(opens[p], request)] /\ session' = session
          /\ pages' = [pages EXCEPT ![p].asked = lease, ![p].requests = pages[p].requests + 1]
          /\ Registered(p)
        BY <1>12 DEF RequestOpen
    <2>2. request \in OpenRequest /\ request.lease = lease
        BY <1>0, <1>12 DEF OpenRequest
    <2>3. request.expected = session[p].generation
        OBVIOUS
    <2> HIDE DEF request
    <2>4. /\ opens'[p] = Append(opens[p], request)
          /\ \A q \in Peers \ {p} : opens'[q] = opens[q]
        BY <1>0, <2>1
    <2>5. /\ pages'[p].told = pages[p].told /\ pages'[p].asked = lease
          /\ pages'[p].left = pages[p].left
          /\ \A q \in Peers \ {p} : pages'[q] = pages[q]
        <3> DEFINE asking == [pages[p] EXCEPT !.asked = lease]
                   next == [asking EXCEPT !.requests = pages[p].requests + 1]
        <3>1. asking.told = pages[p].told /\ asking.asked = lease /\ asking.left = pages[p].left
            BY <1>0 DEF Page
        <3>2. pages' = [pages EXCEPT ![p] = next]
            BY <1>0, <2>1
        <3> QED
            BY <1>0, <2>1 DEF Page
    <2>6. LastTold(p) \in Nat /\ LastTold(p)' = LastTold(p)
        BY <1>0, <2>5 DEF LastTold, Page, OptionalBinding, Binding
    <2>7. Asked(p)'
        <3>1. Ordered(Append(opens[p], request), LastTold(p), lease)
            BY <1>0, <1>12, <2>2, <2>6, OrderedAppend DEF PagesInv, Asked
        <3> QED
            BY <2>4, <2>5, <2>6, <3>1 DEF Asked
    <2>8. Overtaken(p)'
        <3>1. session[p].status # "revoked" /\ session[p].generation \in Nat
            BY <1>0, <2>1 DEF Registered
        <3>2. /\ Len(opens'[p]) = Len(opens[p]) + 1 /\ Len(opens[p]) \in Nat
              /\ \A i \in 1..Len(opens[p]) : opens'[p][i] = opens[p][i]
              /\ opens'[p][Len(opens[p]) + 1] = request
            BY <1>0, <2>2, <2>4
        <3> QED
            BY <2>1, <2>3, <3>1, <3>2 DEF PagesInv, Overtaken
    <2>9. Kept(p)' /\ Untold(p)'
        <3>1. pages[p].told # NoBinding /\ pages[p].told.lease = lease
                => pages[p].told.lease = pages[p].asked
            <4>1. LastTold(p) <= pages[p].asked
                BY DEF PagesInv, Asked, Ordered
            <4> QED
                BY <1>0, <1>12, <2>6, <4>1 DEF LastTold
        <3> QED
            BY <2>1, <2>5, <3>1 DEF PagesInv, Kept, Untold, Registered, IsOpen
    <2> QED
        BY <1>b, <2>1, <2>4, <2>5, <2>7, <2>8, <2>9
<1>13. ASSUME NEW p \in Peers, NEW binding \in pages[p].left, SessionClosed(p, binding)
       PROVE  PagesInv'
    <2>1. /\ Fence(p, "closing") /\ opens' = opens /\ pages' = pages /\ Registered(p)
          /\ session[p].binding = binding
        BY <1>13 DEF SessionClosed, CloseMatches
    <2>2. pages[p].told # NoBinding =>
            \/ pages[p].told.lease # pages[p].asked
            \/ pages[p].told \in pages[p].left
        BY <1>13, <2>1 DEF PagesInv, Kept
    <2> QED
        BY <2>1, <2>2, FenceOvertakes, FencePages
<1>14. ASSUME NEW ready, RotateIdentity(ready) PROVE PagesInv'
    BY <1>14, <1>a DEF RotateIdentity
<1>15. CASE Reconcile
    BY <1>0, <1>15, <1>a DEF Reconcile, Session
<1>16. CASE ReconcileFails
    BY <1>0, <1>16, <1>a DEF ReconcileFails, Session
<1>17. CASE UNCHANGED vars
    BY <1>17, <1>a DEF vars
<1> QED
    BY <1>1, <1>2, <1>3, <1>4, <1>5, <1>6, <1>7, <1>8, <1>9, <1>10, <1>11, <1>12,
       <1>13, <1>14, <1>15, <1>16, <1>17 DEF SessionsNext, OpenStep

-----------------------------------------------------------------------------
(* The exposed services *)

(* What ExposureCurrent says of one page. *)
ExposedRightly(p) ==
    /\ session[p].exposure # 0 => IsOpen(p)
    /\ ~stale => session[p].exposure = IF IsOpen(p) THEN identity ELSE 0

LEMMA ExposureKept ==
    SessionsInv /\ ExposureCurrent /\ [SessionsNext]_vars => ExposureCurrent'
<1> SUFFICES ASSUME SessionsInv, ExposureCurrent, [SessionsNext]_vars
             PROVE  ExposureCurrent'
    OBVIOUS
<1>0. /\ session \in [Peers -> Session]
      /\ \A p \in Peers : ExposedRightly(p)
    BY DEF SessionsInv, SessionsTypeOK, ExposureCurrent, ExposedRightly
<1>a. ASSUME UNCHANGED services,
             \A q \in Peers : ExposedRightly(q)' \/ /\ session'[q].status = session[q].status
                                                    /\ session'[q].exposure = session[q].exposure
      PROVE  ExposureCurrent'
    <2>1. \A q \in Peers : ExposedRightly(q)'
        BY <1>0, <1>a DEF services, ExposedRightly, IsOpen
    <2> QED
        BY <2>1 DEF ExposureCurrent, ExposedRightly
<1>b. ASSUME NEW p \in Peers, ~IsOpen(p), UNCHANGED services,
             session'[p].status = "active", session'[p].exposure = session[p].exposure,
             \A q \in Peers \ {p} : session'[q] = session[q]
      PROVE  ExposureCurrent'
    <2>1. ExposedRightly(p)'
        BY <1>0, <1>b DEF ExposedRightly, IsOpen, services
    <2> QED
        BY <1>a, <1>b, <2>1
<1>c. ASSUME NEW p \in Peers, NEW status \in {"closing", "revoked"}, Fence(p, status),
             UNCHANGED services
      PROVE  ExposureCurrent'
    <2>1. SessionsTypeOK
        BY DEF SessionsInv
    <2>2. /\ session'[p] = [status |-> status, generation |-> session[p].generation + 1,
                            binding |-> NoBinding, order |-> 0, exposure |-> 0]
          /\ \A q \in Peers \ {p} : session'[q] = session[q]
        BY <1>c, <2>1, FenceFacts, Zenon
    <2>3. session'[p].status # "open" /\ session'[p].exposure = 0
        BY <2>2
    <2>4. ExposedRightly(p)'
        BY <2>3 DEF ExposedRightly, IsOpen
    <2> QED
        BY <1>a, <1>c, <2>2, <2>4
<1>d. ASSUME session' = session, UNCHANGED services PROVE ExposureCurrent'
    BY <1>a, <1>d
<1>1. ASSUME NEW p \in Peers, Connect(p) PROVE ExposureCurrent'
    BY <1>0, <1>1, <1>b DEF Connect, IsOpen, Session
<1>2. ASSUME NEW p \in Peers, ReplaceOpen(p) PROVE ExposureCurrent'
    BY <1>2, <1>c DEF ReplaceOpen
<1>3. ASSUME NEW p \in Peers, DrainSettles(p) PROVE ExposureCurrent'
    BY <1>0, <1>3, <1>b DEF DrainSettles, IsOpen, Session
<1>4. ASSUME NEW p \in Peers, BeginOpen(p) PROVE ExposureCurrent'
    <2>1. ~IsOpen(p)
        <3>1. CASE AtHead(p, "queued") /\ ~IsOpen(p)
            BY <3>1
        <3>2. CASE AtHead(p, "draining")
            BY <3>2, HeadIsFirst DEF AtHead, SessionsInv, OneRequestAtATime
        <3> QED
            BY <1>4, <3>1, <3>2 DEF BeginOpen, Ready
    <2>2. /\ session'[p].status = "active" /\ session'[p].exposure = session[p].exposure
          /\ \A q \in Peers \ {p} : session'[q] = session[q]
        BY <1>0, <1>4 DEF BeginOpen, Session
    <2> QED
        BY <1>4, <1>b, <2>1, <2>2 DEF BeginOpen
<1>5. ASSUME NEW p \in Peers, CommitOpen(p) PROVE ExposureCurrent'
    <2> DEFINE binding == [generation |-> Head(opens[p]).expected, lease |-> Head(opens[p]).lease]
    <2>1. /\ session' = [session EXCEPT ![p] =
               [status |-> "open", generation |-> session[p].generation, binding |-> binding,
                order |-> commits + 1, exposure |-> identity]]
          /\ UNCHANGED services
        BY <1>5 DEF CommitOpen
    <2> HIDE DEF binding
    <2>2. /\ session'[p].status = "open" /\ session'[p].exposure = identity
          /\ \A q \in Peers \ {p} : session'[q] = session[q]
        BY <1>0, <2>1
    <2>3. ExposedRightly(p)'
        BY <2>1, <2>2 DEF ExposedRightly, IsOpen, services
    <2> QED
        BY <1>a, <2>1, <2>2, <2>3
<1>6. ASSUME NEW p \in Peers, JoinOpen(p) \/ RefuseOpen(p) \/ StartInitialization(p)
                              \/ AbandonOpen(p) \/ SendClose(p)
      PROVE  ExposureCurrent'
    BY <1>6, <1>d DEF JoinOpen, RefuseOpen, StartInitialization, AbandonOpen, SendClose
<1>7. ASSUME NEW p \in Peers, Revoke(p) PROVE ExposureCurrent'
    BY <1>7, <1>c DEF Revoke
<1>8. ASSUME NEW p \in Peers, NEW lease, RequestOpen(p, lease) PROVE ExposureCurrent'
    BY <1>8, <1>d DEF RequestOpen
<1>9. ASSUME NEW p \in Peers, NEW binding, SessionClosed(p, binding) PROVE ExposureCurrent'
    BY <1>9, <1>c DEF SessionClosed
<1>10. ASSUME NEW ready, RotateIdentity(ready) PROVE ExposureCurrent'
    BY <1>10 DEF RotateIdentity, ExposureCurrent, IsOpen
<1>11. CASE Reconcile
    <2>1. identity' = identity /\ \A q \in Peers : /\ session'[q].status = session[q].status
                          /\ session'[q].exposure = IF IsOpen(q) THEN identity ELSE 0
        BY <1>0, <1>11 DEF Reconcile, Session, Exposed
    <2> QED
        BY <2>1 DEF ExposureCurrent, IsOpen
<1>12. CASE ReconcileFails
    <2>1. PICK p \in Peers, before \in SUBSET Peers :
            session' = [q \in Peers |-> [session[q] EXCEPT !.exposure =
                          IF q \in before THEN Exposed(q)
                          ELSE IF q = p THEN 0 ELSE session[q].exposure]]
        BY <1>12 DEF ReconcileFails
    <2>2. \A q \in Peers : /\ session'[q].status = session[q].status
                           /\ session'[q].exposure \in {Exposed(q), 0, session[q].exposure}
        BY <1>0, <2>1 DEF Session
    <2>3. stale' = TRUE
        BY <1>12 DEF ReconcileFails
    <2> QED
        BY <2>2, <2>3 DEF ExposureCurrent, Exposed, IsOpen
<1>13. CASE UNCHANGED vars
    BY <1>13, <1>d DEF vars, services
<1> QED
    BY <1>1, <1>2, <1>3, <1>4, <1>5, <1>6, <1>7, <1>8, <1>9, <1>10, <1>11, <1>12, <1>13
       DEF SessionsNext, OpenStep

-----------------------------------------------------------------------------
LEMMA SessionsStart == SessionsInit => SessionsInv
<1> SUFFICES ASSUME SessionsInit
             PROVE  SessionsInv
    OBVIOUS
<1> DEFINE none == [status |-> "absent", generation |-> 0, binding |-> NoBinding,
                    order |-> 0, exposure |-> 0]
           fresh == [asked |-> 0, told |-> NoBinding, left |-> {}, requests |-> 0]
<1>1. SessionsTypeOK
    <2>1. none \in Session /\ NoBinding \in OptionalBinding
        BY DEF Session, OptionalBinding
    <2>2. session \in [Peers -> Session]
        BY <2>1 DEF SessionsInit
    <2>3. fresh \in Page
        BY <2>1 DEF Page
    <2>4. pages \in [Peers -> Page]
        BY <2>3 DEF SessionsInit
    <2>5. opens \in [Peers -> Seq(OpenRequest)]
        BY DEF SessionsInit
    <2>6. initTail \in Seq(Peers)
        BY DEF SessionsInit
    <2>7. identity \in 0..MaxIdentity /\ rotations \in 0..MaxIdentity
        BY SessionsAssumption DEF SessionsInit
    <2> HIDE DEF none, fresh
    <2> QED
        BY <2>1, <2>2, <2>4, <2>5, <2>6, <2>7 DEF SessionsInit, SessionsTypeOK, NoOwner
<1>2. BindingCurrent /\ OneRequestAtATime
    BY DEF SessionsInit, BindingCurrent, OneRequestAtATime, IsOpen
<1>3. OwnerIsLatestOpen
    BY DEF SessionsInit, OwnerIsLatestOpen, Candidates
<1> QED
    BY <1>1, <1>2, <1>3 DEF SessionsInv

LEMMA SessionsInvariant == SessionsSpec => []SessionsInv
<1>1. SessionsInv /\ [SessionsNext]_vars => SessionsInv'
    BY TypesKept, CurrentKept, QueuesKept, OwnerKept DEF SessionsInv
<1> QED
    BY <1>1, SessionsStart, PTL DEF SessionsSpec

(* The variables keep their types, however many pages come and go. *)
THEOREM SessionsTyped == SessionsSpec => []SessionsTypeOK
<1>1. SessionsInv => SessionsTypeOK
    BY DEF SessionsInv
<1> QED
    BY <1>1, SessionsInvariant, PTL

(* openCoordinatorSession: an open that a close, a newer open or a lost       *)
(* connection overtook never commits a session.                               *)
THEOREM CommittedSessionsAreCurrent == SessionsSpec => []BindingCurrent
<1>1. SessionsInv => BindingCurrent
    BY DEF SessionsInv
<1> QED
    BY <1>1, SessionsInvariant, PTL

(* selectCoordinatorStorageIoOwner: with any number of pages, physical storage *)
(* I/O belongs to the open session that committed last.                        *)
THEOREM LatestSessionOwnsStorage == SessionsSpec => []OwnerIsLatestOpen
<1>1. SessionsInv => OwnerIsLatestOpen
    BY DEF SessionsInv
<1> QED
    BY <1>1, SessionsInvariant, PTL

(* coordinatorStorageIoHandoffRevision: no hand-over reuses a revision.        *)
THEOREM HandoffsAreNew == SessionsSpec => HandoffAdvances
<1>1. SessionsInv /\ [SessionsNext]_vars => HandoffIsNew
    BY OwnerKept
<1>2. HandoffIsNew => (owner' \notin {owner, NoOwner} => owner'.revision > handoffs)
    BY DEF HandoffIsNew
<1>3. SessionsInv /\ [SessionsNext]_vars
        => [owner' \notin {owner, NoOwner} => owner'.revision > handoffs]_vars
    BY <1>1, <1>2
<1> QED
    BY <1>3, SessionsInvariant, PTL DEF SessionsSpec, HandoffAdvances

LEMMA PagesStart == SessionsInit => PagesInv /\ ExposureCurrent
<1> SUFFICES ASSUME SessionsInit
             PROVE  PagesInv /\ ExposureCurrent
    OBVIOUS
<1>1. \A p \in Peers : /\ opens[p] = <<>> /\ pages[p].told = NoBinding /\ pages[p].asked = 0
                       /\ session[p].exposure = 0 /\ session[p].status = "absent"
    BY DEF SessionsInit
<1>2. \A p \in Peers : LastTold(p) = 0 /\ Len(opens[p]) = 0
    BY <1>1 DEF LastTold
<1>3. PagesInv
    BY <1>1, <1>2 DEF PagesInv, Asked, Ordered, Kept, Untold, Overtaken
<1>4. ExposureCurrent
    BY <1>1 DEF SessionsInit, ExposureCurrent, IsOpen
<1> QED
    BY <1>3, <1>4

(* coordinatorSessionOpen and coordinatorSessionClosed: a connected page that  *)
(* was told the session of its newest lease and did not close it has exactly   *)
(* this session, whatever late closes, repeated requests and overtaken opens   *)
(* arrive. The lease order of the queue and the generations carry the proof.   *)
THEOREM ToldSessionsAreKept == SessionsSpec => []SessionKept
<1>1. SessionsInv /\ PagesInv /\ [SessionsNext]_vars => PagesInv'
    BY PagesKept
<1>2. PagesInv => SessionKept
    BY DEF PagesInv, Kept, SessionKept
<1> QED
    BY <1>1, <1>2, PagesStart, SessionsInvariant, PTL DEF SessionsSpec

(* reconcileCoordinatorSessionExposures: no page without an open session has   *)
(* services exposed, and after a complete reconcile every open one has those   *)
(* of the current identity, for any number of pages and rotations.             *)
THEOREM ExposuresAreCurrent == SessionsSpec => []ExposureCurrent
<1>1. SessionsInv /\ ExposureCurrent /\ [SessionsNext]_vars => ExposureCurrent'
    BY ExposureKept
<1> QED
    BY <1>1, PagesStart, SessionsInvariant, PTL DEF SessionsSpec

-----------------------------------------------------------------------------
(* Final I/O: CoordinatorAuthority.                                        *)

LEMMA IdleTyped == IdleOp \in OpRecord
  BY DEF IdleOp, OpRecord, Phases, Kinds, Allowances

LEMMA NewWorkerTyped == NewWorker \in WorkerRecord
  BY DEF NewWorker, WorkerRecord

(* Moving an operation to another phase keeps its type. *)
LEMMA GoTyped ==
  ASSUME op \in [Workers -> [Ops -> OpRecord]],
         NEW w \in Workers, NEW o \in Ops, NEW phase \in Phases, Go(w, o, phase)
  PROVE  op' \in [Workers -> [Ops -> OpRecord]]
  BY DEF Go, OpRecord

(* What the end of a claim does to the operations that waited for it. *)
LEMMA ResumedTyped ==
  ASSUME op \in [Workers -> [Ops -> OpRecord]],
         NEW w \in Workers, NEW phase \in {"idle", "session"}
  PROVE  Resumed(w, phase) \in [Ops -> OpRecord]
<1> SUFFICES ASSUME NEW o \in Ops
             PROVE  Resumed(w, phase)[o] \in OpRecord
  BY DEF Resumed
<1>1. op[w][o] \in OpRecord
  OBVIOUS
<1>2. [op[w][o] EXCEPT !.phase = phase] \in OpRecord
  BY <1>1 DEF OpRecord, Phases
<1>3. [op[w][o] EXCEPT !.phase = "check"] \in OpRecord
  BY <1>1 DEF OpRecord, Phases
<1> QED
  BY <1>1, <1>2, <1>3, IdleTyped DEF Resumed, InPhase

LEMMA CutOffTyped ==
  ASSUME op \in [Workers -> [Ops -> OpRecord]], NEW w \in Workers
  PROVE  CutOff(w) \in [Ops -> OpRecord]
<1> SUFFICES ASSUME NEW o \in Ops
             PROVE  CutOff(w)[o] \in OpRecord
  BY DEF CutOff
<1>1. op[w][o] \in OpRecord
  OBVIOUS
<1>2. (op[w][o].cut \/ (op[w][o].gate # 0 /\ GateOpen(w, o))) \in BOOLEAN
  BY Zenon
<1> QED
  BY <1>1, <1>2 DEF CutOff, OpRecord

(* A queue that gains a reader is a queue of readers. *)
LEMMA AppendTyped ==
  ASSUME mutations \in [Workers -> Seq(Ops)], NEW w \in Workers, NEW o \in Ops,
         mutations' = [mutations EXCEPT ![w] = Append(@, o)]
  PROVE  mutations' \in [Workers -> Seq(Ops)]
<1>1. mutations[w] \in Seq(Ops)
  OBVIOUS
<1>2. Append(mutations[w], o) \in Seq(Ops)
  BY <1>1
<1> QED
  BY <1>2

(* The finally block keeps the types of what it writes. *)
LEMMA SettleTyped ==
  ASSUME AuthorityTypeOK, NEW w \in Workers, NEW o \in Ops, Settle(w, o)
  PROVE  /\ op' \in [Workers -> [Ops -> OpRecord]]
         /\ leases' \in [Workers -> SUBSET ({"read", "write"} \X Ops)]
         /\ mutations' \in [Workers -> Seq(Ops)]
         /\ sharedNow' = sharedNow /\ sharedRefs' = sharedRefs
<1>1. op' \in [Workers -> [Ops -> OpRecord]]
  <2>1. CASE op[w][o].kind = "read"
    <3>1. Go(w, o, "releasing")
      BY <2>1 DEF Settle
    <3> QED
      BY <3>1, GoTyped DEF Phases, AuthorityTypeOK
  <2>2. CASE op[w][o].kind # "read"
    <3>1. op' = [op EXCEPT ![w][o] = IdleOp]
      BY <2>2 DEF Settle
    <3> QED
      BY <3>1, IdleTyped DEF AuthorityTypeOK
  <2> QED
    BY <2>1, <2>2
<1>2. mutations' \in [Workers -> Seq(Ops)]
  <2>1. mutations \in [Workers -> Seq(Ops)]
    BY DEF AuthorityTypeOK
  <2>2. \/ mutations' = mutations
        \/ mutations' = [mutations EXCEPT ![w] = Append(@, o)]
    BY Zenon DEF Settle
  <2> QED
    BY <2>1, <2>2, AppendTyped
<1>3. leases' \in [Workers -> SUBSET ({"read", "write"} \X Ops)]
  BY DEF Settle, AuthorityTypeOK
<1> QED
  BY <1>1, <1>2, <1>3 DEF Settle

-----------------------------------------------------------------------------
(* Types *)

(* Ensuring an upgrade session writes a Worker's gate and nothing else. *)
LEMMA SessionTyped ==
  ASSUME worker \in [Workers -> WorkerRecord], NEW w \in Workers
  PROVE  /\ WithSession(w) \in [Workers -> WorkerRecord]
         /\ \A v \in Workers : WithSession(w)[v].generation = worker[v].generation
<1> DEFINE next == worker[w].gates + 1
<1>1. worker[w] \in WorkerRecord
  OBVIOUS
<1>2. next \in Nat
  BY <1>1 DEF WorkerRecord
<1>3. WithSession(w) = worker
      \/ WithSession(w) = [worker EXCEPT ![w] = [@ EXCEPT !.gate = next, !.gates = next]]
  BY DEF WithSession
<1> HIDE DEF next
<1>4. [worker[w] EXCEPT !.gate = next, !.gates = next] \in WorkerRecord
  BY <1>1, <1>2 DEF WorkerRecord
<1>5. [worker[w] EXCEPT !.gate = next, !.gates = next].generation = worker[w].generation
  BY <1>1 DEF WorkerRecord
<1> QED
  BY <1>3, <1>4, <1>5

LEMMA TypesInit == Init => AuthorityTypeOK
  BY AuthorityAssumption, IdleTyped, NewWorkerTyped DEF Init, AuthorityTypeOK

(* What every step of one operation keeps. *)
LEMMA OpStepTyped ==
  ASSUME AuthorityTypeOK, NEW w \in Workers, NEW o \in Ops,
         OpStep(w, o) \/ Enter(w, o) \/ BodyReturns(w, o) \/ BodyThrows(w, o)
  PROVE  AuthorityTypeOK'
<1> DEFINE OpsTyped == op' \in [Workers -> [Ops -> OpRecord]]
<1>0. op \in [Workers -> [Ops -> OpRecord]] /\ worker \in [Workers -> WorkerRecord]
  BY DEF AuthorityTypeOK
<1>1. CASE Enter(w, o)
  <2>1. PICK r \in Requests[w][o] :
          op' = [op EXCEPT ![w][o] = [IdleOp EXCEPT
                  !.kind = r[1], !.allow = r[2],
                  !.phase = IF worker[w].claims = 0 THEN "check" ELSE "tail"]]
    BY <1>1 DEF Enter
  <2>2. r[1] \in Kinds /\ r[2] \in Allowances
    <3>1. Requests[w][o] \in SUBSET (Kinds \X Allowances)
      BY AuthorityAssumption
    <3>2. r \in Kinds \X Allowances
      BY <3>1
    <3> QED BY <3>2
  <2>3. [IdleOp EXCEPT !.kind = r[1], !.allow = r[2],
           !.phase = IF worker[w].claims = 0 THEN "check" ELSE "tail"] \in OpRecord
    BY <2>2, IdleTyped DEF OpRecord, Phases
  <2>4. OpsTyped
    BY <2>1, <2>3, <1>0
  <2> QED
    BY <1>1, <2>4 DEF Enter, readVars, AuthorityTypeOK
<1>2. CASE CheckClaim(w, o)
  <2>1. OpsTyped
    BY <1>2, <1>0, GoTyped DEF CheckClaim, Phases
  <2>2. worker' \in [Workers -> WorkerRecord]
    <3>1. \/ worker' = worker
          \/ worker' = [worker EXCEPT ![w].claims = IF @ = 0 THEN 1 ELSE @]
      BY <1>2 DEF CheckClaim
    <3> QED
      BY <3>1, <1>0 DEF WorkerRecord
  <2> QED
    BY <1>2, <2>1, <2>2 DEF CheckClaim, readVars, AuthorityTypeOK
<1>3. CASE EnsureSession(w, o)
  <2>1. OpsTyped
    BY <1>3, <1>0, GoTyped DEF EnsureSession, Phases
  <2>2. WithSession(w) \in [Workers -> WorkerRecord]
    BY <1>0, SessionTyped
  <2> QED
    BY <1>3, <2>1, <2>2 DEF EnsureSession, readVars, AuthorityTypeOK
<1>4. CASE Admit(w, o)
  <2>1. CASE Admitted(w, o)
    <3>1. op' = [op EXCEPT ![w][o] = [@ EXCEPT
                  !.gate = worker[w].gate, !.epoch = worker[w].epoch,
                  !.phase = IF op[w][o].kind = "plain" THEN "start" ELSE "leasing"]]
      BY <1>4, <2>1 DEF Admit
    <3>2. [op[w][o] EXCEPT
             !.gate = worker[w].gate, !.epoch = worker[w].epoch,
             !.phase = IF op[w][o].kind = "plain" THEN "start" ELSE "leasing"] \in OpRecord
      <4>1. worker[w].gate \in Nat /\ worker[w].epoch \in Nat
        BY <1>0 DEF WorkerRecord
      <4>2. op[w][o] \in OpRecord
        BY <1>0
      <4>3. (IF op[w][o].kind = "plain" THEN "start" ELSE "leasing") \in Phases
        BY DEF Phases
      <4> HIDE DEF Phases
      <4> QED
        BY <4>1, <4>2, <4>3 DEF OpRecord
    <3>3. OpsTyped
      BY <3>1, <3>2, <1>0
    <3>4. \/ mutations' = mutations
          \/ mutations' = [mutations EXCEPT ![w] = Append(@, o)]
      BY <1>4, <2>1, Zenon DEF Admit, AuthorityTypeOK
    <3>5. mutations' \in [Workers -> Seq(Ops)]
      BY <3>4, AppendTyped DEF AuthorityTypeOK
    <3> QED
      BY <1>4, <3>3, <3>5 DEF Admit, AuthorityTypeOK
  <2>2. CASE ~Admitted(w, o)
    <3>1. op' = [op EXCEPT ![w][o] = IdleOp] /\ mutations' = mutations
      BY <1>4, <2>2 DEF Admit, Refuse
    <3>2. OpsTyped
      BY <3>1, <1>0, IdleTyped
    <3> QED
      BY <1>4, <3>1, <3>2 DEF Admit, AuthorityTypeOK
  <2> QED
    BY <2>1, <2>2
<1>5. CASE AcquireWrite(w, o)
  <2>1. OpsTyped
    BY <1>5, <1>0, GoTyped DEF AcquireWrite, Phases
  <2>2. leases' \in [Workers -> SUBSET ({"read", "write"} \X Ops)]
    BY <1>5 DEF AcquireWrite, AuthorityTypeOK
  <2> QED
    BY <1>5, <2>1, <2>2 DEF AcquireWrite, readVars, AuthorityTypeOK
<1>6. ASSUME NextReader(w, o), Dequeue(w)
      PROVE  mutations' \in [Workers -> Seq(Ops)]
  BY <1>6 DEF NextReader, Dequeue, AuthorityTypeOK
<1>7. CASE AcquireRead(w, o)
  <2> DEFINE s == IF sharedNow[w] # None THEN sharedNow[w] ELSE o
  <2>1. s \in Ops
    BY DEF AuthorityTypeOK
  <2>2. /\ sharedRefs' = [sharedRefs EXCEPT ![w][s] = IF sharedNow[w] # None THEN @ + 1 ELSE 1]
        /\ op' = [op EXCEPT ![w][o].phase = "start", ![w][o].shared = s]
        /\ leases' = [leases EXCEPT ![w] =
                        IF sharedNow[w] # None THEN @ ELSE @ \cup {<<"read", o>>}]
        /\ sharedNow' = [sharedNow EXCEPT ![w] = s]
    BY <1>7 DEF AcquireRead
  <2>3. sharedRefs' \in [Workers -> [Ops -> Nat]]
    BY <2>1, <2>2 DEF AuthorityTypeOK
  <2>4. OpsTyped
    <3>1. op' = [op EXCEPT ![w][o] = [@ EXCEPT !.phase = "start", !.shared = s]]
      BY <2>2, <1>0
    <3>2. [op[w][o] EXCEPT !.phase = "start", !.shared = s] \in OpRecord
      <4>1. op[w][o] \in OpRecord /\ "start" \in Phases
        BY <1>0 DEF Phases
      <4> QED
        BY <4>1, <2>1 DEF OpRecord
    <3> QED
      BY <3>1, <3>2, <1>0
  <2>5. leases' \in [Workers -> SUBSET ({"read", "write"} \X Ops)]
    BY <2>2 DEF AuthorityTypeOK
  <2>6. sharedNow' \in [Workers -> Ops \cup {None}]
    BY <2>1, <2>2 DEF AuthorityTypeOK
  <2>7. mutations' \in [Workers -> Seq(Ops)]
    BY <1>6, <1>7 DEF AcquireRead
  <2> QED
    BY <1>7, <2>3, <2>4, <2>5, <2>6, <2>7 DEF AcquireRead, AuthorityTypeOK
<1>8. CASE ReleaseRead(w, o)
  <2> DEFINE s == op[w][o].shared
  <2>1. sharedRefs' = [sharedRefs EXCEPT ![w][s] = IF @ = 0 THEN 0 ELSE @ - 1]
    BY <1>8 DEF ReleaseRead
  <2>2. sharedRefs' \in [Workers -> [Ops -> Nat]]
    <3>1. sharedRefs \in [Workers -> [Ops -> Nat]]
      BY DEF AuthorityTypeOK
    <3>2. \A n \in Nat : (IF n = 0 THEN 0 ELSE n - 1) \in Nat
      OBVIOUS
    <3> HIDE DEF s
    <3>3. CASE s \in Ops
      BY <2>1, <3>1, <3>2, <3>3
    <3>4. CASE s \notin Ops
      BY <2>1, <3>1, <3>4
    <3> QED
      BY <3>3, <3>4
  <2>3. sharedNow' \in [Workers -> Ops \cup {None}]
    BY <1>8 DEF ReleaseRead, Forget, AuthorityTypeOK
  <2>4. leases' \in [Workers -> SUBSET ({"read", "write"} \X Ops)]
    <3>1. leases \in [Workers -> SUBSET ({"read", "write"} \X Ops)]
      BY DEF AuthorityTypeOK
    <3>2. \/ leases' = leases
          \/ leases' = [leases EXCEPT ![w] = @ \ {<<"read", s>>}]
      BY <1>8, Zenon DEF ReleaseRead
    <3> QED
      BY <3>1, <3>2
  <2>5. OpsTyped
    BY <1>8, <1>0, IdleTyped DEF ReleaseRead
  <2>6. mutations' \in [Workers -> Seq(Ops)]
    BY <1>6, <1>8 DEF ReleaseRead
  <2> QED
    BY <1>8, <2>2, <2>3, <2>4, <2>5, <2>6 DEF ReleaseRead, AuthorityTypeOK
<1>9. CASE Settle(w, o) /\ UNCHANGED <<webLock, worker, exits>>
  BY <1>9, SettleTyped DEF AuthorityTypeOK
<1>10. ASSUME NEW phase \in {"running", "confirm"},
              Go(w, o, phase), UNCHANGED <<leases, readVars, webLock, worker, exits>>
       PROVE  AuthorityTypeOK'
  <2>1. OpsTyped
    BY <1>10, <1>0, GoTyped DEF Phases
  <2> QED
    BY <1>10, <2>1 DEF readVars, AuthorityTypeOK
<1>11. CASE Start(w, o)
  BY <1>9, <1>10, <1>11 DEF Start
<1>12. CASE BodyReturns(w, o)
  BY <1>9, <1>10, <1>12 DEF BodyReturns
<1>13. CASE BodyThrows(w, o) \/ Confirm(w, o)
  BY <1>9, <1>13 DEF BodyThrows, Confirm
<1> QED
  BY <1>1, <1>2, <1>3, <1>4, <1>5, <1>7, <1>8, <1>11, <1>12, <1>13 DEF OpStep

(* What the steps of a Worker keep. *)
LEMMA WorkerStepTyped ==
  ASSUME AuthorityTypeOK, NEW w \in Workers, ClaimStep(w) \/ SessionStep(w)
  PROVE  AuthorityTypeOK'
<1>0. /\ op \in [Workers -> [Ops -> OpRecord]]
      /\ worker \in [Workers -> WorkerRecord]
      /\ worker[w] \in WorkerRecord
  BY DEF AuthorityTypeOK
<1>1. /\ worker[w].claims \in Nat /\ worker[w].generation + 1 \in Nat
      /\ worker[w].epoch + 1 \in Nat
      /\ worker[w].claims > 0 => worker[w].claims - 1 \in Nat
  BY <1>0 DEF WorkerRecord
<1>2. CASE ClaimSucceeds(w)
  <2>1. worker' \in [Workers -> WorkerRecord]
    <3> DEFINE r == [worker[w] EXCEPT !.claims = @ - 1, !.generation = @ + 1]
    <3>1. worker' = [worker EXCEPT ![w] = r]
      BY <1>2 DEF ClaimSucceeds
    <3>2. r \in WorkerRecord
      BY <1>2, <1>0, <1>1 DEF ClaimSucceeds, WorkerRecord
    <3> HIDE DEF r
    <3> QED
      BY <3>1, <3>2, <1>0
  <2>2. op' \in [Workers -> [Ops -> OpRecord]]
    BY <1>2, <1>0, ResumedTyped DEF ClaimSucceeds
  <2>3. leases' \in [Workers -> SUBSET ({"read", "write"} \X Ops)]
    BY <1>2 DEF ClaimSucceeds, AuthorityTypeOK
  <2> QED
    BY <1>2, <2>1, <2>2, <2>3 DEF ClaimSucceeds, readVars, AuthorityTypeOK
<1>3. CASE ClaimFails(w)
  <2>1. worker' \in [Workers -> WorkerRecord]
    <3> DEFINE r == [worker[w] EXCEPT !.claims = @ - 1]
    <3>1. worker' = [worker EXCEPT ![w] = r]
      BY <1>3 DEF ClaimFails
    <3>2. r \in WorkerRecord
      BY <1>3, <1>0, <1>1 DEF ClaimFails, WorkerRecord
    <3> HIDE DEF r
    <3> QED
      BY <3>1, <3>2, <1>0
  <2>2. op' \in [Workers -> [Ops -> OpRecord]]
    BY <1>3, <1>0, ResumedTyped DEF ClaimFails
  <2> QED
    BY <1>3, <2>1, <2>2 DEF ClaimFails, readVars, AuthorityTypeOK
<1>4. CASE LockCommit(w)
  <2>1. worker' \in [Workers -> WorkerRecord]
    <3> DEFINE r == [worker[w] EXCEPT !.unlocked = FALSE, !.closing = TRUE, !.epoch = @ + 1]
    <3>1. worker' = [worker EXCEPT ![w] = r]
      BY <1>4 DEF LockCommit
    <3>2. r \in WorkerRecord
      BY <1>4, <1>0, <1>1 DEF LockCommit, WorkerRecord
    <3> HIDE DEF r
    <3> QED
      BY <3>1, <3>2, <1>0
  <2> QED
    BY <1>4, <2>1 DEF LockCommit, readVars, AuthorityTypeOK
<1>5. op' = [op EXCEPT ![w] = CutOff(w)] => op' \in [Workers -> [Ops -> OpRecord]]
  BY <1>0, CutOffTyped
<1>6. CASE LockRevoke(w)
  <2>1. worker' \in [Workers -> WorkerRecord]
    <3> DEFINE r == [worker[w] EXCEPT !.closing = FALSE, !.gate = 0]
    <3>1. worker' = [worker EXCEPT ![w] = r]
      BY <1>6 DEF LockRevoke
    <3>2. r \in WorkerRecord
      BY <1>6, <1>0, <1>1 DEF LockRevoke, WorkerRecord
    <3> HIDE DEF r
    <3> QED
      BY <3>1, <3>2, <1>0
  <2> QED
    BY <1>5, <1>6, <2>1 DEF LockRevoke, readVars, AuthorityTypeOK
<1>7. CASE Unlock(w)
  <2>1. worker' \in [Workers -> WorkerRecord]
    <3> DEFINE r == [worker[w] EXCEPT !.unlocked = TRUE, !.epoch = @ + 1]
    <3>1. worker' = [worker EXCEPT ![w] = r]
      BY <1>7 DEF Unlock
    <3>2. r \in WorkerRecord
      BY <1>7, <1>0, <1>1 DEF Unlock, WorkerRecord
    <3> HIDE DEF r
    <3> QED
      BY <3>1, <3>2, <1>0
  <2> QED
    BY <1>7, <2>1 DEF Unlock, readVars, AuthorityTypeOK
<1>8. CASE BindSession(w)
  BY <1>8, <1>0, SessionTyped DEF BindSession, readVars, AuthorityTypeOK
<1>9. CASE RevokeBinding(w)
  <2>1. worker' \in [Workers -> WorkerRecord]
    <3> DEFINE r == [worker[w] EXCEPT !.epoch = @ + 1, !.gate = 0]
    <3>1. worker' = [worker EXCEPT ![w] = r]
      BY <1>9 DEF RevokeBinding
    <3>2. r \in WorkerRecord
      BY <1>9, <1>0, <1>1 DEF RevokeBinding, WorkerRecord
    <3> HIDE DEF r
    <3> QED
      BY <3>1, <3>2, <1>0
  <2> QED
    BY <1>5, <1>9, <2>1 DEF RevokeBinding, readVars, AuthorityTypeOK
<1>10. CASE Exit(w)
  <2>1. worker' \in [Workers -> WorkerRecord]
    BY <1>10, <1>0, NewWorkerTyped DEF Exit
  <2>2. op' \in [Workers -> [Ops -> OpRecord]]
    BY <1>10, <1>0, IdleTyped DEF Exit
  <2>3. webLock' \in Workers \cup {None} /\ exits' \in Nat
    BY <1>10 DEF Exit, AuthorityTypeOK
  <2>4. /\ leases' \in [Workers -> SUBSET ({"read", "write"} \X Ops)]
        /\ sharedNow' \in [Workers -> Ops \cup {None}]
        /\ sharedRefs' \in [Workers -> [Ops -> Nat]]
        /\ mutations' \in [Workers -> Seq(Ops)]
    BY <1>10 DEF Exit, AuthorityTypeOK
  <2> QED
    BY <2>1, <2>2, <2>3, <2>4 DEF AuthorityTypeOK
<1> QED
  BY <1>2, <1>3, <1>4, <1>6, <1>7, <1>8, <1>9, <1>10 DEF ClaimStep, SessionStep

(* AuthorityTypeOK is an invariant: every handler of final I/O keeps its   *)
(* bookkeeping well formed, however many operations and Workers there are. *)
THEOREM AuthorityTyped == Spec => []AuthorityTypeOK
<1>1. AuthorityTypeOK /\ [Next]_authorityVars => AuthorityTypeOK'
  <2>1. CASE UNCHANGED authorityVars
    BY <2>1 DEF authorityVars, AuthorityTypeOK
  <2> QED
    BY <2>1, OpStepTyped, WorkerStepTyped DEF Next
<1> QED
  BY <1>1, TypesInit, PTL DEF Spec

-----------------------------------------------------------------------------
(* One writer *)

PastClaim == {"session", "admit", "leasing", "start", "running", "confirm", "releasing"}

(* A Worker with a record holds the Web Lock, and only a Worker with a     *)
(* record has operations past the claim.                                   *)
RecordMeansLock == \A w \in Workers : Claimed(w) => webLock = w
PastClaimMeansRecord ==
  \A w \in Workers : \A o \in Ops : op[w][o].phase \in PastClaim => Claimed(w)

WriterInv == AuthorityTypeOK /\ RecordMeansLock /\ PastClaimMeansRecord

LEMMA WriterInit == Init => WriterInv
  BY TypesInit DEF Init, WriterInv, RecordMeansLock, PastClaimMeansRecord, Claimed,
     NewWorker, IdleOp, PastClaim

(* A step of one operation moves no other one. *)
LEMMA OneOpMoves ==
  ASSUME op \in [Workers -> [Ops -> OpRecord]], NEW w \in Workers, NEW o \in Ops,
         OpStep(w, o) \/ Enter(w, o) \/ BodyReturns(w, o) \/ BodyThrows(w, o)
  PROVE  \A v \in Workers : \A q \in Ops :
           <<v, q>> # <<w, o>> => op'[v][q] = op[v][q]
<1>0. op \in [Workers -> [Ops -> OpRecord]]
  OBVIOUS
<1>1. \E r : op' = [op EXCEPT ![w][o] = r]
  <2>1. ASSUME NEW phase, Go(w, o, phase)
        PROVE  \E r : op' = [op EXCEPT ![w][o] = r]
    <3>1. op' = [op EXCEPT ![w][o] = [op[w][o] EXCEPT !.phase = phase]]
      BY <2>1, <1>0 DEF Go
    <3> QED
      BY <3>1
  <2>2. ASSUME Settle(w, o)
        PROVE  \E r : op' = [op EXCEPT ![w][o] = r]
    BY <2>1, <2>2, Zenon DEF Settle
  <2>3. CASE Enter(w, o)
    BY <2>3, Zenon DEF Enter
  <2>4. CASE CheckClaim(w, o) \/ EnsureSession(w, o) \/ AcquireWrite(w, o)
    BY <2>1, <2>4, Zenon DEF CheckClaim, EnsureSession, AcquireWrite
  <2>5. CASE Admit(w, o)
    <3>1. op' = [op EXCEPT ![w][o] = IdleOp]
          \/ op' = [op EXCEPT ![w][o] = [op[w][o] EXCEPT
                     !.gate = worker[w].gate, !.epoch = worker[w].epoch,
                     !.phase = IF op[w][o].kind = "plain" THEN "start" ELSE "leasing"]]
      BY <2>5 DEF Admit, Refuse
    <3> QED
      BY <3>1, Zenon
  <2>6. CASE AcquireRead(w, o)
    <3> DEFINE s == IF sharedNow[w] # None THEN sharedNow[w] ELSE o
    <3>1. op' = [op EXCEPT ![w][o].phase = "start", ![w][o].shared = s]
      BY <2>6 DEF AcquireRead
    <3>2. op' = [op EXCEPT ![w][o] = [op[w][o] EXCEPT !.phase = "start", !.shared = s]]
      BY <3>1, <1>0
    <3> QED
      BY <3>2
  <2>7. CASE ReleaseRead(w, o)
    BY <2>7, Zenon DEF ReleaseRead
  <2>8. CASE Start(w, o) \/ BodyReturns(w, o) \/ BodyThrows(w, o) \/ Confirm(w, o)
    BY <2>1, <2>2, <2>8, Zenon DEF Start, BodyReturns, BodyThrows, Confirm
  <2> QED
    BY <2>3, <2>4, <2>5, <2>6, <2>7, <2>8 DEF OpStep
<1> QED
  BY <1>1, <1>0

(* A step of one operation touches neither the lock nor a record, and goes *)
(* past the claim only where there is a record.                            *)
LEMMA OpStepKeepsWriter ==
  ASSUME WriterInv, NEW w \in Workers, NEW o \in Ops,
         OpStep(w, o) \/ Enter(w, o) \/ BodyReturns(w, o) \/ BodyThrows(w, o)
  PROVE  RecordMeansLock' /\ PastClaimMeansRecord'
<1>0. /\ op \in [Workers -> [Ops -> OpRecord]]
      /\ worker \in [Workers -> WorkerRecord]
  BY DEF WriterInv, AuthorityTypeOK
<1>1. webLock' = webLock
      /\ \A v \in Workers : worker'[v].generation = worker[v].generation
  <2>1. CASE CheckClaim(w, o)
    BY <2>1, <1>0 DEF CheckClaim, WorkerRecord
  <2>2. CASE EnsureSession(w, o)
    BY <2>2, <1>0, SessionTyped DEF EnsureSession
  <2>3. CASE ~CheckClaim(w, o) /\ ~EnsureSession(w, o)
    <3>1. webLock' = webLock /\ worker' = worker
      BY <2>3 DEF OpStep, Enter, Admit, AcquireWrite, AcquireRead, ReleaseRead, Start,
         BodyReturns, BodyThrows, Confirm
    <3> QED
      BY <3>1
  <2> QED
    BY <2>1, <2>2, <2>3
<1>2. RecordMeansLock'
  BY <1>1 DEF WriterInv, RecordMeansLock, Claimed
<1>3. \A v \in Workers : \A q \in Ops :
        <<v, q>> # <<w, o>> => op'[v][q] = op[v][q]
  BY <1>0, OneOpMoves
<1>4. op'[w][o].phase \in PastClaim => Claimed(w)
  <2>1. CASE op[w][o].phase \in PastClaim
    BY <2>1 DEF WriterInv, PastClaimMeansRecord
  <2>2. CASE op[w][o].phase \notin PastClaim
    <3>1. CASE Enter(w, o)
      <4>1. PICK r \in Requests[w][o] :
              op' = [op EXCEPT ![w][o] = [IdleOp EXCEPT
                      !.kind = r[1], !.allow = r[2],
                      !.phase = IF worker[w].claims = 0 THEN "check" ELSE "tail"]]
        BY <3>1 DEF Enter
      <4>2. op'[w][o].phase \in {"check", "tail"}
        BY <4>1, <1>0 DEF IdleOp
      <4> QED
        BY <4>2 DEF PastClaim
    <3>2. CASE CheckClaim(w, o)
      <4>1. CASE ~Claimed(w)
        BY <4>1, <3>2, <1>0 DEF CheckClaim, Go, PastClaim, OpRecord
      <4> QED
        BY <4>1
    <3>3. ~Enter(w, o) /\ ~CheckClaim(w, o) => op[w][o].phase \in PastClaim
      BY DEF OpStep, EnsureSession, Admit, AcquireWrite, AcquireRead, ReleaseRead, Start,
         BodyReturns, BodyThrows, Confirm, InPhase, PastClaim
    <3> QED
      BY <2>2, <3>1, <3>2, <3>3
  <2> QED
    BY <2>1, <2>2
<1>5. PastClaimMeansRecord'
  BY <1>1, <1>3, <1>4 DEF WriterInv, PastClaimMeansRecord, Claimed
<1> QED
  BY <1>2, <1>5

(* A claim succeeds only where no other Worker has a record; a failed one  *)
(* lets nobody through; the end of a Worker takes its operations with it.  *)
LEMMA WorkerStepKeepsWriter ==
  ASSUME WriterInv, NEW w \in Workers, ClaimStep(w) \/ SessionStep(w)
  PROVE  RecordMeansLock' /\ PastClaimMeansRecord'
<1>0. /\ op \in [Workers -> [Ops -> OpRecord]]
      /\ worker \in [Workers -> WorkerRecord]
      /\ worker[w] \in WorkerRecord
      /\ webLock \in Workers \cup {None}
      /\ None \notin Workers
  BY AuthorityAssumption DEF WriterInv, AuthorityTypeOK
<1> USE DEF WriterInv, RecordMeansLock, PastClaimMeansRecord, Claimed
<1>1. CASE ClaimSucceeds(w)
  <2>1. \A v \in Workers \ {w} : ~Claimed(v) /\ worker'[v] = worker[v] /\ op'[v] = op[v]
    BY <1>1, <1>0 DEF ClaimSucceeds, CanTakeLock
  <2>2. worker'[w].generation # 0
    BY <1>1, <1>0 DEF ClaimSucceeds, WorkerRecord
  <2>3. webLock' = w
    BY <1>1 DEF ClaimSucceeds
  <2> QED
    BY <2>1, <2>2, <2>3
<1>2. CASE ClaimFails(w)
  <2>1. webLock' = webLock
        /\ \A v \in Workers : worker'[v].generation = worker[v].generation
    BY <1>2, <1>0 DEF ClaimFails, WorkerRecord
  <2>2. \A v \in Workers : \A o \in Ops :
          op'[v][o].phase \in PastClaim => op[v][o].phase \in PastClaim
    <3> SUFFICES ASSUME NEW v \in Workers, NEW o \in Ops, op'[v][o].phase \in PastClaim
                 PROVE  op[v][o].phase \in PastClaim
      OBVIOUS
    <3>1. CASE v = w
      <4>1. op'[v][o] = Resumed(w, "idle")[o]
        BY <1>2, <3>1, <1>0 DEF ClaimFails
      <4>2. op'[v][o] \in {IdleOp, [op[w][o] EXCEPT !.phase = "check"], op[w][o]}
        BY <4>1, Zenon DEF Resumed
      <4>3. IdleOp.phase \notin PastClaim
        BY DEF IdleOp, PastClaim
      <4>4. [op[w][o] EXCEPT !.phase = "check"].phase \notin PastClaim
        BY <1>0 DEF OpRecord, PastClaim
      <4> QED
        BY <3>1, <4>2, <4>3, <4>4
    <3>2. CASE v # w
      BY <1>2, <3>2, <1>0 DEF ClaimFails
    <3> QED
      BY <3>1, <3>2
  <2> QED
    BY <2>1, <2>2
<1>3. CASE LockCommit(w) \/ Unlock(w) \/ BindSession(w)
  <2>1. webLock' = webLock /\ op' = op
    BY <1>3 DEF LockCommit, Unlock, BindSession
  <2>2. \A v \in Workers : worker'[v].generation = worker[v].generation
    <3>1. CASE BindSession(w)
      BY <3>1, <1>0, SessionTyped DEF BindSession
    <3> DEFINE next == worker[w].epoch + 1
               locked == [worker[w] EXCEPT !.unlocked = FALSE, !.closing = TRUE, !.epoch = next]
               opened == [worker[w] EXCEPT !.unlocked = TRUE, !.epoch = next]
    <3>2. \/ worker' = [worker EXCEPT ![w] = locked]
          \/ worker' = [worker EXCEPT ![w] = opened]
          \/ BindSession(w)
      BY <1>3 DEF LockCommit, Unlock
    <3> HIDE DEF next
    <3>3. locked.generation = worker[w].generation /\ opened.generation = worker[w].generation
      BY <1>0 DEF WorkerRecord
    <3> HIDE DEF locked, opened
    <3> QED
      BY <1>0, <3>1, <3>2, <3>3
  <2> QED
    BY <2>1, <2>2
<1>4. CASE LockRevoke(w) \/ RevokeBinding(w)
  <2>1. webLock' = webLock
        /\ \A v \in Workers : worker'[v].generation = worker[v].generation
    <3> DEFINE next == worker[w].epoch + 1
               locked == [worker[w] EXCEPT !.closing = FALSE, !.gate = 0]
               revoked == [worker[w] EXCEPT !.epoch = next, !.gate = 0]
    <3>1. webLock' = webLock
          /\ \/ worker' = [worker EXCEPT ![w] = locked]
             \/ worker' = [worker EXCEPT ![w] = revoked]
      BY <1>4 DEF LockRevoke, RevokeBinding
    <3> HIDE DEF next
    <3>2. locked.generation = worker[w].generation /\ revoked.generation = worker[w].generation
      BY <1>0 DEF WorkerRecord
    <3> HIDE DEF locked, revoked
    <3> QED
      BY <1>0, <3>1, <3>2
  <2>2. \A v \in Workers : \A o \in Ops : op'[v][o].phase = op[v][o].phase
    <3>1. op' = [op EXCEPT ![w] = CutOff(w)]
      BY <1>4 DEF LockRevoke, RevokeBinding
    <3>2. \A o \in Ops : CutOff(w)[o].phase = op[w][o].phase
      BY <1>0 DEF CutOff, OpRecord
    <3> QED
      BY <3>1, <3>2, <1>0
  <2> QED
    BY <2>1, <2>2
<1>5. CASE Exit(w)
  <2>1. \A v \in Workers \ {w} :
          /\ worker'[v] = worker[v] /\ op'[v] = op[v]
          /\ webLock = v => webLock' = v
    BY <1>5, <1>0 DEF Exit
  <2>2. worker'[w].generation = 0 /\ \A o \in Ops : op'[w][o].phase = "idle"
    BY <1>5, <1>0 DEF Exit, NewWorker, IdleOp
  <2>3. "idle" \notin PastClaim
    BY DEF PastClaim
  <2> QED
    BY <2>1, <2>2, <2>3
<1> QED
  BY <1>1, <1>2, <1>3, <1>4, <1>5 DEF ClaimStep, SessionStep

LEMMA WriterStep == WriterInv /\ [Next]_authorityVars => WriterInv'
<1> SUFFICES ASSUME WriterInv, [Next]_authorityVars
             PROVE  WriterInv'
  OBVIOUS
<1>1. CASE UNCHANGED authorityVars
  BY <1>1 DEF authorityVars, WriterInv, AuthorityTypeOK, RecordMeansLock, PastClaimMeansRecord, Claimed
<1>2. ASSUME NEW w \in Workers, NEW o \in Ops,
             OpStep(w, o) \/ Enter(w, o) \/ BodyReturns(w, o) \/ BodyThrows(w, o)
      PROVE  WriterInv'
  BY <1>2, OpStepTyped, OpStepKeepsWriter DEF WriterInv
<1>3. ASSUME NEW w \in Workers, ClaimStep(w) \/ SessionStep(w)
      PROVE  WriterInv'
  BY <1>3, WorkerStepTyped, WorkerStepKeepsWriter DEF WriterInv
<1> QED
  BY <1>1, <1>2, <1>3 DEF Next

(* SingleWriter: whatever Workers of the origin start, race for the Web    *)
(* Lock and die, the bodies of final I/O run in one of them at a time.     *)
THEOREM OneWriter == Spec => []SingleWriter
<1>1. WriterInv => SingleWriter
  BY DEF WriterInv, RecordMeansLock, PastClaimMeansRecord, SingleWriter, InPhase, PastClaim
<1> QED
  BY <1>1, WriterInit, WriterStep, PTL DEF Spec

-----------------------------------------------------------------------------
(* Late successes *)

BeforeAdmission == {"idle", "tail", "check", "claiming", "session", "admit"}

(* Gates are numbered as they are opened: an operation was admitted at one *)
(* of them or at none yet, and one that was cut off is at a gate which is  *)
(* not, and never again will be, the current one.                          *)
GateKnown(w, o) ==
  /\ op[w][o].gate <= worker[w].gates
  /\ op[w][o].cut => op[w][o].gate # 0 /\ op[w][o].gate # worker[w].gate
  /\ op[w][o].phase \in BeforeAdmission => op[w][o].gate = 0
GatesInv ==
  \A w \in Workers : /\ worker[w].gate <= worker[w].gates
                     /\ \A o \in Ops : GateKnown(w, o)

(* What a move to another phase leaves alone. *)
LEMMA GoFacts ==
  ASSUME op \in [Workers -> [Ops -> OpRecord]],
         NEW w \in Workers, NEW o \in Ops, NEW phase, Go(w, o, phase)
  PROVE  /\ op'[w][o].phase = phase /\ op'[w][o].kind = op[w][o].kind
         /\ op'[w][o].gate = op[w][o].gate /\ op'[w][o].cut = op[w][o].cut
         /\ op'[w][o].shared = op[w][o].shared
  BY DEF Go, OpRecord

LEMMA IdleKnown ==
  ASSUME worker' \in [Workers -> WorkerRecord], NEW w \in Workers, NEW o \in Ops,
         op'[w][o].gate = 0, ~op'[w][o].cut
  PROVE  GateKnown(w, o)'
  BY DEF GateKnown, WorkerRecord

(* Ensuring a session opens a gate with a new number, or none. *)
LEMMA SessionGates ==
  ASSUME worker \in [Workers -> WorkerRecord], NEW w \in Workers,
         worker' = WithSession(w)
  PROVE  /\ \A v \in Workers \ {w} : worker'[v] = worker[v]
         /\ \/ worker' = worker
            \/ worker'[w].gate = worker[w].gates + 1 /\ worker'[w].gates = worker[w].gates + 1
<1> DEFINE next == worker[w].gates + 1
           record == [worker[w] EXCEPT !.gate = next, !.gates = next]
<1>1. worker' = worker \/ worker' = [worker EXCEPT ![w] = record]
  BY DEF WithSession
<1>2. record.gate = next /\ record.gates = next
  BY DEF WorkerRecord
<1> HIDE DEF record, next
<1>3. worker' = worker \/ (worker'[w] = record /\ \A v \in Workers \ {w} : worker'[v] = worker[v])
  BY <1>1
<1> QED
  BY <1>2, <1>3 DEF next

(* The operations that stay where they are know their gate as they did. *)
LEMMA GatesUndisturbed ==
  ASSUME AuthorityTypeOK, GatesInv, AuthorityTypeOK', NEW v \in Workers, NEW q \in Ops,
         op'[v][q].gate = op[v][q].gate, op'[v][q].cut = op[v][q].cut,
         op'[v][q].phase \in BeforeAdmission => op[v][q].gate = 0,
         \/ worker'[v].gates = worker[v].gates /\ worker'[v].gate \in {0, worker[v].gate}
         \/ worker'[v].gates = worker[v].gates + 1 /\ worker'[v].gate = worker[v].gates + 1
  PROVE  GateKnown(v, q)'
<1>1. /\ op[v][q].gate \in Nat /\ worker[v].gate \in Nat /\ worker[v].gates \in Nat
      /\ GateKnown(v, q)
  BY DEF AuthorityTypeOK, OpRecord, WorkerRecord, GatesInv
<1> QED
  BY <1>1 DEF GateKnown

LEMMA OpStepKeepsGates ==
  ASSUME AuthorityTypeOK, GatesInv, NEW w \in Workers, NEW o \in Ops,
         OpStep(w, o) \/ Enter(w, o) \/ BodyReturns(w, o) \/ BodyThrows(w, o)
  PROVE  GatesInv'
<1>0. /\ op \in [Workers -> [Ops -> OpRecord]]
      /\ worker \in [Workers -> WorkerRecord] /\ worker' \in [Workers -> WorkerRecord]
      /\ AuthorityTypeOK'
  BY OpStepTyped DEF AuthorityTypeOK
<1>1. /\ \A v \in Workers \ {w} : worker'[v] = worker[v]
      /\ \/ worker'[w].gates = worker[w].gates /\ worker'[w].gate = worker[w].gate
         \/ worker'[w].gates = worker[w].gates + 1 /\ worker'[w].gate = worker[w].gates + 1
  <2>1. CASE CheckClaim(w, o)
    <3>1. worker' = worker
          \/ worker' = [worker EXCEPT ![w].claims = IF @ = 0 THEN 1 ELSE @]
      BY <2>1 DEF CheckClaim
    <3> QED
      BY <3>1, <1>0 DEF WorkerRecord
  <2>2. CASE EnsureSession(w, o)
    BY <2>2, <1>0, SessionGates DEF EnsureSession
  <2>3. CASE ~CheckClaim(w, o) /\ ~EnsureSession(w, o)
    <3>1. worker' = worker
      BY <2>3 DEF OpStep, Enter, Admit, AcquireWrite, AcquireRead, ReleaseRead, Start,
         BodyReturns, BodyThrows, Confirm
    <3> QED
      BY <3>1
  <2> QED
    BY <2>1, <2>2, <2>3
<1>2. \A v \in Workers : worker'[v].gate <= worker'[v].gates
  <2>1. \A v \in Workers : worker[v].gate <= worker[v].gates /\ worker[v].gates \in Nat
    BY <1>0 DEF GatesInv, WorkerRecord
  <2> QED
    BY <1>1, <2>1
<1>3. \A v \in Workers : \A q \in Ops : <<v, q>> # <<w, o>> => GateKnown(v, q)'
  <2> SUFFICES ASSUME NEW v \in Workers, NEW q \in Ops, <<v, q>> # <<w, o>>
               PROVE  GateKnown(v, q)'
    OBVIOUS
  <2>1. op'[v][q] = op[v][q]
    BY <1>0, OneOpMoves
  <2>2. op[v][q].phase \in BeforeAdmission => op[v][q].gate = 0
    BY DEF GatesInv, GateKnown
  <2> QED
    BY <1>0, <1>1, <2>1, <2>2, GatesUndisturbed
<1>4. GateKnown(w, o)'
  <2>1. ASSUME NEW phase, Go(w, o, phase),
               phase \in BeforeAdmission => op[w][o].phase \in BeforeAdmission
        PROVE  GateKnown(w, o)'
    <3>1. /\ op'[w][o].phase = phase
          /\ op'[w][o].gate = op[w][o].gate /\ op'[w][o].cut = op[w][o].cut
      BY <1>0, <2>1, GoFacts
    <3>2. op'[w][o].phase \in BeforeAdmission => op[w][o].gate = 0
      BY <2>1, <3>1 DEF GatesInv, GateKnown
    <3> QED
      BY <1>0, <1>1, <3>1, <3>2, GatesUndisturbed
  <2>2. ASSUME op' = [op EXCEPT ![w][o] = IdleOp] PROVE GateKnown(w, o)'
    <3>1. op'[w][o] = IdleOp
      BY <1>0, <2>2
    <3> QED
      BY <1>0, <3>1, IdleKnown DEF IdleOp
  <2>3. ASSUME Settle(w, o) PROVE GateKnown(w, o)'
    BY <2>1, <2>2, <2>3 DEF Settle, BeforeAdmission
  <2>4. CASE Enter(w, o)
    <3>1. PICK r \in Requests[w][o] :
            op' = [op EXCEPT ![w][o] = [IdleOp EXCEPT
                    !.kind = r[1], !.allow = r[2],
                    !.phase = IF worker[w].claims = 0 THEN "check" ELSE "tail"]]
      BY <2>4 DEF Enter
    <3>2. op'[w][o].gate = 0 /\ ~op'[w][o].cut
      BY <3>1, <1>0 DEF IdleOp
    <3> QED
      BY <1>0, <3>2, IdleKnown
  <2>5. CASE CheckClaim(w, o)
    <3>1. \E phase \in {"session", "claiming"} : Go(w, o, phase)
      BY <2>5 DEF CheckClaim
    <3>2. op[w][o].phase \in BeforeAdmission
      BY <2>5 DEF CheckClaim, InPhase, BeforeAdmission
    <3> QED
      BY <2>1, <3>1, <3>2
  <2>6. CASE EnsureSession(w, o)
    <3>1. Go(w, o, "admit") /\ op[w][o].phase \in BeforeAdmission
      BY <2>6 DEF EnsureSession, InPhase, BeforeAdmission
    <3> QED
      BY <2>1, <3>1
  <2>7. CASE Admit(w, o)
    <3>1. CASE Admitted(w, o)
      <4> DEFINE phase == IF op[w][o].kind = "plain" THEN "start" ELSE "leasing"
                 gate == worker[w].gate
                 now == worker[w].epoch
                 admitted == [op[w][o] EXCEPT !.gate = gate, !.epoch = now, !.phase = phase]
      <4>1. op' = [op EXCEPT ![w][o] = admitted] /\ worker' = worker
        BY <2>7, <3>1 DEF Admit
      <4>2. ~op[w][o].cut
        BY <2>7 DEF Admit, InPhase, GatesInv, GateKnown, BeforeAdmission
      <4>3. phase \notin BeforeAdmission
        BY DEF BeforeAdmission
      <4> HIDE DEF phase, gate, now
      <4>4. op[w][o] \in OpRecord
        BY <1>0
      <4>5. admitted.gate = gate /\ admitted.cut = op[w][o].cut /\ admitted.phase = phase
        BY <4>4 DEF OpRecord
      <4> HIDE DEF admitted
      <4>6. op'[w][o] = admitted
        BY <1>0, <4>1
      <4>7. gate <= worker'[w].gates
        BY <4>1 DEF gate, GatesInv
      <4> QED
        BY <4>2, <4>3, <4>5, <4>6, <4>7 DEF GateKnown
    <3>2. CASE ~Admitted(w, o)
      BY <2>2, <2>7, <3>2 DEF Admit, Refuse
    <3> QED
      BY <3>1, <3>2
  <2>8. CASE AcquireWrite(w, o)
    BY <2>1, <2>8 DEF AcquireWrite, BeforeAdmission
  <2>9. CASE AcquireRead(w, o)
    <3> DEFINE s == IF sharedNow[w] # None THEN sharedNow[w] ELSE o
               reading == [op[w][o] EXCEPT !.phase = "start", !.shared = s]
    <3>1. op' = [op EXCEPT ![w][o].phase = "start", ![w][o].shared = s]
      BY <2>9 DEF AcquireRead
    <3>2. op'[w][o] = reading
      BY <3>1, <1>0
    <3>3. reading.gate = op[w][o].gate /\ reading.cut = op[w][o].cut /\ reading.phase = "start"
      <4>1. op[w][o] \in OpRecord
        BY <1>0
      <4> HIDE DEF s
      <4> QED
        BY <4>1 DEF OpRecord
    <3> HIDE DEF reading
    <3> QED
      BY <1>0, <1>1, <3>2, <3>3, GatesUndisturbed DEF BeforeAdmission
  <2>10. CASE ReleaseRead(w, o)
    BY <2>2, <2>10 DEF ReleaseRead
  <2>11. CASE Start(w, o) \/ BodyReturns(w, o) \/ BodyThrows(w, o) \/ Confirm(w, o)
    BY <2>1, <2>3, <2>11 DEF Start, BodyReturns, BodyThrows, Confirm, BeforeAdmission
  <2> QED
    BY <2>4, <2>5, <2>6, <2>7, <2>8, <2>9, <2>10, <2>11 DEF OpStep
<1>5. \A v \in Workers : \A q \in Ops : GateKnown(v, q)'
  BY <1>3, <1>4
<1> QED
  BY <1>2, <1>5 DEF GatesInv

(* What the steps of a Worker make of its record: only closing and opening *)
(* a session moves the gate, and only a claim moves the claim.             *)
LEMMA WorkerMoves ==
  ASSUME worker \in [Workers -> WorkerRecord], NEW w \in Workers
  PROVE  /\ LockCommit(w) \/ Unlock(w) \/ ClaimSucceeds(w) \/ ClaimFails(w) =>
              worker'[w].gates = worker[w].gates /\ worker'[w].gate = worker[w].gate
         /\ LockRevoke(w) \/ RevokeBinding(w) =>
              worker'[w].gates = worker[w].gates /\ worker'[w].gate = 0
         /\ LockCommit(w) \/ Unlock(w) \/ LockRevoke(w) \/ RevokeBinding(w) =>
              /\ worker'[w].claims = worker[w].claims
              /\ worker'[w].generation = worker[w].generation
         /\ ClaimSucceeds(w) \/ ClaimFails(w) => worker'[w].claims = worker[w].claims - 1
         /\ ClaimFails(w) => worker'[w].generation = worker[w].generation
         /\ ClaimStep(w) \/ LockCommit(w) \/ Unlock(w) \/ LockRevoke(w) \/ RevokeBinding(w) =>
              \A v \in Workers \ {w} : worker'[v] = worker[v]
<1> DEFINE next == worker[w].epoch + 1
           claims == worker[w].claims - 1
           generation == worker[w].generation + 1
           locked == [worker[w] EXCEPT !.unlocked = FALSE, !.closing = TRUE, !.epoch = next]
           opened == [worker[w] EXCEPT !.unlocked = TRUE, !.epoch = next]
           revoked == [worker[w] EXCEPT !.closing = FALSE, !.gate = 0]
           unbound == [worker[w] EXCEPT !.epoch = next, !.gate = 0]
           claimed == [worker[w] EXCEPT !.claims = claims, !.generation = generation]
           refused == [worker[w] EXCEPT !.claims = claims]
<1>1. /\ LockCommit(w) => worker' = [worker EXCEPT ![w] = locked]
      /\ Unlock(w) => worker' = [worker EXCEPT ![w] = opened]
      /\ LockRevoke(w) => worker' = [worker EXCEPT ![w] = revoked]
      /\ RevokeBinding(w) => worker' = [worker EXCEPT ![w] = unbound]
      /\ ClaimSucceeds(w) => worker' = [worker EXCEPT ![w] = claimed]
      /\ ClaimFails(w) => worker' = [worker EXCEPT ![w] = refused]
  BY DEF LockCommit, Unlock, LockRevoke, RevokeBinding, ClaimSucceeds, ClaimFails
<1> HIDE DEF next, claims, generation
<1>2. /\ locked.gate = worker[w].gate /\ locked.gates = worker[w].gates
      /\ opened.gate = worker[w].gate /\ opened.gates = worker[w].gates
      /\ claimed.gate = worker[w].gate /\ claimed.gates = worker[w].gates
      /\ refused.gate = worker[w].gate /\ refused.gates = worker[w].gates
      /\ revoked.gate = 0 /\ revoked.gates = worker[w].gates
      /\ unbound.gate = 0 /\ unbound.gates = worker[w].gates
  BY DEF WorkerRecord
<1>3. /\ locked.claims = worker[w].claims /\ locked.generation = worker[w].generation
      /\ opened.claims = worker[w].claims /\ opened.generation = worker[w].generation
      /\ revoked.claims = worker[w].claims /\ revoked.generation = worker[w].generation
      /\ unbound.claims = worker[w].claims /\ unbound.generation = worker[w].generation
      /\ claimed.claims = claims /\ refused.claims = claims
      /\ refused.generation = worker[w].generation
  BY DEF WorkerRecord
<1> HIDE DEF locked, opened, revoked, unbound, claimed, refused
<1> QED
  BY <1>1, <1>2, <1>3 DEF ClaimStep, claims

(* What a claim makes of the operations that waited for it. *)
LEMMA ResumedFacts ==
  ASSUME op \in [Workers -> [Ops -> OpRecord]],
         NEW w \in Workers, NEW phase \in {"idle", "session"}, NEW o \in Ops
  PROVE  \/ Resumed(w, phase)[o] = op[w][o]
         \/ /\ op[w][o].phase \in {"claiming", "tail"}
            /\ Resumed(w, phase)[o].phase \in {"idle", "session", "check"}
            /\ \/ Resumed(w, phase)[o] = IdleOp
               \/ /\ Resumed(w, phase)[o].gate = op[w][o].gate
                  /\ Resumed(w, phase)[o].cut = op[w][o].cut
<1>1. Resumed(w, phase)[o] = IF InPhase(w, o, "claiming")
                             THEN IF phase = "idle" THEN IdleOp
                                  ELSE [op[w][o] EXCEPT !.phase = phase]
                             ELSE IF InPhase(w, o, "tail") THEN [op[w][o] EXCEPT !.phase = "check"]
                             ELSE op[w][o]
  BY DEF Resumed, InPhase
<1>2. IdleOp.phase = "idle"
  BY DEF IdleOp
<1>3. op[w][o] \in OpRecord
  OBVIOUS
<1>4. /\ [op[w][o] EXCEPT !.phase = phase].phase = phase
      /\ [op[w][o] EXCEPT !.phase = phase].gate = op[w][o].gate
      /\ [op[w][o] EXCEPT !.phase = phase].cut = op[w][o].cut
      /\ [op[w][o] EXCEPT !.phase = "check"].phase = "check"
      /\ [op[w][o] EXCEPT !.phase = "check"].gate = op[w][o].gate
      /\ [op[w][o] EXCEPT !.phase = "check"].cut = op[w][o].cut
  BY <1>3 DEF OpRecord
<1> QED
  BY <1>1, <1>2, <1>4 DEF InPhase

(* What the closing of a session makes of the operations under way. *)
LEMMA CutOffFacts ==
  ASSUME op \in [Workers -> [Ops -> OpRecord]], NEW w \in Workers, NEW o \in Ops
  PROVE  /\ CutOff(w)[o].phase = op[w][o].phase /\ CutOff(w)[o].kind = op[w][o].kind
         /\ CutOff(w)[o].gate = op[w][o].gate /\ CutOff(w)[o].shared = op[w][o].shared
         /\ CutOff(w)[o].cut => op[w][o].cut \/ op[w][o].gate # 0
<1> DEFINE cut == op[w][o].cut \/ (op[w][o].gate # 0 /\ GateOpen(w, o))
<1>1. CutOff(w)[o] = [op[w][o] EXCEPT !.cut = cut]
  BY DEF CutOff
<1>2. cut => op[w][o].cut \/ op[w][o].gate # 0
  OBVIOUS
<1> HIDE DEF cut
<1> QED
  BY <1>1, <1>2 DEF OpRecord

LEMMA WorkerStepKeepsGates ==
  ASSUME AuthorityTypeOK, GatesInv, NEW w \in Workers, ClaimStep(w) \/ SessionStep(w)
  PROVE  GatesInv'
<1>0. /\ op \in [Workers -> [Ops -> OpRecord]]
      /\ worker \in [Workers -> WorkerRecord] /\ worker' \in [Workers -> WorkerRecord]
      /\ AuthorityTypeOK'
  BY WorkerStepTyped DEF AuthorityTypeOK
<1>1. \A v \in Workers :
        /\ worker[v].gate \in Nat /\ worker[v].gates \in Nat
        /\ worker[v].gate <= worker[v].gates
        /\ \A q \in Ops : op[v][q].gate \in Nat /\ GateKnown(v, q)
  BY <1>0 DEF GatesInv, WorkerRecord, OpRecord
<1>a. ASSUME \A v \in Workers \ {w} : worker'[v] = worker[v] /\ op'[v] = op[v],
             worker'[w].gate <= worker'[w].gates, \A o \in Ops : GateKnown(w, o)'
      PROVE  GatesInv'
  <2>1. \A v \in Workers \ {w} : \A q \in Ops : GateKnown(v, q)'
    BY <1>1, <1>a DEF GateKnown
  <2> QED
    BY <1>1, <1>a, <2>1 DEF GatesInv
<1>2. CASE ClaimStep(w)
  <2>1. PICK phase \in {"idle", "session"} : op' = [op EXCEPT ![w] = Resumed(w, phase)]
    BY <1>2 DEF ClaimStep, ClaimSucceeds, ClaimFails
  <2>2. /\ worker'[w].gates = worker[w].gates /\ worker'[w].gate = worker[w].gate
        /\ \A v \in Workers \ {w} : worker'[v] = worker[v] /\ op'[v] = op[v]
    BY <1>0, <1>2, <2>1, WorkerMoves DEF ClaimStep
  <2>3. ASSUME NEW o \in Ops PROVE GateKnown(w, o)'
    <3>1. op'[w][o] = Resumed(w, phase)[o]
      BY <1>0, <2>1
    <3>2. \/ op'[w][o] = op[w][o]
          \/ /\ op[w][o].phase \in BeforeAdmission
             /\ \/ op'[w][o] = IdleOp
                \/ op'[w][o].gate = op[w][o].gate /\ op'[w][o].cut = op[w][o].cut
      BY <1>0, <3>1, ResumedFacts DEF BeforeAdmission
    <3>3. IdleOp.gate = 0 /\ ~IdleOp.cut
      BY DEF IdleOp
    <3> QED
      BY <1>0, <1>1, <2>2, <3>2, <3>3, IdleKnown, GatesUndisturbed DEF GateKnown
  <2> QED
    BY <1>1, <1>a, <2>2, <2>3
<1>3. CASE LockCommit(w) \/ Unlock(w)
  <2>1. /\ worker'[w].gates = worker[w].gates /\ worker'[w].gate = worker[w].gate
        /\ \A v \in Workers \ {w} : worker'[v] = worker[v]
    BY <1>0, <1>3, WorkerMoves
  <2>2. op' = op
    BY <1>3 DEF LockCommit, Unlock
  <2>3. \A o \in Ops : GateKnown(w, o)'
    BY <1>1, <2>1, <2>2 DEF GateKnown
  <2> QED
    BY <1>1, <1>a, <2>1, <2>2, <2>3
<1>4. CASE LockRevoke(w) \/ RevokeBinding(w)
  <2>1. /\ worker'[w].gates = worker[w].gates /\ worker'[w].gate = 0
        /\ \A v \in Workers \ {w} : worker'[v] = worker[v]
    BY <1>0, <1>4, WorkerMoves
  <2>2. op' = [op EXCEPT ![w] = CutOff(w)]
    BY <1>4 DEF LockRevoke, RevokeBinding
  <2>3. ASSUME NEW o \in Ops PROVE GateKnown(w, o)'
    <3>1. op'[w][o] = CutOff(w)[o]
      BY <1>0, <2>2
    <3>2. /\ op'[w][o].phase = op[w][o].phase /\ op'[w][o].gate = op[w][o].gate
          /\ op'[w][o].cut => op[w][o].cut \/ op[w][o].gate # 0
      BY <1>0, <3>1, CutOffFacts
    <3> QED
      BY <1>1, <2>1, <3>2 DEF GateKnown
  <2> QED
    BY <1>0, <1>1, <1>a, <2>1, <2>2, <2>3
<1>5. CASE BindSession(w)
  <2>1. /\ op' = op /\ worker' = WithSession(w)
    BY <1>5 DEF BindSession
  <2>2. /\ \A v \in Workers \ {w} : worker'[v] = worker[v]
        /\ \/ worker' = worker
           \/ worker'[w].gate = worker[w].gates + 1 /\ worker'[w].gates = worker[w].gates + 1
    BY <1>0, <2>1, SessionGates
  <2>3. \A o \in Ops : GateKnown(w, o)'
    BY <1>0, <1>1, <2>1, <2>2, GatesUndisturbed DEF GateKnown
  <2> QED
    BY <1>1, <1>a, <2>1, <2>2, <2>3
<1>6. CASE Exit(w)
  <2>1. /\ worker' = [worker EXCEPT ![w] = NewWorker]
        /\ op' = [op EXCEPT ![w] = [o \in Ops |-> IdleOp]]
    BY <1>6 DEF Exit
  <2>2. \A o \in Ops : op'[w][o].gate = 0 /\ ~op'[w][o].cut
    BY <1>0, <2>1 DEF IdleOp
  <2>3. worker'[w].gate = 0 /\ worker'[w].gates = 0
    BY <1>0, <2>1 DEF NewWorker
  <2> QED
    BY <1>0, <1>a, <2>1, <2>2, <2>3, IdleKnown
<1> QED
  BY <1>2, <1>3, <1>4, <1>5, <1>6 DEF SessionStep

(* NoLateSuccess: an operation that a lock or a revoked binding cut off is *)
(* a success only if it was issued as one that may end or move its         *)
(* session: the gate it was admitted at is never opened again.             *)
THEOREM CutOffIsNoSuccess == Spec => NoLateSuccess
<1> DEFINE Step == \A w \in Workers : \A o \in Ops :
                     /\ InPhase(w, o, "running") /\ op[w][o].cut
                     /\ op'[w][o].phase = "confirm"
                     => \/ op[w][o].allow = "lock" /\ ~worker[w].unlocked
                        \/ op[w][o].allow = "both"
<1>1. ASSUME AuthorityTypeOK, GatesInv, Next PROVE Step
  <2> SUFFICES ASSUME NEW w \in Workers, NEW o \in Ops,
                      InPhase(w, o, "running"), op[w][o].cut, op'[w][o].phase = "confirm"
               PROVE  \/ op[w][o].allow = "lock" /\ ~worker[w].unlocked
                      \/ op[w][o].allow = "both"
    OBVIOUS
  <2>0. op \in [Workers -> [Ops -> OpRecord]] /\ op[w][o].phase = "running"
    BY <1>1 DEF AuthorityTypeOK, InPhase
  <2>1. BodyReturns(w, o) /\ Accepted(w, o)
    <3>1. ASSUME NEW v \in Workers, ClaimStep(v) \/ SessionStep(v) PROVE FALSE
      <4>1. CASE v # w
        <5>1. op'[w] = op[w]
          BY <2>0, <3>1, <4>1 DEF ClaimStep, SessionStep, ClaimSucceeds, ClaimFails, LockCommit,
             LockRevoke, Unlock, BindSession, RevokeBinding, Exit
        <5> QED
          BY <2>0, <5>1
      <4>2. CASE v = w
        <5>1. CASE ClaimStep(w)
          <6>1. PICK phase \in {"idle", "session"} : op' = [op EXCEPT ![w] = Resumed(w, phase)]
            BY <5>1 DEF ClaimStep, ClaimSucceeds, ClaimFails
          <6> QED
            BY <2>0, <6>1, ResumedFacts
        <5>2. CASE LockRevoke(w) \/ RevokeBinding(w)
          BY <2>0, <5>2, CutOffFacts DEF LockRevoke, RevokeBinding
        <5>3. CASE LockCommit(w) \/ Unlock(w) \/ BindSession(w)
          BY <2>0, <5>3 DEF LockCommit, Unlock, BindSession
        <5>4. CASE Exit(w)
          BY <2>0, <5>4 DEF Exit, IdleOp
        <5> QED
          BY <3>1, <4>2, <5>1, <5>2, <5>3, <5>4 DEF SessionStep
      <4> QED
        BY <4>1, <4>2
    <3>2. PICK v \in Workers, q \in Ops :
            OpStep(v, q) \/ Enter(v, q) \/ BodyReturns(v, q) \/ BodyThrows(v, q)
      BY <1>1, <3>1 DEF Next
    <3>3. v = w /\ q = o
      BY <2>0, <3>2, OneOpMoves
    <3>4. CASE BodyThrows(w, o) \/ (BodyReturns(w, o) /\ ~Accepted(w, o))
      <4>1. Settle(w, o)
        BY <3>4 DEF BodyThrows, BodyReturns
      <4>2. op'[w][o].phase \in {"releasing", "idle"}
        BY <2>0, <4>1, GoFacts DEF Settle, IdleOp
      <4> QED
        BY <4>2
    <3>5. CASE OpStep(w, o) \/ Enter(w, o)
      BY <2>0, <3>5 DEF OpStep, Enter, CheckClaim, EnsureSession, Admit, AcquireWrite, AcquireRead,
         ReleaseRead, Start, Confirm, InPhase
    <3> QED
      BY <3>2, <3>3, <3>4, <3>5
  <2>2. ~GateOpen(w, o)
    BY <1>1 DEF GatesInv, GateKnown, GateOpen
  <2> QED
    BY <2>1, <2>2 DEF Accepted, LocalLock, LocalTransition
<1>2. Init => GatesInv
  BY TypesInit DEF Init, GatesInv, GateKnown, NewWorker, IdleOp
<1>3. AuthorityTypeOK /\ GatesInv /\ [Next]_authorityVars => GatesInv'
  <2> SUFFICES ASSUME AuthorityTypeOK, GatesInv, [Next]_authorityVars PROVE GatesInv'
    OBVIOUS
  <2>1. CASE UNCHANGED authorityVars
    BY <2>1 DEF authorityVars, GatesInv, GateKnown
  <2>2. CASE Next
    BY <2>2, OpStepKeepsGates, WorkerStepKeepsGates DEF Next
  <2> QED
    BY <2>1, <2>2
<1>4. AuthorityTypeOK /\ GatesInv /\ [Next]_authorityVars => [Step]_authorityVars
  BY <1>1
<1> QED
  BY <1>2, <1>3, <1>4, AuthorityTyped, PTL DEF Spec, NoLateSuccess

-----------------------------------------------------------------------------
(* Leases *)

LEMMA SessionClaims ==
  ASSUME worker \in [Workers -> WorkerRecord], NEW w \in Workers
  PROVE  /\ WithSession(w)[w].claims = worker[w].claims
         /\ WithSession(w)[w].generation = worker[w].generation
<1> DEFINE next == worker[w].gates + 1
           record == [worker[w] EXCEPT !.gate = next, !.gates = next]
<1>1. WithSession(w) = worker \/ WithSession(w) = [worker EXCEPT ![w] = record]
  BY DEF WithSession
<1> HIDE DEF next
<1>2. record.claims = worker[w].claims /\ record.generation = worker[w].generation
  BY DEF WorkerRecord
<1> HIDE DEF record
<1> QED
  BY <1>1, <1>2

Reads(r) == r.kind = "read" /\ r.phase \in {"start", "running", "confirm", "releasing"}
Writes(r) == r.kind = "write" /\ r.phase \in {"start", "running", "confirm"}
Queued(r) == r.kind = "read" /\ r.phase \in {"leasing", "releasing"}

(* The readers' queue holds each waiting reader once. *)
QueueKnown(w) ==
  /\ \A i \in 1..Len(mutations[w]) : Queued(op[w][mutations[w][i]])
  /\ \A i, j \in 1..Len(mutations[w]) : mutations[w][i] = mutations[w][j] => i = j

(* The leases are those of the writers and the one all readers share and   *)
(* count; without a reader none is current.                                *)
SharedLease(w) == IF Readers(w) = {} THEN {} ELSE {<<"read", sharedNow[w]>>}
LeaseKnown(w) ==
  /\ IsFiniteSet(Readers(w))
  /\ Readers(w) = {} <=> sharedNow[w] = None
  /\ leases[w] = {<<"write", o>> : o \in Writers(w)} \cup SharedLease(w)
  /\ \A o \in Readers(w) : op[w][o].shared = sharedNow[w]
  /\ Readers(w) # {} => sharedRefs[w][sharedNow[w]] = Cardinality(Readers(w))

(* A claim is under way only while there is no record it could replace. *)
ClaimKnown(w) == worker[w].claims = 0 \/ (worker[w].claims = 1 /\ ~Claimed(w))

LeasesInv == \A w \in Workers : QueueKnown(w) /\ LeaseKnown(w) /\ ClaimKnown(w)

LEMMA HoldersAre ==
  ASSUME NEW w \in Workers
  PROVE  /\ Readers(w) = {o \in Ops : Reads(op[w][o])}
         /\ Writers(w) = {o \in Ops : Writes(op[w][o])}
  BY DEF Readers, Writers, Reads, Writes

LEMMA HoldersSame ==
  ASSUME NEW v \in Workers, LeaseKnown(v),
         leases'[v] = leases[v], sharedNow'[v] = sharedNow[v], sharedRefs'[v] = sharedRefs[v],
         \A q \in Ops : /\ Reads(op'[v][q]) <=> Reads(op[v][q])
                        /\ Writes(op'[v][q]) <=> Writes(op[v][q])
                        /\ Reads(op[v][q]) => op'[v][q].shared = op[v][q].shared
  PROVE  LeaseKnown(v)'
<1>1. Readers(v)' = Readers(v) /\ Writers(v)' = Writers(v)
  BY DEF Readers, Writers, Reads, Writes
<1>2. \A q \in Readers(v) : op'[v][q].shared = op[v][q].shared
  BY HoldersAre
<1> QED
  BY <1>1, <1>2 DEF LeaseKnown, SharedLease

LEMMA QueueSame ==
  ASSUME NEW v \in Workers, QueueKnown(v), mutations[v] \in Seq(Ops),
         mutations'[v] = mutations[v],
         \A q \in Ops : Queued(op[v][q]) => Queued(op'[v][q])
  PROVE  QueueKnown(v)'
<1>1. \A i \in 1..Len(mutations[v]) : mutations[v][i] \in Ops
  OBVIOUS
<1> QED
  BY <1>1 DEF QueueKnown

LEMMA QueueAppended ==
  ASSUME NEW w \in Workers, NEW o \in Ops, QueueKnown(w), mutations[w] \in Seq(Ops),
         mutations'[w] = Append(mutations[w], o),
         ~Queued(op[w][o]), Queued(op'[w][o]),
         \A q \in Ops \ {o} : op'[w][q] = op[w][q]
  PROVE  QueueKnown(w)'
<1> DEFINE s == mutations[w]
           n == Len(s)
<1>1. /\ n \in Nat /\ Len(mutations'[w]) = n + 1
      /\ \A i \in 1..n : mutations'[w][i] = s[i] /\ s[i] \in Ops
      /\ mutations'[w][n + 1] = o
  OBVIOUS
<1>2. \A i \in 1..n : s[i] # o /\ Queued(op[w][s[i]])
  BY DEF QueueKnown
<1>3. \A i, j \in 1..n : s[i] = s[j] => i = j
  BY DEF QueueKnown
<1> HIDE DEF s, n
<1>4. \A i \in 1..(n + 1) : i \in 1..n \/ i = n + 1
  BY <1>1
<1>5. \A i \in 1..(n + 1) : Queued(op'[w][mutations'[w][i]])
  BY <1>1, <1>2, <1>4
<1>6. \A i, j \in 1..(n + 1) : mutations'[w][i] = mutations'[w][j] => i = j
  BY <1>1, <1>2, <1>3, <1>4
<1> QED
  BY <1>1, <1>5, <1>6 DEF QueueKnown

LEMMA QueueShortened ==
  ASSUME NEW w \in Workers, NEW o \in Ops, QueueKnown(w), mutations[w] \in Seq(Ops),
         mutations[w] # <<>>, Head(mutations[w]) = o, mutations'[w] = Tail(mutations[w]),
         \A q \in Ops \ {o} : op'[w][q] = op[w][q]
  PROVE  QueueKnown(w)' /\ Queued(op[w][o])
<1> DEFINE s == mutations[w]
           n == Len(s)
<1>1. /\ n \in Nat \ {0} /\ s[1] = o /\ Len(mutations'[w]) = n - 1
      /\ \A i \in 1..(n - 1) : mutations'[w][i] = s[i + 1]
      /\ \A i \in 1..n : s[i] \in Ops
  OBVIOUS
<1>2. \A i \in 1..n : Queued(op[w][s[i]])
  BY DEF QueueKnown
<1>3. \A i, j \in 1..n : s[i] = s[j] => i = j
  BY DEF QueueKnown
<1> HIDE DEF s, n
<1>4. \A i \in 1..(n - 1) : i + 1 \in 1..n /\ i + 1 # 1
  BY <1>1
<1>5. \A i \in 1..(n - 1) : s[i + 1] # o
  BY <1>1, <1>3, <1>4
<1>6. \A i \in 1..(n - 1) : Queued(op'[w][mutations'[w][i]])
  BY <1>1, <1>2, <1>4, <1>5
<1>7. \A i, j \in 1..(n - 1) : mutations'[w][i] = mutations'[w][j] => i = j
  <2> SUFFICES ASSUME NEW i \in 1..(n - 1), NEW j \in 1..(n - 1),
                      mutations'[w][i] = mutations'[w][j]
               PROVE  i = j
    OBVIOUS
  <2>1. i + 1 = j + 1
    BY <1>1, <1>3, <1>4
  <2> QED
    BY <2>1
<1> QED
  BY <1>1, <1>2, <1>6, <1>7 DEF QueueKnown

(* One operation starts, or stops, to hold a lease. *)
LEMMA OneHolderMoves ==
  ASSUME NEW w \in Workers, NEW o \in Ops, \A q \in Ops \ {o} : op'[w][q] = op[w][q]
  PROVE  /\ Readers(w)' = IF Reads(op'[w][o]) THEN Readers(w) \cup {o} ELSE Readers(w) \ {o}
         /\ Writers(w)' = IF Writes(op'[w][o]) THEN Writers(w) \cup {o} ELSE Writers(w) \ {o}
<1>1. /\ Readers(w)' = {q \in Ops : Reads(op'[w][q])}
      /\ Writers(w)' = {q \in Ops : Writes(op'[w][q])}
  BY DEF Readers, Writers, Reads, Writes
<1> QED
  BY <1>1, HoldersAre

(* The finally block of an operation that holds a lease, or needs none. *)
LEMMA SettleKeepsLeases ==
  ASSUME AuthorityTypeOK, LeasesInv, NEW w \in Workers, NEW o \in Ops,
         op[w][o].phase \in {"start", "running", "confirm"}, Settle(w, o),
         \A q \in Ops \ {o} : op'[w][q] = op[w][q]
  PROVE  QueueKnown(w)' /\ LeaseKnown(w)'
<1>0. /\ op \in [Workers -> [Ops -> OpRecord]] /\ mutations \in [Workers -> Seq(Ops)]
      /\ leases \in [Workers -> SUBSET ({"read", "write"} \X Ops)]
      /\ QueueKnown(w) /\ LeaseKnown(w)
  BY DEF AuthorityTypeOK, LeasesInv
<1>1. /\ leases'[w] = leases[w] \ {<<"write", o>>}
      /\ sharedNow' = sharedNow /\ sharedRefs' = sharedRefs
  BY <1>0 DEF Settle
<1>2. ~Queued(op[w][o])
  BY DEF Queued
<1>3. CASE op[w][o].kind # "write"
  <2>1. o \notin Writers(w) /\ leases'[w] = leases[w]
    BY <1>0, <1>1, <1>3 DEF LeaseKnown, SharedLease, Writers
  <2>2. CASE op[w][o].kind = "read"
    <3>1. Go(w, o, "releasing") /\ mutations'[w] = Append(mutations[w], o)
      BY <1>0, <2>2 DEF Settle
    <3>2. /\ op'[w][o].phase = "releasing" /\ op'[w][o].kind = "read"
          /\ op'[w][o].shared = op[w][o].shared
      BY <1>0, <2>2, <3>1, GoFacts
    <3>3. QueueKnown(w)'
      BY <1>0, <1>2, <3>1, <3>2, QueueAppended DEF Queued
    <3>4. Reads(op[w][o]) /\ Reads(op'[w][o]) /\ ~Writes(op[w][o]) /\ ~Writes(op'[w][o])
      BY <2>2, <3>2 DEF Reads, Writes
    <3> QED
      BY <1>0, <1>1, <2>1, <3>2, <3>3, <3>4, HoldersSame
  <2>3. CASE op[w][o].kind # "read"
    <3>1. op'[w][o] = IdleOp /\ mutations' = mutations
      BY <1>0, <2>3 DEF Settle
    <3>2. /\ ~Reads(op[w][o]) /\ ~Reads(op'[w][o])
          /\ ~Writes(op[w][o]) /\ ~Writes(op'[w][o])
      BY <1>3, <2>3, <3>1 DEF Reads, Writes, IdleOp
    <3>3. LeaseKnown(w)'
      BY <1>0, <1>1, <2>1, <3>2, HoldersSame
    <3>4. QueueKnown(w)'
      BY <1>0, <1>2, <3>1, QueueSame
    <3> QED
      BY <3>3, <3>4
  <2> QED
    BY <2>2, <2>3
<1>4. CASE op[w][o].kind = "write"
  <2>1. op'[w][o] = IdleOp /\ mutations' = mutations
    BY <1>0, <1>4 DEF Settle
  <2>2. QueueKnown(w)'
    BY <1>0, <1>2, <2>1, QueueSame
  <2>3. /\ ~Reads(op[w][o]) /\ ~Reads(op'[w][o]) /\ ~Writes(op'[w][o])
    BY <1>4, <2>1 DEF Reads, Writes, IdleOp
  <2>4. Readers(w)' = Readers(w) /\ Writers(w)' = Writers(w) \ {o}
    <3>1. o \notin Readers(w)
      BY <2>3, HoldersAre
    <3>2. Readers(w)' = Readers(w) \ {o} /\ Writers(w)' = Writers(w) \ {o}
      BY <2>3, OneHolderMoves
    <3> QED
      BY <3>1, <3>2
  <2>5. \A q \in Readers(w) : op'[w][q].shared = op[w][q].shared
    BY <2>3, HoldersAre
  <2>6. {<<"write", q>> : q \in Writers(w) \ {o}} = {<<"write", q>> : q \in Writers(w)} \ {<<"write", o>>}
    OBVIOUS
  <2>7. <<"write", o>> \notin SharedLease(w)
    BY DEF SharedLease
  <2>8. leases'[w] = {<<"write", q>> : q \in Writers(w)'} \cup SharedLease(w)
    BY <1>0, <1>1, <2>4, <2>6, <2>7 DEF LeaseKnown
  <2>9. LeaseKnown(w)'
    BY <1>0, <1>1, <2>4, <2>5, <2>8 DEF LeaseKnown, SharedLease
  <2> QED
    BY <2>2, <2>9
<1> QED
  BY <1>3, <1>4

(* A queued reader that gets its turn joins the shared lease or opens one. *)
LEMMA AcquireReadKeepsLeases ==
  ASSUME AuthorityTypeOK, LeasesInv, NEW w \in Workers, NEW o \in Ops, AcquireRead(w, o),
         \A q \in Ops \ {o} : op'[w][q] = op[w][q]
  PROVE  QueueKnown(w)' /\ LeaseKnown(w)'
<1> DEFINE s == IF sharedNow[w] # None THEN sharedNow[w] ELSE o
           reading == [op[w][o] EXCEPT !.phase = "start", !.shared = s]
<1>0. /\ op \in [Workers -> [Ops -> OpRecord]] /\ mutations \in [Workers -> Seq(Ops)]
      /\ leases \in [Workers -> SUBSET ({"read", "write"} \X Ops)]
      /\ sharedNow \in [Workers -> Ops \cup {None}]
      /\ sharedRefs \in [Workers -> [Ops -> Nat]]
      /\ None \notin Ops
      /\ QueueKnown(w) /\ LeaseKnown(w)
  BY AuthorityAssumption DEF AuthorityTypeOK, LeasesInv
<1>1. /\ op' = [op EXCEPT ![w][o].phase = "start", ![w][o].shared = s]
      /\ sharedRefs' = [sharedRefs EXCEPT ![w][s] = IF sharedNow[w] # None THEN @ + 1 ELSE 1]
      /\ leases' = [leases EXCEPT ![w] =
                      IF sharedNow[w] # None THEN @ ELSE @ \cup {<<"read", o>>}]
      /\ sharedNow' = [sharedNow EXCEPT ![w] = s]
      /\ op[w][o].phase = "leasing"
      /\ mutations[w] # <<>> /\ Head(mutations[w]) = o
      /\ mutations' = [mutations EXCEPT ![w] = Tail(@)]
  BY DEF AcquireRead, NextReader, Dequeue, InPhase
<1>2. s \in Ops /\ sharedNow'[w] = s /\ (sharedNow[w] # None => s = sharedNow[w])
  BY <1>0, <1>1
<1>3. op'[w][o] = reading
  BY <1>0, <1>1, ZenonT(30)
<1>4. reading.phase = "start" /\ reading.shared = s /\ reading.kind = op[w][o].kind
  <2>1. op[w][o] \in OpRecord
    BY <1>0
  <2> HIDE DEF s
  <2> QED
    BY <2>1 DEF OpRecord
<1>5. sharedRefs'[w][s] = IF sharedNow[w] # None THEN sharedRefs[w][sharedNow[w]] + 1 ELSE 1
  BY <1>0, <1>1
<1>6. leases'[w] = IF sharedNow[w] # None THEN leases[w] ELSE leases[w] \cup {<<"read", o>>}
  BY <1>0, <1>1
<1>7. s = IF sharedNow[w] # None THEN sharedNow[w] ELSE o
  OBVIOUS
<1> HIDE DEF s, reading
<1>8. QueueKnown(w)' /\ Queued(op[w][o])
  <2>1. mutations'[w] = Tail(mutations[w])
    BY <1>0, <1>1
  <2> QED
    BY <1>0, <1>1, <2>1, QueueShortened
<1>9. op[w][o].kind = "read" /\ Reads(op'[w][o]) /\ ~Writes(op'[w][o])
  BY <1>3, <1>4, <1>8 DEF Queued, Reads, Writes
<1>10. o \notin Readers(w) /\ o \notin Writers(w)
  BY <1>1 DEF Readers, Writers
<1>11. Readers(w)' = Readers(w) \cup {o} /\ Writers(w)' = Writers(w)
  <2>1. Readers(w)' = Readers(w) \cup {o} /\ Writers(w)' = Writers(w) \ {o}
    BY <1>9, OneHolderMoves
  <2> QED
    BY <1>10, <2>1
<1>12. /\ IsFiniteSet(Readers(w)')
       /\ Cardinality(Readers(w)') = Cardinality(Readers(w)) + 1
       /\ Readers(w) = {} => Cardinality(Readers(w)) = 0
  <2>1. IsFiniteSet(Readers(w))
    BY <1>0 DEF LeaseKnown
  <2>2. /\ IsFiniteSet(Readers(w) \cup {o})
        /\ Cardinality(Readers(w) \cup {o}) = Cardinality(Readers(w)) + 1
    BY <1>10, <2>1, FS_AddElement
  <2>3. Readers(w) = {} => Cardinality(Readers(w)) = 0
    BY <2>1, FS_EmptySet
  <2> QED
    BY <1>11, <2>2, <2>3
<1>13. \A q \in Readers(w)' : op'[w][q].shared = s
  <2>1. op'[w][o].shared = s
    BY <1>3, <1>4
  <2>2. ASSUME NEW q \in Readers(w), q # o PROVE op'[w][q].shared = s
    <3>1. q \in Ops /\ op'[w][q] = op[w][q]
      BY <2>2 DEF Readers
    <3>2. op[w][q].shared = sharedNow[w] /\ sharedNow[w] # None
      BY <1>0, <2>2 DEF LeaseKnown
    <3> QED
      BY <1>2, <3>1, <3>2
  <2> QED
    BY <1>11, <2>1, <2>2
<1>14. sharedRefs'[w][s] = Cardinality(Readers(w)')
  BY <1>0, <1>5, <1>12 DEF LeaseKnown
<1>15. leases'[w] = {<<"write", q>> : q \in Writers(w)} \cup {<<"read", s>>}
  <2>1. CASE Readers(w) = {}
    BY <1>0, <1>6, <1>7, <2>1 DEF LeaseKnown, SharedLease
  <2>2. CASE Readers(w) # {}
    BY <1>0, <1>6, <1>7, <2>2 DEF LeaseKnown, SharedLease
  <2> QED
    BY <2>1, <2>2
<1>16. Readers(w)' # {} /\ s # None
  BY <1>0, <1>2, <1>11
<1>17. LeaseKnown(w)'
  BY <1>2, <1>11, <1>12, <1>13, <1>14, <1>15, <1>16 DEF LeaseKnown, SharedLease
<1> QED
  BY <1>8, <1>17

(* A queued release counts one reader less; the last one ends the lease.   *)
LEMMA ReleaseReadKeepsLeases ==
  ASSUME AuthorityTypeOK, LeasesInv, NEW w \in Workers, NEW o \in Ops, ReleaseRead(w, o),
         \A q \in Ops \ {o} : op'[w][q] = op[w][q]
  PROVE  QueueKnown(w)' /\ LeaseKnown(w)'
<1> DEFINE s == op[w][o].shared
           rest == Readers(w) \ {o}
<1>0. /\ op \in [Workers -> [Ops -> OpRecord]] /\ mutations \in [Workers -> Seq(Ops)]
      /\ leases \in [Workers -> SUBSET ({"read", "write"} \X Ops)]
      /\ sharedNow \in [Workers -> Ops \cup {None}]
      /\ sharedRefs \in [Workers -> [Ops -> Nat]]
      /\ None \notin Ops
      /\ QueueKnown(w) /\ LeaseKnown(w)
  BY AuthorityAssumption DEF AuthorityTypeOK, LeasesInv
<1>1. /\ sharedRefs' = [sharedRefs EXCEPT ![w][s] = IF @ = 0 THEN 0 ELSE @ - 1]
      /\ IF sharedRefs[w][s] > 1
           THEN sharedNow' = sharedNow /\ leases' = leases
           ELSE /\ sharedNow' = [sharedNow EXCEPT ![w] = IF @ = s THEN None ELSE @]
                /\ leases' = [leases EXCEPT ![w] = @ \ {<<"read", s>>}]
      /\ op' = [op EXCEPT ![w][o] = IdleOp]
      /\ op[w][o].phase = "releasing"
      /\ mutations[w] # <<>> /\ Head(mutations[w]) = o
      /\ mutations' = [mutations EXCEPT ![w] = Tail(@)]
  BY DEF ReleaseRead, NextReader, Dequeue, InPhase, Forget
<1>2. QueueKnown(w)' /\ Queued(op[w][o])
  <2>1. mutations'[w] = Tail(mutations[w])
    BY <1>0, <1>1
  <2> QED
    BY <1>0, <1>1, <2>1, QueueShortened
<1>3. o \in Readers(w) /\ o \notin Writers(w)
  BY <1>1, <1>2 DEF Queued, Readers, Writers
<1>4. s = sharedNow[w] /\ s \in Ops /\ sharedRefs[w][s] = Cardinality(Readers(w))
  BY <1>0, <1>3 DEF LeaseKnown
<1>5. Readers(w)' = rest /\ Writers(w)' = Writers(w)
  <2>1. op'[w][o] = IdleOp
    BY <1>0, <1>1
  <2>2. ~Reads(op'[w][o]) /\ ~Writes(op'[w][o])
    BY <2>1 DEF Reads, Writes, IdleOp
  <2>3. Readers(w)' = rest /\ Writers(w)' = Writers(w) \ {o}
    BY <2>2, OneHolderMoves
  <2> QED
    BY <1>3, <2>3
<1>6. /\ IsFiniteSet(rest) /\ Cardinality(rest) = Cardinality(Readers(w)) - 1
      /\ Cardinality(rest) \in Nat
      /\ rest = {} <=> Cardinality(rest) = 0
  <2>1. IsFiniteSet(Readers(w))
    BY <1>0 DEF LeaseKnown
  <2>2. IsFiniteSet(rest) /\ Cardinality(rest) = Cardinality(Readers(w)) - 1
    BY <1>3, <2>1, FS_RemoveElement
  <2> QED
    BY <2>2, FS_EmptySet, FS_CardinalityType
<1>7. \A q \in rest : op'[w][q].shared = s
  <2>1. \A q \in Readers(w) : q \in Ops /\ op[w][q].shared = s
    BY <1>0, <1>4 DEF LeaseKnown, Readers
  <2> QED
    BY <2>1
<1>8. leases[w] = {<<"write", q>> : q \in Writers(w)} \cup {<<"read", s>>}
  BY <1>0, <1>3, <1>4 DEF LeaseKnown, SharedLease
<1>a. sharedRefs'[w][s] = IF sharedRefs[w][s] = 0 THEN 0 ELSE sharedRefs[w][s] - 1
  <2>1. sharedRefs[w] \in [Ops -> Nat]
    BY <1>0
  <2>2. sharedRefs'[w] = [sharedRefs[w] EXCEPT ![s] = IF @ = 0 THEN 0 ELSE @ - 1]
    BY <1>0, <1>1
  <2> HIDE DEF s
  <2> QED
    BY <1>4, <2>1, <2>2
<1>b. IF sharedRefs[w][s] > 1
        THEN sharedNow'[w] = s /\ leases'[w] = leases[w]
        ELSE sharedNow'[w] = None /\ leases'[w] = leases[w] \ {<<"read", s>>}
  BY <1>0, <1>1, <1>4
<1> HIDE DEF s, rest
<1>9. CASE sharedRefs[w][s] > 1
  <2>1. rest # {} /\ sharedRefs'[w][s] = Cardinality(rest)
    BY <1>0, <1>4, <1>6, <1>9, <1>a
  <2>2. sharedNow'[w] = s /\ leases'[w] = leases[w] /\ s # None
    BY <1>0, <1>4, <1>9, <1>b
  <2> QED
    BY <1>2, <1>5, <1>6, <1>7, <1>8, <2>1, <2>2 DEF LeaseKnown, SharedLease
<1>10. CASE ~(sharedRefs[w][s] > 1)
  <2>1. rest = {}
    BY <1>0, <1>4, <1>6, <1>10
  <2>2. sharedNow'[w] = None /\ leases'[w] = leases[w] \ {<<"read", s>>}
    BY <1>10, <1>b
  <2>3. leases'[w] = {<<"write", q>> : q \in Writers(w)}
    BY <1>8, <2>2
  <2> QED
    BY <1>2, <1>5, <1>6, <2>1, <2>2, <2>3 DEF LeaseKnown, SharedLease
<1> QED
  BY <1>9, <1>10

(* Every step of one operation keeps the leases of its Worker exact. *)
LEMMA OpStepKeepsLeases ==
  ASSUME WriterInv, LeasesInv, NEW w \in Workers, NEW o \in Ops,
         OpStep(w, o) \/ Enter(w, o) \/ BodyReturns(w, o) \/ BodyThrows(w, o)
  PROVE  LeasesInv'
<1>0. /\ AuthorityTypeOK
      /\ op \in [Workers -> [Ops -> OpRecord]] /\ worker \in [Workers -> WorkerRecord]
      /\ mutations \in [Workers -> Seq(Ops)]
      /\ leases \in [Workers -> SUBSET ({"read", "write"} \X Ops)]
      /\ QueueKnown(w) /\ LeaseKnown(w) /\ ClaimKnown(w)
  BY DEF WriterInv, AuthorityTypeOK, LeasesInv
<1>1. \A v \in Workers : \A q \in Ops : <<v, q>> # <<w, o>> => op'[v][q] = op[v][q]
  BY <1>0, OneOpMoves
<1>2. \A q \in Ops \ {o} : op'[w][q] = op[w][q]
  BY <1>1
<1>3. \A v \in Workers \ {w} : QueueKnown(v)' /\ LeaseKnown(v)' /\ ClaimKnown(v)'
  <2> SUFFICES ASSUME NEW v \in Workers \ {w}
               PROVE  QueueKnown(v)' /\ LeaseKnown(v)' /\ ClaimKnown(v)'
    OBVIOUS
  <2>1. QueueKnown(v) /\ LeaseKnown(v) /\ ClaimKnown(v) /\ mutations[v] \in Seq(Ops)
    BY <1>0 DEF LeasesInv
  <2>2. /\ leases'[v] = leases[v] /\ sharedNow'[v] = sharedNow[v]
        /\ sharedRefs'[v] = sharedRefs[v] /\ mutations'[v] = mutations[v]
    <3>1. CASE Settle(w, o)
      BY <3>1, <1>0 DEF AuthorityTypeOK, Settle
    <3>2. CASE UNCHANGED <<leases, readVars>>
      BY <3>2 DEF readVars
    <3>3. CASE Admit(w, o)
      BY <3>3, <1>0 DEF AuthorityTypeOK, Admit, Refuse
    <3>4. CASE AcquireWrite(w, o)
      BY <3>4, <1>0 DEF AuthorityTypeOK, AcquireWrite, readVars
    <3>5. CASE AcquireRead(w, o)
      BY <3>5, <1>0 DEF AuthorityTypeOK, AcquireRead, Dequeue
    <3>6. CASE ReleaseRead(w, o)
      BY <3>6, <1>0 DEF AuthorityTypeOK, ReleaseRead, Forget, Dequeue
    <3> QED
      BY <3>1, <3>2, <3>3, <3>4, <3>5, <3>6 DEF OpStep, Enter, CheckClaim, EnsureSession, Start,
         BodyReturns, BodyThrows, Confirm
  <2>3. worker'[v] = worker[v]
    <3>1. CASE CheckClaim(w, o)
      BY <3>1, <1>0 DEF CheckClaim
    <3>2. CASE EnsureSession(w, o)
      BY <3>2, <1>0, SessionGates DEF EnsureSession
    <3> QED
      BY <3>1, <3>2 DEF OpStep, Enter, Admit, AcquireWrite, AcquireRead, ReleaseRead, Start,
         BodyReturns, BodyThrows, Confirm
  <2>4. \A q \in Ops : op'[v][q] = op[v][q]
    BY <1>1
  <2>5. QueueKnown(v)'
    BY <2>1, <2>2, <2>4, QueueSame
  <2>6. LeaseKnown(v)'
    BY <2>1, <2>2, <2>4, HoldersSame
  <2> QED
    BY <2>1, <2>3, <2>5, <2>6 DEF ClaimKnown, Claimed
<1>4. ClaimKnown(w)'
  <2>1. CASE CheckClaim(w, o)
    <3>1. CASE Claimed(w)
      BY <1>0, <2>1, <3>1 DEF CheckClaim, ClaimKnown, Claimed
    <3>2. CASE ~Claimed(w)
      <4> DEFINE record == [worker[w] EXCEPT !.claims = IF @ = 0 THEN 1 ELSE @]
      <4>1. worker' = [worker EXCEPT ![w] = record]
        BY <1>0, <2>1, <3>2 DEF CheckClaim
      <4>2. /\ record.claims = IF worker[w].claims = 0 THEN 1 ELSE worker[w].claims
            /\ record.generation = worker[w].generation
        BY <1>0 DEF WorkerRecord
      <4> HIDE DEF record
      <4> QED
        BY <1>0, <3>2, <4>1, <4>2 DEF ClaimKnown, Claimed
    <3> QED
      BY <3>1, <3>2
  <2>2. CASE EnsureSession(w, o)
    BY <1>0, <2>2, SessionClaims DEF EnsureSession, ClaimKnown, Claimed
  <2>3. CASE ~CheckClaim(w, o) /\ ~EnsureSession(w, o)
    <3>1. worker' = worker
      BY <2>3 DEF OpStep, Enter, Admit, AcquireWrite, AcquireRead, ReleaseRead, Start,
         BodyReturns, BodyThrows, Confirm
    <3> QED
      BY <1>0, <3>1 DEF ClaimKnown, Claimed
  <2> QED
    BY <2>1, <2>2, <2>3
<1>5. QueueKnown(w)' /\ LeaseKnown(w)'
  <2>1. ASSUME UNCHANGED <<leases, readVars>>, Queued(op[w][o]) => Queued(op'[w][o]),
               Reads(op'[w][o]) <=> Reads(op[w][o]), Writes(op'[w][o]) <=> Writes(op[w][o]),
               Reads(op[w][o]) => op'[w][o].shared = op[w][o].shared
        PROVE  QueueKnown(w)' /\ LeaseKnown(w)'
    <3>1. QueueKnown(w)'
      BY <1>0, <1>2, <2>1, QueueSame DEF readVars
    <3>2. LeaseKnown(w)'
      BY <1>0, <1>2, <2>1, HoldersSame DEF readVars
    <3> QED
      BY <3>1, <3>2
  <2>2. CASE Settle(w, o) /\ op[w][o].phase \in {"start", "running", "confirm"}
    BY <1>0, <1>2, <2>2, SettleKeepsLeases
  <2>3. ASSUME UNCHANGED <<leases, readVars>>,
               op[w][o].phase \in {"idle", "check", "session"},
               op'[w][o].phase \in {"check", "tail", "session", "claiming", "admit"}
        PROVE  QueueKnown(w)' /\ LeaseKnown(w)'
    BY <2>1, <2>3 DEF Queued, Reads, Writes
  <2>4. CASE Enter(w, o)
    <3>1. PICK r \in Requests[w][o] :
            op' = [op EXCEPT ![w][o] = [IdleOp EXCEPT
                    !.kind = r[1], !.allow = r[2],
                    !.phase = IF worker[w].claims = 0 THEN "check" ELSE "tail"]]
      BY <2>4 DEF Enter
    <3>2. op'[w][o].phase \in {"check", "tail"}
      BY <3>1, <1>0 DEF IdleOp
    <3> QED
      BY <2>3, <2>4, <3>2 DEF Enter, InPhase
  <2>5. CASE CheckClaim(w, o) \/ EnsureSession(w, o)
    <3>1. PICK phase \in {"session", "claiming", "admit"} : Go(w, o, phase)
      BY <2>5 DEF CheckClaim, EnsureSession
    <3>2. op'[w][o].phase = phase
      BY <1>0, <3>1, GoFacts
    <3> QED
      BY <2>3, <2>5, <3>2 DEF CheckClaim, EnsureSession, InPhase
  <2>6. CASE Admit(w, o)
    <3>1. op[w][o].phase = "admit" /\ UNCHANGED <<leases, sharedNow, sharedRefs>>
      BY <2>6 DEF Admit, InPhase
    <3>2. CASE Admitted(w, o)
      <4> DEFINE phase == IF op[w][o].kind = "plain" THEN "start" ELSE "leasing"
                 gate == worker[w].gate
                 now == worker[w].epoch
                 admitted == [op[w][o] EXCEPT !.gate = gate, !.epoch = now, !.phase = phase]
      <4>1. /\ op' = [op EXCEPT ![w][o] = admitted]
            /\ mutations' = [mutations EXCEPT ![w] =
                               IF op[w][o].kind = "read" THEN Append(@, o) ELSE @]
        BY <2>6, <3>2 DEF Admit
      <4> HIDE DEF gate, now, phase
      <4>2. op[w][o] \in OpRecord
        BY <1>0
      <4>3. admitted.kind = op[w][o].kind /\ admitted.phase = phase
        BY <4>2 DEF OpRecord
      <4> HIDE DEF admitted
      <4>4. op'[w][o].kind = op[w][o].kind /\ op'[w][o].phase = phase
        BY <1>0, <4>1, <4>3
      <4>5. /\ ~Reads(op[w][o]) /\ ~Reads(op'[w][o])
            /\ ~Writes(op[w][o]) /\ ~Writes(op'[w][o]) /\ ~Queued(op[w][o])
            /\ op[w][o].kind = "read" => Queued(op'[w][o])
        BY <3>1, <4>4 DEF Reads, Writes, Queued, phase
      <4>6. LeaseKnown(w)'
        BY <1>0, <1>2, <3>1, <4>5, HoldersSame
      <4>7. CASE op[w][o].kind = "read"
        <5>1. mutations'[w] = Append(mutations[w], o)
          BY <1>0, <4>1, <4>7
        <5> QED
          BY <1>0, <1>2, <4>5, <4>6, <4>7, <5>1, QueueAppended
      <4>8. CASE op[w][o].kind # "read"
        <5>1. mutations'[w] = mutations[w]
          BY <1>0, <4>1, <4>8
        <5> QED
          BY <1>0, <1>2, <4>5, <4>6, <5>1, QueueSame
      <4> QED
        BY <4>7, <4>8
    <3>3. CASE ~Admitted(w, o)
      <4>1. op' = [op EXCEPT ![w][o] = IdleOp] /\ mutations' = mutations
        BY <2>6, <3>3 DEF Admit, Refuse
      <4>2. op'[w][o] = IdleOp
        BY <1>0, <4>1
      <4>3. /\ ~Reads(op[w][o]) /\ ~Reads(op'[w][o])
            /\ ~Writes(op[w][o]) /\ ~Writes(op'[w][o]) /\ ~Queued(op[w][o])
        BY <3>1, <4>2 DEF Reads, Writes, Queued, IdleOp
      <4> QED
        BY <2>1, <3>1, <4>1, <4>3 DEF readVars
    <3> QED
      BY <3>2, <3>3
  <2>7. CASE AcquireWrite(w, o)
    <3>1. /\ op[w][o].phase = "leasing" /\ op[w][o].kind = "write" /\ Go(w, o, "start")
          /\ leases' = [leases EXCEPT ![w] = @ \cup {<<"write", o>>}]
          /\ UNCHANGED readVars
      BY <2>7 DEF AcquireWrite, InPhase
    <3>2. op'[w][o].phase = "start" /\ op'[w][o].kind = "write"
      BY <1>0, <3>1, GoFacts
    <3>3. /\ ~Reads(op[w][o]) /\ ~Reads(op'[w][o]) /\ Writes(op'[w][o]) /\ ~Queued(op[w][o])
      BY <3>1, <3>2 DEF Reads, Writes, Queued
    <3>4. QueueKnown(w)'
      BY <1>0, <1>2, <3>1, <3>3, QueueSame DEF readVars
    <3>5. Readers(w)' = Readers(w) /\ Writers(w)' = Writers(w) \cup {o} /\ o \notin Readers(w)
      <4>1. o \notin Readers(w)
        BY <3>3, HoldersAre
      <4>2. Readers(w)' = Readers(w) \ {o} /\ Writers(w)' = Writers(w) \cup {o}
        BY <1>2, <3>3, OneHolderMoves
      <4> QED
        BY <4>1, <4>2
    <3>6. \A q \in Readers(w) : op'[w][q].shared = op[w][q].shared
      BY <1>2, <3>5, HoldersAre
    <3>7. leases'[w] = leases[w] \cup {<<"write", o>>}
      BY <1>0, <3>1
    <3>8. leases'[w] = {<<"write", q>> : q \in Writers(w)'} \cup SharedLease(w)
      BY <1>0, <3>5, <3>7 DEF LeaseKnown
    <3>9. LeaseKnown(w)'
      BY <1>0, <3>1, <3>5, <3>6, <3>8 DEF LeaseKnown, SharedLease, readVars
    <3> QED
      BY <3>4, <3>9
  <2>8. CASE AcquireRead(w, o)
    BY <1>0, <1>2, <2>8, AcquireReadKeepsLeases
  <2>9. CASE ReleaseRead(w, o)
    BY <1>0, <1>2, <2>9, ReleaseReadKeepsLeases
  <2>10. ASSUME NEW phase \in {"running", "confirm"}, Go(w, o, phase),
                op[w][o].phase \in {"start", "running"}, UNCHANGED <<leases, readVars>>
         PROVE  QueueKnown(w)' /\ LeaseKnown(w)'
    <3>1. /\ op'[w][o].phase = phase /\ op'[w][o].kind = op[w][o].kind
          /\ op'[w][o].shared = op[w][o].shared
      BY <1>0, <2>10, GoFacts
    <3> QED
      BY <2>1, <2>10, <3>1 DEF Queued, Reads, Writes
  <2>11. CASE Start(w, o) \/ BodyReturns(w, o) \/ BodyThrows(w, o) \/ Confirm(w, o)
    BY <2>2, <2>10, <2>11 DEF Start, BodyReturns, BodyThrows, Confirm, InPhase
  <2> QED
    BY <2>4, <2>5, <2>6, <2>7, <2>8, <2>9, <2>11 DEF OpStep
<1> QED
  BY <1>3, <1>4, <1>5 DEF LeasesInv

(* So does every step of a Worker: a claim starts with no lease because no *)
(* operation can hold one without a record, and none outlives its Worker.  *)
LEMMA WorkerStepKeepsLeases ==
  ASSUME WriterInv, LeasesInv, NEW w \in Workers, ClaimStep(w) \/ SessionStep(w)
  PROVE  LeasesInv'
<1>0. /\ AuthorityTypeOK
      /\ op \in [Workers -> [Ops -> OpRecord]] /\ worker \in [Workers -> WorkerRecord]
      /\ leases \in [Workers -> SUBSET ({"read", "write"} \X Ops)]
      /\ sharedNow \in [Workers -> Ops \cup {None}]
      /\ sharedRefs \in [Workers -> [Ops -> Nat]]
      /\ mutations \in [Workers -> Seq(Ops)]
      /\ QueueKnown(w) /\ LeaseKnown(w) /\ ClaimKnown(w)
      /\ worker[w].claims \in Nat
  BY DEF WriterInv, AuthorityTypeOK, LeasesInv, WorkerRecord
<1>1. ASSUME NEW v \in Workers, leases'[v] = leases[v], sharedNow'[v] = sharedNow[v],
             sharedRefs'[v] = sharedRefs[v], mutations'[v] = mutations[v],
             \A q \in Ops : /\ Reads(op'[v][q]) <=> Reads(op[v][q])
                            /\ Writes(op'[v][q]) <=> Writes(op[v][q])
                            /\ Reads(op[v][q]) => op'[v][q].shared = op[v][q].shared
                            /\ Queued(op[v][q]) => Queued(op'[v][q])
      PROVE  QueueKnown(v)' /\ LeaseKnown(v)'
  <2>1. QueueKnown(v) /\ LeaseKnown(v) /\ mutations[v] \in Seq(Ops)
    BY <1>0 DEF LeasesInv
  <2>2. QueueKnown(v)'
    BY <1>1, <2>1, QueueSame
  <2>3. LeaseKnown(v)'
    BY <1>1, <2>1, HoldersSame
  <2> QED
    BY <2>2, <2>3
<1>2. /\ leases \in [Workers -> SUBSET ({"read", "write"} \X Ops)]
      /\ \A v \in Workers \ {w} :
           /\ op'[v] = op[v] /\ worker'[v] = worker[v]
           /\ leases'[v] = leases[v] /\ sharedNow'[v] = sharedNow[v]
           /\ sharedRefs'[v] = sharedRefs[v] /\ mutations'[v] = mutations[v]
  <2>1. CASE ClaimStep(w)
    BY <1>0, <2>1, WorkerMoves DEF ClaimStep, ClaimSucceeds, ClaimFails, readVars
  <2>2. CASE LockCommit(w) \/ LockRevoke(w) \/ Unlock(w) \/ RevokeBinding(w)
    BY <1>0, <2>2, WorkerMoves DEF LockCommit, LockRevoke, Unlock, RevokeBinding, readVars
  <2>3. CASE BindSession(w)
    BY <1>0, <2>3, SessionGates DEF BindSession, readVars
  <2>4. CASE Exit(w)
    BY <1>0, <2>4 DEF Exit
  <2> QED
    BY <1>0, <2>1, <2>2, <2>3, <2>4 DEF SessionStep
<1>3. \A v \in Workers \ {w} : QueueKnown(v)' /\ LeaseKnown(v)' /\ ClaimKnown(v)'
  BY <1>1, <1>2 DEF LeasesInv, ClaimKnown, Claimed
<1>4. QueueKnown(w)' /\ LeaseKnown(w)' /\ ClaimKnown(w)'
  <2>1. CASE ClaimStep(w)
    <3>1. /\ worker[w].claims = 1 /\ ~Claimed(w)
          /\ \A q \in Ops : ~Reads(op[w][q]) /\ ~Writes(op[w][q])
      <4>1. worker[w].claims = 1 /\ ~Claimed(w)
        BY <1>0, <2>1 DEF ClaimStep, ClaimSucceeds, ClaimFails, ClaimKnown
      <4>2. \A q \in Ops : op[w][q].phase \notin PastClaim
        BY <4>1 DEF WriterInv, PastClaimMeansRecord
      <4> QED
        BY <4>1, <4>2 DEF Reads, Writes, PastClaim
    <3>2. Readers(w) = {} /\ Writers(w) = {} /\ leases[w] = {}
      <4>1. Readers(w) = {} /\ Writers(w) = {}
        BY <3>1, HoldersAre
      <4> QED
        BY <1>0, <4>1 DEF LeaseKnown, SharedLease
    <3>3. /\ leases'[w] = leases[w] /\ sharedNow'[w] = sharedNow[w]
          /\ sharedRefs'[w] = sharedRefs[w] /\ mutations'[w] = mutations[w]
      BY <1>0, <2>1, <3>2 DEF ClaimStep, ClaimSucceeds, ClaimFails, readVars
    <3>4. PICK phase \in {"idle", "session"} : op' = [op EXCEPT ![w] = Resumed(w, phase)]
      BY <2>1 DEF ClaimStep, ClaimSucceeds, ClaimFails
    <3>5. \A q \in Ops : /\ Reads(op'[w][q]) <=> Reads(op[w][q])
                         /\ Writes(op'[w][q]) <=> Writes(op[w][q])
                         /\ Reads(op[w][q]) => op'[w][q].shared = op[w][q].shared
                         /\ Queued(op[w][q]) => Queued(op'[w][q])
      <4> SUFFICES ASSUME NEW q \in Ops
                   PROVE  /\ Reads(op'[w][q]) <=> Reads(op[w][q])
                          /\ Writes(op'[w][q]) <=> Writes(op[w][q])
                          /\ Reads(op[w][q]) => op'[w][q].shared = op[w][q].shared
                          /\ Queued(op[w][q]) => Queued(op'[w][q])
        OBVIOUS
      <4>1. op'[w][q] = Resumed(w, phase)[q]
        BY <1>0, <3>4
      <4>2. \/ op'[w][q] = op[w][q]
            \/ /\ op[w][q].phase \in {"claiming", "tail"}
               /\ op'[w][q].phase \in {"idle", "session", "check"}
        BY <1>0, <4>1, ResumedFacts
      <4> QED
        BY <4>2 DEF Reads, Writes, Queued
    <3>6. ClaimKnown(w)'
      BY <1>0, <2>1, <3>1, WorkerMoves DEF ClaimStep, ClaimKnown
    <3> QED
      BY <1>1, <3>3, <3>5, <3>6
  <2>2. CASE LockRevoke(w) \/ RevokeBinding(w)
    <3>1. /\ op' = [op EXCEPT ![w] = CutOff(w)] /\ UNCHANGED <<leases, readVars>>
      BY <2>2 DEF LockRevoke, RevokeBinding
    <3>2. \A q \in Ops : /\ op'[w][q].phase = op[w][q].phase
                         /\ op'[w][q].kind = op[w][q].kind
                         /\ op'[w][q].shared = op[w][q].shared
      BY <1>0, <3>1, CutOffFacts
    <3>3. QueueKnown(w)' /\ LeaseKnown(w)'
      BY <1>1, <3>1, <3>2 DEF Reads, Writes, Queued, readVars
    <3>4. ClaimKnown(w)'
      BY <1>0, <2>2, WorkerMoves DEF ClaimKnown, Claimed
    <3> QED
      BY <3>3, <3>4
  <2>3. CASE LockCommit(w) \/ Unlock(w) \/ BindSession(w)
    <3>1. op' = op /\ UNCHANGED <<leases, readVars>>
      BY <2>3 DEF LockCommit, Unlock, BindSession
    <3>2. QueueKnown(w)' /\ LeaseKnown(w)'
      BY <1>1, <3>1 DEF readVars
    <3>3. ClaimKnown(w)'
      BY <1>0, <2>3, WorkerMoves, SessionClaims DEF BindSession, ClaimKnown, Claimed
    <3> QED
      BY <3>2, <3>3
  <2>4. CASE Exit(w)
    <3>1. /\ worker'[w] = NewWorker /\ leases'[w] = {} /\ sharedNow'[w] = None
          /\ mutations'[w] = <<>> /\ \A q \in Ops : op'[w][q] = IdleOp
      BY <1>0, <2>4 DEF Exit
    <3>2. Readers(w)' = {} /\ Writers(w)' = {}
      BY <3>1 DEF Readers, Writers, IdleOp
    <3>3. QueueKnown(w)' /\ ClaimKnown(w)'
      BY <3>1 DEF QueueKnown, ClaimKnown, NewWorker
    <3>4. LeaseKnown(w)'
      BY <3>1, <3>2, FS_EmptySet DEF LeaseKnown, SharedLease
    <3> QED
      BY <3>3, <3>4
  <2> QED
    BY <2>1, <2>2, <2>3, <2>4 DEF SessionStep
<1> QED
  BY <1>3, <1>4 DEF LeasesInv

LEMMA LeasesInit == Init => LeasesInv
<1> SUFFICES ASSUME Init, NEW w \in Workers
             PROVE  QueueKnown(w) /\ LeaseKnown(w) /\ ClaimKnown(w)
  BY DEF LeasesInv
<1>1. /\ worker[w] = NewWorker /\ leases[w] = {} /\ sharedNow[w] = None
      /\ mutations[w] = <<>> /\ \A q \in Ops : op[w][q] = IdleOp
  BY DEF Init
<1>2. Readers(w) = {} /\ Writers(w) = {}
  BY <1>1 DEF Readers, Writers, IdleOp
<1>3. QueueKnown(w) /\ ClaimKnown(w)
  BY <1>1 DEF QueueKnown, ClaimKnown, NewWorker
<1>4. LeaseKnown(w)
  BY <1>1, <1>2, FS_EmptySet DEF LeaseKnown, SharedLease
<1> QED
  BY <1>3, <1>4

(* LeasesExact: however the readers and writers of a Worker join, finish   *)
(* late, are cut off or lose their Worker, its record lists the leases in  *)
(* use and no others, and the shared one counts its readers.               *)
THEOREM LeasesAreExact == Spec => []LeasesExact
<1>1. LeasesInv => LeasesExact
  <2> SUFFICES ASSUME LeasesInv, NEW w \in Workers
               PROVE  /\ leases[w] = {<<"write", o>> : o \in Writers(w)}
                                     \cup {<<"read", op[w][o].shared>> : o \in Readers(w)}
                      /\ Readers(w) = {} => sharedNow[w] = None
                      /\ \A o \in Readers(w) :
                           /\ op[w][o].shared = sharedNow[w]
                           /\ sharedRefs[w][sharedNow[w]] = Cardinality(Readers(w))
    BY Zenon DEF LeasesExact
  <2>1. LeaseKnown(w)
    BY DEF LeasesInv
  <2>2. {<<"read", op[w][o].shared>> : o \in Readers(w)} = SharedLease(w)
    BY <2>1 DEF LeaseKnown, SharedLease
  <2> QED
    BY <2>1, <2>2 DEF LeaseKnown
<1>2. WriterInv /\ LeasesInv /\ [Next]_authorityVars => LeasesInv'
  <2> SUFFICES ASSUME WriterInv, LeasesInv, [Next]_authorityVars PROVE LeasesInv'
    OBVIOUS
  <2>1. CASE UNCHANGED authorityVars
    <3> SUFFICES ASSUME NEW v \in Workers
                 PROVE  QueueKnown(v)' /\ LeaseKnown(v)' /\ ClaimKnown(v)'
      BY DEF LeasesInv
    <3>1. QueueKnown(v) /\ LeaseKnown(v) /\ ClaimKnown(v) /\ mutations[v] \in Seq(Ops)
      BY DEF LeasesInv, WriterInv, AuthorityTypeOK
    <3>2. /\ worker' = worker /\ op' = op /\ leases' = leases /\ sharedNow' = sharedNow
          /\ sharedRefs' = sharedRefs /\ mutations' = mutations
      BY <2>1 DEF authorityVars
    <3>3. QueueKnown(v)' /\ ClaimKnown(v)'
      BY <3>1, <3>2 DEF QueueKnown, ClaimKnown, Claimed
    <3>4. LeaseKnown(v)'
      BY <3>1, <3>2, HoldersSame
    <3> QED
      BY <3>3, <3>4
  <2>2. CASE Next
    BY <2>2, OpStepKeepsLeases, WorkerStepKeepsLeases DEF Next
  <2> QED
    BY <2>1, <2>2
<1> QED
  BY <1>1, <1>2, LeasesInit, WriterInit, WriterStep, PTL DEF Spec

-----------------------------------------------------------------------------
(* Topics *)

(* The topics of which a page is promised the last publication. *)
Promised == {"session", "storage"}

Item == [topic : Topics \cup {"response", "end"}, revision : Nat, epoch : Nat]
Projection == [state : {"off", "connected"}, epoch : Nat, units : Int, session : Int,
               revision : [Topics -> Int], deferred : SUBSET Item]

TopicsTyped ==
    /\ epoch \in Nat /\ losses \in Nat
    /\ published \in [Topics -> Item]
    /\ \A t \in Topics : published[t].topic = t
    /\ stream \in {"none", "opening", "live", "overflowed", "ended"}
    /\ baselines \in Seq(Item) /\ port \in Seq(Item)
    /\ queue \in Seq(Item) /\ Len(queue) <= QueueLimit
    /\ page \in Projection

(* Nothing on its way, and nothing shown, is newer than the last publication. *)
Published(s) ==
    \A i \in 1..Len(s) :
        s[i].topic \in Promised => s[i].revision <= published[s[i].topic].revision

TopicsInv ==
    /\ TopicsTyped
    /\ Published(port) /\ Published(baselines) /\ Published(queue)
    /\ \A t \in Promised : page.revision[t] <= published[t].revision
    /\ page.state = "off" => \A t \in Promised : page.revision[t] = -1
    /\ NoLostUpdate

Waits(s, t, n) == \E i \in 1..Len(s) : s[i].topic = t /\ s[i].revision = n

LEMMA ConcatWaits ==
    ASSUME NEW a \in Seq(Item), NEW b \in Seq(Item), NEW t, NEW n
    PROVE  Waits(a \o b, t, n) <=> Waits(a, t, n) \/ Waits(b, t, n)
<1> DEFINE all == a \o b
<1>1. /\ Len(a) \in Nat /\ Len(b) \in Nat /\ Len(all) = Len(a) + Len(b)
      /\ \A i \in 1..Len(all) : all[i] = IF i <= Len(a) THEN a[i] ELSE b[i - Len(a)]
  OBVIOUS
<1> HIDE DEF all
<1>2. ASSUME NEW i \in 1..Len(a) PROVE i \in 1..Len(all) /\ all[i] = a[i]
  BY <1>1
<1>3. ASSUME NEW i \in 1..Len(b)
      PROVE  Len(a) + i \in 1..Len(all) /\ all[Len(a) + i] = b[i]
  BY <1>1
<1>4. ASSUME NEW i \in 1..Len(all)
      PROVE  \/ i \in 1..Len(a) /\ all[i] = a[i]
             \/ i - Len(a) \in 1..Len(b) /\ all[i] = b[i - Len(a)]
  BY <1>1
<1>5. Waits(all, t, n) => Waits(a, t, n) \/ Waits(b, t, n)
  BY <1>4 DEF Waits
<1>6. Waits(a, t, n) \/ Waits(b, t, n) => Waits(all, t, n)
  BY <1>2, <1>3 DEF Waits
<1> QED BY <1>5, <1>6 DEF all

LEMMA TransitIs ==
    ASSUME NEW a \in Seq(Item), NEW b \in Seq(Item), NEW c \in Seq(Item), NEW t, NEW n
    PROVE  (\E e \in ToSet(a \o b \o c) : e.topic = t /\ e.revision = n)
               <=> Waits(a, t, n) \/ Waits(b, t, n) \/ Waits(c, t, n)
<1> DEFINE front == a \o b
           all == front \o c
<1>1. front \in Seq(Item) /\ all \in Seq(Item)
  OBVIOUS
<1>2. Waits(front, t, n) <=> Waits(a, t, n) \/ Waits(b, t, n)
  BY ConcatWaits
<1>3. Waits(all, t, n) <=> Waits(front, t, n) \/ Waits(c, t, n)
  BY <1>1, ConcatWaits
<1> HIDE DEF all
<1>5. DOMAIN all = 1..Len(all)
  BY <1>1
<1>6. (\E e \in ToSet(all) : e.topic = t /\ e.revision = n) <=> Waits(all, t, n)
  BY <1>5, Zenon DEF Waits, ToSet
<1> QED
  BY <1>2, <1>3, <1>6 DEF all

(* Of the promised topics, applying an event changes the one it is about, *)
(* and only to what is newer.                                             *)
LEMMA AppliedFacts ==
    ASSUME NEW pg \in Projection, NEW e \in Item, e.topic \in Topics
    PROVE  /\ Applied(pg, e) \in Projection
           /\ Applied(pg, e).state = pg.state
           /\ \A t \in Promised :
                Applied(pg, e).revision[t] =
                    IF e.topic = t /\ e.revision > pg.revision[t] THEN e.revision ELSE pg.revision[t]
<1> DEFINE Fits(r) == /\ r \in Projection /\ r.state = pg.state
                      /\ \A t \in Promised : r.revision[t] = pg.revision[t]
<1>1. Fits(pg)
  OBVIOUS
<1>2. Fits(Deferred(pg, e))
  BY DEF Deferred, Projection, Promised
<1>3. ASSUME NEW q \in Projection, Fits(q), NEW d \in Item PROVE Fits(ShowUnits(q, d))
  <2> DEFINE R == [q.revision EXCEPT !["units"] = d.revision]
  <2>1. R \in [Topics -> Int] /\ \A t \in Promised : R[t] = q.revision[t]
    BY DEF Projection, Promised, Topics, Item
  <2>2. ShowUnits(q, d) = [q EXCEPT !.revision = R, !.units = d.epoch]
    BY DEF ShowUnits
  <2>3. d.epoch \in Int
    BY DEF Item
  <2> HIDE DEF R
  <2> QED BY <1>3, <2>1, <2>2, <2>3 DEF Projection
<1>4. Fits(EnterEpoch(pg, e))
  <2> DEFINE entered == [pg EXCEPT !.epoch = e.epoch, !.units = -1, !.revision["units"] = -1,
                              !.deferred = {}]
             R == [pg.revision EXCEPT !["units"] = -1]
             waiting == {d \in pg.deferred : d.epoch = e.epoch}
  <2>1. Fits(entered)
    <3>1. R \in [Topics -> Int] /\ \A t \in Promised : R[t] = pg.revision[t]
      BY DEF Projection, Promised, Topics
    <3> DEFINE z == [pg EXCEPT !.epoch = e.epoch]
               a == [z EXCEPT !.units = -1]
               b == [a EXCEPT !.revision = R]
               c == [b EXCEPT !.deferred = {}]
    <3>2. entered = c
      OBVIOUS
    <3> HIDE DEF R, entered
    <3>5. Fits(z)
      BY DEF Projection, Item
    <3> HIDE DEF z
    <3>3. Fits(a)
      BY <3>5 DEF Projection
    <3> HIDE DEF a
    <3>4. Fits(b)
      BY <3>1, <3>3 DEF Projection
    <3> HIDE DEF b
    <3> QED BY <3>2, <3>4 DEF Projection
  <2>2. waiting \subseteq Item
    BY DEF Projection
  <2>3. waiting # {} => (CHOOSE d \in waiting : TRUE) \in Item
    BY <2>2
  <2> HIDE DEF entered
  <2>4. waiting # {} => Fits(ShowUnits(entered, CHOOSE d \in waiting : TRUE))
    BY <2>1, <2>3, <1>3
  <2> QED BY <1>1, <2>1, <2>4 DEF EnterEpoch, entered
<1> QED
  <2>0. /\ e.revision \in Nat /\ e.epoch \in Nat /\ "units" \notin Promised
        /\ Promised \subseteq Topics /\ pg.revision \in [Topics -> Int]
    BY DEF Item, Projection, Promised, Topics
  <2>1. CASE e.topic = "units"
    BY <2>0, <2>1, <1>1, <1>2, <1>3 DEF Applied
  <2>2. CASE e.topic # "units" /\ e.revision <= pg.revision[e.topic]
    BY <2>0, <2>2, <1>1 DEF Applied
  <2>3. CASE e.topic = "session" /\ ~(e.revision <= pg.revision["session"])
    <3> DEFINE q == EnterEpoch(pg, e)
               R == [q.revision EXCEPT !["session"] = e.revision]
               a == [q EXCEPT !.revision = R]
    <3>1. Fits(q)
      BY <1>4
    <3>2. Applied(pg, e) = [a EXCEPT !.session = e.epoch]
      BY <2>3 DEF Applied
    <3> HIDE DEF q
    <3>3. /\ R \in [Topics -> Int] /\ R["session"] = e.revision
          /\ R["storage"] = q.revision["storage"]
      BY <2>0, <3>1 DEF Projection, Topics
    <3> HIDE DEF R
    <3>4. a \in Projection /\ a.state = pg.state /\ a.revision = R
      BY <3>1, <3>3 DEF Projection
    <3> HIDE DEF a
    <3>5. /\ Applied(pg, e) \in Projection /\ Applied(pg, e).state = pg.state
          /\ Applied(pg, e).revision = R
      BY <2>0, <3>2, <3>4 DEF Projection
    <3> QED BY <2>0, <2>3, <3>1, <3>3, <3>5 DEF Promised
  <2>4. CASE e.topic = "storage" /\ ~(e.revision <= pg.revision["storage"])
    <3> DEFINE R == [pg.revision EXCEPT !["storage"] = e.revision]
    <3>1. Applied(pg, e) = [pg EXCEPT !.revision = R]
      BY <2>4 DEF Applied
    <3>3. /\ R \in [Topics -> Int] /\ R["storage"] = e.revision
          /\ R["session"] = pg.revision["session"]
      BY <2>0 DEF Projection, Topics
    <3> HIDE DEF R
    <3> QED BY <2>0, <2>4, <3>1, <3>3 DEF Promised, Projection
  <2> QED BY <2>1, <2>2, <2>3, <2>4 DEF Topics, Item, Projection

-----------------------------------------------------------------------------
LEMMA PublishedGrows ==
    ASSUME NEW s \in Seq(Item), Published(s), published \in [Topics -> Item],
           published' \in [Topics -> Item],
           \A t \in Promised : published[t].revision <= published'[t].revision
    PROVE  \A i \in 1..Len(s) :
               s[i].topic \in Promised => s[i].revision <= published'[s[i].topic].revision
<1> SUFFICES ASSUME NEW i \in 1..Len(s), s[i].topic \in Promised
             PROVE  s[i].revision <= published'[s[i].topic].revision
  OBVIOUS
<1> DEFINE t == s[i].topic
<1>1. s[i] \in Item /\ t \in Topics
  BY DEF Promised, Topics
<1>2. s[i].revision <= published[t].revision /\ published[t].revision <= published'[t].revision
  BY DEF Published
<1>3. s[i].revision \in Nat /\ published[t].revision \in Nat /\ published'[t].revision \in Nat
  BY <1>1 DEF Item
<1> HIDE DEF t
<1>4. s[i].revision <= published'[t].revision
  BY <1>2, <1>3
<1> QED BY <1>4 DEF t

(* What is appended to a stream is in it with the rest. *)
LEMMA AppendedWaits ==
    ASSUME NEW s \in Seq(Item), NEW e \in Item
    PROVE  /\ Append(s, e) \in Seq(Item) /\ Len(Append(s, e)) = Len(s) + 1
           /\ \A i \in 1..Len(Append(s, e)) :
                   (i \in 1..Len(s) /\ Append(s, e)[i] = s[i]) \/ Append(s, e)[i] = e
           /\ Waits(Append(s, e), e.topic, e.revision)
           /\ \A t, n : Waits(s, t, n) => Waits(Append(s, e), t, n)
<1> DEFINE q == Append(s, e)
<1>1. /\ q \in Seq(Item) /\ Len(q) = Len(s) + 1 /\ Len(s) \in Nat
      /\ q[Len(s) + 1] = e /\ \A i \in 1..Len(s) : q[i] = s[i]
  OBVIOUS
<1> HIDE DEF q
<1>2. \A i \in 1..Len(q) : (i \in 1..Len(s) /\ q[i] = s[i]) \/ q[i] = e
  BY <1>1
<1>3. Waits(q, e.topic, e.revision)
  BY <1>1 DEF Waits
<1>4. \A t, n : Waits(s, t, n) => Waits(q, t, n)
  <2>1. \A i \in 1..Len(s) : i \in 1..Len(q)
    BY <1>1
  <2> QED BY <1>1, <2>1 DEF Waits
<1> QED BY <1>1, <1>2, <1>3, <1>4 DEF q

(* What is taken from a stream is its first item. *)
LEMMA TakenWaits ==
    ASSUME NEW s \in Seq(Item), s # <<>>
    PROVE  /\ Head(s) \in Item /\ Head(s) = s[1] /\ 1 \in 1..Len(s)
           /\ Tail(s) \in Seq(Item) /\ Len(Tail(s)) <= Len(s)
           /\ \A i \in 1..Len(Tail(s)) : i + 1 \in 1..Len(s) /\ Tail(s)[i] = s[i + 1]
           /\ \A t, n : Waits(s, t, n) => \/ Head(s).topic = t /\ Head(s).revision = n
                                         \/ Waits(Tail(s), t, n)
<1> DEFINE q == Tail(s)
<1>1. /\ Head(s) \in Item /\ Head(s) = s[1] /\ Len(s) \in Nat /\ Len(s) >= 1
      /\ q \in Seq(Item) /\ Len(q) = Len(s) - 1
      /\ \A i \in 1..Len(q) : q[i] = s[i + 1]
  OBVIOUS
<1> HIDE DEF q
<1>2. ASSUME NEW i \in 1..Len(s) PROVE i = 1 \/ (i - 1 \in 1..Len(q) /\ q[i - 1] = s[i])
  BY <1>1
<1>3. ASSUME NEW t, NEW n, Waits(s, t, n)
      PROVE  (Head(s).topic = t /\ Head(s).revision = n) \/ Waits(q, t, n)
  BY <1>1, <1>2, <1>3 DEF Waits
<1>4. \A i \in 1..Len(q) : i + 1 \in 1..Len(s)
  BY <1>1
<1> QED BY <1>1, <1>3, <1>4 DEF q

(* A publication reaches the queue of a stream that stays live, and drives *)
(* nothing out of it but an older one of its topic.                        *)
LEMMA EnqueueFacts ==
    ASSUME queue \in Seq(Item), Len(queue) <= QueueLimit,
           stream \in {"none", "opening", "live", "overflowed", "ended"},
           NEW e \in Item, Enqueue(e)
    PROVE  /\ queue' \in Seq(Item) /\ Len(queue') <= QueueLimit
           /\ stream' \in {"none", "opening", "live", "overflowed", "ended"}
           /\ stream' = "live" => stream = "live"
           /\ \A i \in 1..Len(queue') :
                   (i \in 1..Len(queue) /\ queue'[i] = queue[i]) \/ queue'[i] = e
           /\ stream' = "live" =>
                 /\ Waits(queue', e.topic, e.revision)
                 /\ \A t \in Promised : \A n : t # e.topic /\ Waits(queue, t, n) => Waits(queue', t, n)
<1>0. QueueLimit \in Nat \ {0}
  BY TopicsAssumption
<1>1. CASE UNCHANGED <<stream, queue>> /\ stream # "live"
  <2>1. queue' = queue /\ stream' = stream /\ stream # "live"
    BY <1>1
  <2> HIDE <1>1
  <2> QED BY <2>1
<1>2. CASE Coalesces(e) /\ queue' = Front(queue) \o <<e>> /\ UNCHANGED stream
  <2> DEFINE f == Front(queue)
  <2>1. /\ f \in Seq(Item) /\ Len(queue) \in Nat /\ Len(queue) >= 1 /\ Len(f) = Len(queue) - 1
        /\ \A i \in 1..Len(f) : f[i] = queue[i]
    BY <1>2 DEF Front, Coalesces
  <2>2. queue' = Append(f, e)
    BY <1>2, <2>1
  <2>3. e.topic = "storage" /\ queue[Len(queue)].topic = "storage"
    BY <1>2 DEF Coalesces, Last
  <2> HIDE DEF f
  <2>4. \A i \in 1..Len(f) : i \in 1..Len(queue)
    BY <2>1
  <2>5. ASSUME NEW t, NEW n, t # e.topic, Waits(queue, t, n) PROVE Waits(f, t, n)
    <3>1. \A i \in 1..Len(queue) : i \in 1..Len(f) \/ i = Len(queue)
      BY <2>1
    <3> QED BY <2>1, <2>3, <2>5, <3>1 DEF Waits
  <2>6. /\ queue' \in Seq(Item) /\ Len(queue') = Len(f) + 1
        /\ \A i \in 1..Len(queue') : (i \in 1..Len(f) /\ queue'[i] = f[i]) \/ queue'[i] = e
        /\ Waits(queue', e.topic, e.revision)
        /\ \A t, n : Waits(f, t, n) => Waits(queue', t, n)
    BY <2>1, <2>2, AppendedWaits
  <2>7. Len(queue') <= QueueLimit
    BY <1>0, <2>1, <2>6
  <2>8. \A i \in 1..Len(queue') : (i \in 1..Len(queue) /\ queue'[i] = queue[i]) \/ queue'[i] = e
    BY <2>1, <2>4, <2>6
  <2> QED BY <1>2, <2>5, <2>6, <2>7, <2>8
<1>3. CASE stream' = "overflowed" /\ queue' = <<>>
  BY <1>0, <1>3
<1>4. CASE Len(queue) < QueueLimit /\ queue' = Append(queue, e) /\ UNCHANGED stream
  <2>1. /\ queue' \in Seq(Item) /\ Len(queue') = Len(queue) + 1
        /\ \A i \in 1..Len(queue') : (i \in 1..Len(queue) /\ queue'[i] = queue[i]) \/ queue'[i] = e
        /\ Waits(queue', e.topic, e.revision)
        /\ \A t, n : Waits(queue, t, n) => Waits(queue', t, n)
    BY <1>4, AppendedWaits
  <2>2. Len(queue) \in Nat
    OBVIOUS
  <2> QED BY <1>0, <1>4, <2>1, <2>2
<1> QED
  <2>1. Len(queue) >= QueueLimit \/ Len(queue) < QueueLimit
    BY <1>0
  <2> QED BY <1>1, <1>2, <1>3, <1>4, <2>1 DEF Enqueue

LEMMA TopicsInitKeeps == ASSUME TopicsInit PROVE TopicsInv
<1>1. \A t \in Topics : Event0(t) \in Item /\ Event0(t).topic = t /\ Event0(t).revision = 0
  BY DEF Event0, Item
<1>2. OffPage \in Projection
  <2>1. [t \in Topics |-> -1] \in [Topics -> Int]
    OBVIOUS
  <2> QED BY <2>1 DEF OffPage, Projection
<1>3. published \in [Topics -> Item] /\ \A t \in Topics : published[t].topic = t
  BY <1>1 DEF TopicsInit
<1>4. \A t \in Promised : page.revision[t] = -1 /\ published[t].revision = 0
  BY <1>1 DEF TopicsInit, OffPage, Promised, Topics
<1>5. TopicsTyped
  BY <1>2, <1>3, TopicsAssumption DEF TopicsInit, TopicsTyped
<1>6. Published(port) /\ Published(baselines) /\ Published(queue)
  BY DEF TopicsInit, Published
<1>7. NoLostUpdate
  BY DEF TopicsInit, NoLostUpdate
<1>8. \A t \in Promised : page.revision[t] <= published[t].revision
  BY <1>4
<1> QED BY <1>4, <1>5, <1>6, <1>7, <1>8 DEF TopicsInv

(* What the invariant says of one of the promised topics. *)
Shown(t) ==
    \/ page.revision[t] = published[t].revision
    \/ Waits(port, t, published[t].revision)
    \/ Waits(baselines, t, published[t].revision)
    \/ Waits(queue, t, published[t].revision)

LEMMA ShownIs ==
    ASSUME port \in Seq(Item), baselines \in Seq(Item), queue \in Seq(Item)
    PROVE  NoLostUpdate <=>
               (stream = "live" /\ page.state = "connected" => \A t \in Promised : Shown(t))
<1>1. \A t, n : InTransit(t, n) <=> Waits(port, t, n) \/ Waits(baselines, t, n) \/ Waits(queue, t, n)
  BY TransitIs, Zenon DEF InTransit
<1> QED BY <1>1, Zenon DEF NoLostUpdate, Shown, Promised

LEMMA ShownWillBe ==
    ASSUME port' \in Seq(Item), baselines' \in Seq(Item), queue' \in Seq(Item),
           stream' = "live" /\ page'.state = "connected" => \A t \in Promised : Shown(t)'
    PROVE  NoLostUpdate'
<1>1. \A t, n : InTransit(t, n)' <=> Waits(port', t, n) \/ Waits(baselines', t, n) \/ Waits(queue', t, n)
  BY TransitIs, Zenon DEF InTransit
<1> QED BY <1>1, Zenon DEF NoLostUpdate, Shown, Promised

LEMMA PublishKeeps ==
    ASSUME TopicsInv, NEW topic \in Topics, Publish(topic)
    PROVE  TopicsInv'
<1> DEFINE e == [topic |-> topic, revision |-> published[topic].revision + 1, epoch |-> epoch]
<1>1. /\ e \in Item /\ e.topic = topic /\ published[topic].revision \in Nat
      /\ e.revision = published[topic].revision + 1
  BY DEF TopicsInv, TopicsTyped, Item
<1>2. /\ published' = [published EXCEPT ![topic] = e] /\ Enqueue(e)
      /\ UNCHANGED <<epoch, baselines, port, page, losses>>
  BY DEF Publish
<1> HIDE DEF e
<1>3. /\ published \in [Topics -> Item] /\ published' \in [Topics -> Item]
      /\ published'[topic] = e
      /\ \A t \in Topics : t # topic => published'[t] = published[t]
      /\ \A t \in Topics : published[t].topic = t
      /\ \A t \in Topics : published[t].revision \in Nat
  BY <1>1, <1>2 DEF TopicsInv, TopicsTyped, Item
<1>4. \A t \in Topics : published[t].revision <= published'[t].revision /\ published'[t].topic = t
  BY <1>1, <1>3
<1>5. /\ queue \in Seq(Item) /\ port \in Seq(Item) /\ baselines \in Seq(Item)
      /\ Len(queue) <= QueueLimit
      /\ stream \in {"none", "opening", "live", "overflowed", "ended"}
  BY DEF TopicsInv, TopicsTyped
<1>6. /\ queue' \in Seq(Item) /\ Len(queue') <= QueueLimit
      /\ stream' \in {"none", "opening", "live", "overflowed", "ended"}
      /\ stream' = "live" => stream = "live"
      /\ \A i \in 1..Len(queue') :
              (i \in 1..Len(queue) /\ queue'[i] = queue[i]) \/ queue'[i] = e
      /\ stream' = "live" =>
            /\ Waits(queue', e.topic, e.revision)
            /\ \A t \in Promised : \A n : t # e.topic /\ Waits(queue, t, n) => Waits(queue', t, n)
  BY <1>1, <1>2, <1>5, EnqueueFacts
<1>7. TopicsTyped'
  BY <1>2, <1>3, <1>4, <1>5, <1>6 DEF TopicsInv, TopicsTyped
<1>8. Promised \subseteq Topics
  BY DEF Promised, Topics
<1>9. Published(port)' /\ Published(baselines)'
  BY <1>2, <1>3, <1>4, <1>5, <1>8, PublishedGrows DEF TopicsInv, Published
<1>10. Published(queue)'
  <2>1. \A i \in 1..Len(queue) :
           queue[i].topic \in Promised => queue[i].revision <= published'[queue[i].topic].revision
    BY <1>3, <1>4, <1>5, <1>8, PublishedGrows DEF TopicsInv
  <2>2. e.revision <= published'[e.topic].revision
    BY <1>1, <1>3
  <2> QED BY <1>6, <2>1, <2>2 DEF Published
<1>11. \A t \in Promised : page'.revision[t] <= published'[t].revision
  <2>1. \A t \in Promised : page.revision[t] \in Int /\ published'[t].revision \in Nat
    BY <1>3, <1>8 DEF TopicsInv, TopicsTyped, Projection, Item
  <2> QED BY <1>2, <1>3, <1>4, <1>8, <2>1 DEF TopicsInv
<1>12. NoLostUpdate'
  <2>1. stream' = "live" /\ page'.state = "connected" => \A t \in Promised : Shown(t)
    BY <1>2, <1>5, <1>6, ShownIs DEF TopicsInv
  <2>2. ASSUME stream' = "live", page'.state = "connected", NEW t \in Promised PROVE Shown(t)'
    <3>1. CASE t = topic
      BY <1>1, <1>3, <1>6, <2>2, <3>1 DEF Shown
    <3>2. CASE t # topic
      <4>1. published'[t] = published[t] /\ page' = page /\ port' = port /\ baselines' = baselines
        BY <1>2, <1>3, <1>8, <3>2
      <4>2. Shown(t)
        BY <2>1, <2>2
      <4> QED BY <1>1, <1>6, <2>2, <3>2, <4>1, <4>2 DEF Shown
    <3> QED BY <3>1, <3>2
  <2>3. port' \in Seq(Item) /\ baselines' \in Seq(Item)
    BY <1>2, <1>5
  <2> QED BY <1>6, <2>2, <2>3, ShownWillBe
<1>13. page'.state = "off" => \A t \in Promised : page'.revision[t] = -1
  BY <1>2 DEF TopicsInv
<1> QED BY <1>7, <1>9, <1>10, <1>11, <1>12, <1>13 DEF TopicsInv

(* A step that sends nothing new keeps the invariant if what was on its way *)
(* still is, or was shown.                                                  *)
LEMMA MovesKeep ==
    ASSUME TopicsInv, UNCHANGED published, TopicsTyped',
           Published(port)', Published(baselines)', Published(queue)',
           \A t \in Promised : page'.revision[t] <= published[t].revision,
           page'.state = "off" => \A t \in Promised : page'.revision[t] = -1,
           stream' = "live" /\ page'.state = "connected" => \A t \in Promised : Shown(t)'
    PROVE  TopicsInv'
<1>1. NoLostUpdate'
  BY ShownWillBe DEF TopicsTyped
<1> QED BY <1>1 DEF TopicsInv

(* What of the invariant no move of events touches.                        *)
LEMMA TypesAre ==
    ASSUME TopicsInv
    PROVE  /\ TopicsTyped
           /\ queue \in Seq(Item) /\ port \in Seq(Item) /\ baselines \in Seq(Item)
           /\ Published(port) /\ Published(baselines) /\ Published(queue)
           /\ page \in Projection
           /\ \A t \in Promised : page.revision[t] <= published[t].revision
           /\ page.state = "off" => \A t \in Promised : page.revision[t] = -1
           /\ stream = "live" /\ page.state = "connected" => \A t \in Promised : Shown(t)
  BY ShownIs DEF TopicsInv, TopicsTyped

LEMMA RotateEpochKeeps == ASSUME TopicsInv, RotateEpoch PROVE TopicsInv'
<1>1. TopicsTyped'
  BY TypesAre DEF RotateEpoch, TopicsTyped
<1> QED BY <1>1, TypesAre, MovesKeep DEF RotateEpoch, Published, Shown, Waits

LEMMA DisconnectedFacts ==
    ASSUME TopicsInv
    PROVE  /\ Disconnected \in Projection /\ Disconnected.state = "off"
           /\ \A t \in Promised : Disconnected.revision[t] = -1
<1> DEFINE R == [t \in Topics |-> IF t = "units" THEN page.revision[t] ELSE -1]
           a == [page EXCEPT !.state = "off"]
           b == [a EXCEPT !.deferred = {}]
           c == [b EXCEPT !.session = -1]
<1>1. R \in [Topics -> Int] /\ \A t \in Promised : R[t] = -1
  BY TypesAre DEF Projection, Promised, Topics
<1>2. Disconnected = [c EXCEPT !.revision = R]
  BY TypesAre DEF Disconnected, Projection
<1> HIDE DEF R
<1>3. a \in Projection /\ a.state = "off"
  BY TypesAre DEF Projection
<1> HIDE DEF a
<1>4. b \in Projection /\ b.state = "off"
  BY <1>3 DEF Projection
<1> HIDE DEF b
<1>5. c \in Projection /\ c.state = "off"
  BY <1>4 DEF Projection
<1> HIDE DEF c
<1> QED BY <1>1, <1>2, <1>5 DEF Projection

LEMMA DisconnectKeeps ==
    ASSUME TopicsInv, Disconnect,
           \/ UNCHANGED <<epoch, published>>
           \/ /\ epoch' = epoch + 1
              /\ published' = [t \in Topics |-> [Event0(t) EXCEPT !.epoch = epoch + 1]]
    PROVE  TopicsInv'
<1>1. /\ page' \in Projection /\ page'.state = "off"
      /\ \A t \in Promised : page'.revision[t] = -1
      /\ stream' = "none" /\ port' = <<>> /\ baselines' = <<>> /\ queue' = <<>>
      /\ losses' = losses + 1
  BY DisconnectedFacts DEF Disconnect
<1>2. /\ published' \in [Topics -> Item] /\ epoch' \in Nat
      /\ \A t \in Topics : published'[t].topic = t /\ published'[t].revision \in Nat
  <2>1. CASE UNCHANGED <<epoch, published>>
    BY <2>1 DEF TopicsInv, TopicsTyped, Item
  <2>2. CASE /\ epoch' = epoch + 1
             /\ published' = [t \in Topics |-> [Event0(t) EXCEPT !.epoch = epoch + 1]]
    <3>1. epoch + 1 \in Nat
      BY DEF TopicsInv, TopicsTyped
    <3>2. ASSUME NEW t \in Topics
          PROVE  [Event0(t) EXCEPT !.epoch = epoch + 1]
                     = [topic |-> t, revision |-> 0, epoch |-> epoch + 1]
      BY DEF Event0
    <3>3. published' = [t \in Topics |-> [topic |-> t, revision |-> 0, epoch |-> epoch + 1]]
      BY <2>2, <3>2
    <3> QED BY <2>2, <3>1, <3>3 DEF Item
  <2> QED BY <2>1, <2>2
<1>3. TopicsTyped'
  BY <1>1, <1>2, TopicsAssumption DEF TopicsInv, TopicsTyped
<1>4. \A t \in Promised : page'.revision[t] <= published'[t].revision
  BY <1>1, <1>2 DEF Promised, Topics
<1>5. Published(port)' /\ Published(baselines)' /\ Published(queue)'
  BY <1>1 DEF Published
<1>6. NoLostUpdate'
  BY <1>1 DEF NoLostUpdate
<1> QED BY <1>1, <1>3, <1>4, <1>5, <1>6 DEF TopicsInv

LEMMA SendHelloKeeps == ASSUME TopicsInv, SendHello PROVE TopicsInv'
<1> DEFINE R == [page.revision EXCEPT !["units"] = published["units"].revision]
           a == [page EXCEPT !.state = "connected"]
           b == [a EXCEPT !.epoch = epoch]
           c == [b EXCEPT !.units = epoch]
<1>1. R \in [Topics -> Int] /\ \A t \in Promised : R[t] = page.revision[t]
  BY TypesAre DEF TopicsTyped, Projection, Promised, Topics, Item
<1>2. page' = [c EXCEPT !.revision = R]
  BY TypesAre DEF SendHello, Projection
<1> HIDE DEF R
<1>0. epoch \in Nat
  BY TypesAre DEF TopicsTyped
<1>3. a \in Projection /\ a.state = "connected"
  BY TypesAre DEF Projection
<1> HIDE DEF a
<1>4. b \in Projection /\ b.state = "connected"
  BY <1>0, <1>3 DEF Projection
<1> HIDE DEF b
<1>5. c \in Projection /\ c.state = "connected"
  BY <1>0, <1>4 DEF Projection
<1> HIDE DEF c
<1>6. /\ page' \in Projection /\ page'.state = "connected"
      /\ \A t \in Promised : page'.revision[t] = page.revision[t]
  BY <1>1, <1>2, <1>5 DEF Projection
<1>7. /\ port' = <<>> /\ stream' = "none"
      /\ UNCHANGED <<epoch, published, baselines, queue, losses>>
  BY DEF SendHello, coordinator
<1>8. TopicsTyped'
  BY <1>6, <1>7, TypesAre DEF TopicsTyped
<1>9. Published(port)' /\ Published(baselines)' /\ Published(queue)'
  BY <1>7, TypesAre DEF Published
<1> QED BY <1>6, <1>7, <1>8, <1>9, TypesAre, MovesKeep

LEMMA SubscribeKeeps == ASSUME TopicsInv, Subscribe PROVE TopicsInv'
<1>1. /\ queue' = <<>> /\ baselines' = <<>> /\ stream' = "opening"
      /\ UNCHANGED <<epoch, published, port, page, losses>>
  BY DEF Subscribe, coordinator
<1>2. TopicsTyped'
  BY <1>1, TypesAre, TopicsAssumption DEF TopicsTyped
<1>3. Published(port)' /\ Published(baselines)' /\ Published(queue)'
  BY <1>1, TypesAre DEF Published
<1> QED BY <1>1, <1>2, <1>3, TypesAre, MovesKeep

(* The baselines show the last publication of every topic. *)
LEMMA BuildBaselinesKeeps == ASSUME TopicsInv, BuildBaselines PROVE TopicsInv'
<1>1. ASSUME NEW t \in Topics
      PROVE  /\ Baseline(t) \in Item /\ Baseline(t).topic = t
             /\ Baseline(t).revision = published[t].revision
  <2>1. /\ published[t] \in Item /\ published[t].topic = t /\ epoch \in Nat
    BY TypesAre DEF TopicsTyped
  <2>2. Baseline(t) = [published[t] EXCEPT !.epoch = IF t = "storage" THEN published[t].epoch ELSE epoch]
    BY <2>1 DEF Baseline
  <2> QED BY <2>1, <2>2 DEF Item
<1>2. /\ baselines' = <<Baseline("session"), Baseline("storage"), Baseline("units")>>
      /\ stream' = "live"
      /\ UNCHANGED <<epoch, published, port, queue, page, losses>>
  BY DEF BuildBaselines, coordinator
<1>3. "session" \in Topics /\ "storage" \in Topics /\ "units" \in Topics
  BY DEF Topics
<1>4. /\ baselines' \in Seq(Item) /\ Len(baselines') = 3
      /\ baselines'[1] = Baseline("session") /\ baselines'[2] = Baseline("storage")
      /\ baselines'[3] = Baseline("units")
  BY <1>1, <1>2, <1>3
<1>5. TopicsTyped'
  BY <1>2, <1>4, TypesAre DEF TopicsTyped
<1>6. Published(baselines)'
  <2>1. \A i \in 1..Len(baselines') : i = 1 \/ i = 2 \/ i = 3
    BY <1>4
  <2>2. \A t \in Topics : published[t].revision \in Nat
    BY TypesAre DEF TopicsTyped, Item
  <2> QED BY <1>1, <1>2, <1>3, <1>4, <2>1, <2>2 DEF Published
<1>7. \A t \in Promised : Waits(baselines', t, published[t].revision)
  <2>1. 1 \in 1..Len(baselines') /\ 2 \in 1..Len(baselines')
    BY <1>4
  <2> QED BY <1>1, <1>3, <1>4, <2>1 DEF Waits, Promised
<1>8. Published(port)' /\ Published(queue)'
  BY <1>2, TypesAre DEF Published
<1> QED BY <1>2, <1>5, <1>6, <1>7, <1>8, TypesAre, MovesKeep DEF Shown

(* The next item moves from the baselines or the queue to the port. *)
LEMMA SendKeeps ==
    ASSUME NEW s \in Seq(Item), s # <<>>, Published(s), Published(port), port \in Seq(Item),
           port' = Append(port, Head(s)), UNCHANGED published
    PROVE  /\ port' \in Seq(Item) /\ Tail(s) \in Seq(Item) /\ Len(Tail(s)) <= Len(s)
           /\ Published(port)' /\ Published(Tail(s))
           /\ \A t, n : Waits(port, t, n) => Waits(port', t, n)
           /\ \A t, n : Waits(s, t, n) => Waits(port', t, n) \/ Waits(Tail(s), t, n)
<1> DEFINE e == Head(s)
<1>1. /\ e \in Item /\ e = s[1] /\ 1 \in 1..Len(s)
      /\ Tail(s) \in Seq(Item) /\ Len(Tail(s)) <= Len(s)
      /\ \A i \in 1..Len(Tail(s)) : i + 1 \in 1..Len(s) /\ Tail(s)[i] = s[i + 1]
      /\ \A t, n : Waits(s, t, n) => (e.topic = t /\ e.revision = n) \/ Waits(Tail(s), t, n)
  BY TakenWaits
<1> HIDE DEF e
<1>2. /\ port' \in Seq(Item)
      /\ \A i \in 1..Len(port') : (i \in 1..Len(port) /\ port'[i] = port[i]) \/ port'[i] = e
      /\ Waits(port', e.topic, e.revision)
      /\ \A t, n : Waits(port, t, n) => Waits(port', t, n)
  BY <1>1, AppendedWaits DEF e
<1>3. e.topic \in Promised => e.revision <= published[e.topic].revision
  BY <1>1 DEF Published
<1>4. Published(port)'
  BY <1>2, <1>3 DEF Published
<1>5. Published(Tail(s))
  BY <1>1 DEF Published
<1> QED BY <1>1, <1>2, <1>4, <1>5

LEMMA YieldKeeps == ASSUME TopicsInv, Yield PROVE TopicsInv'
<1>0. UNCHANGED <<epoch, published, page, losses>>
  BY DEF Yield, coordinator
<1>1. CASE /\ baselines # <<>> /\ port' = Append(port, Head(baselines))
           /\ baselines' = Tail(baselines) /\ UNCHANGED <<queue, stream>>
  <2>1. /\ port' \in Seq(Item) /\ baselines' \in Seq(Item)
        /\ Published(port)' /\ Published(Tail(baselines))
        /\ \A t, n : Waits(port, t, n) => Waits(port', t, n)
        /\ \A t, n : Waits(baselines, t, n) => Waits(port', t, n) \/ Waits(baselines', t, n)
    BY <1>0, <1>1, TypesAre, SendKeeps
  <2>2. TopicsTyped'
    BY <1>0, <1>1, <2>1, TypesAre DEF TopicsTyped
  <2>3. Published(baselines)' /\ Published(queue)'
    BY <1>0, <1>1, <2>1, TypesAre DEF Published
  <2> QED BY <1>0, <1>1, <2>1, <2>2, <2>3, TypesAre, MovesKeep DEF Shown
<1>2. CASE /\ baselines = <<>> /\ stream = "live" /\ queue # <<>>
           /\ port' = Append(port, Head(queue))
           /\ queue' = Tail(queue) /\ UNCHANGED <<baselines, stream>>
  <2>1. /\ port' \in Seq(Item) /\ queue' \in Seq(Item) /\ Len(queue') <= Len(queue)
        /\ Published(port)' /\ Published(Tail(queue))
        /\ \A t, n : Waits(port, t, n) => Waits(port', t, n)
        /\ \A t, n : Waits(queue, t, n) => Waits(port', t, n) \/ Waits(queue', t, n)
    BY <1>0, <1>2, TypesAre, SendKeeps
  <2>4. Len(queue') <= QueueLimit
    BY <2>1, TypesAre, TopicsAssumption DEF TopicsTyped
  <2>2. TopicsTyped'
    BY <1>0, <1>2, <2>1, <2>4, TypesAre DEF TopicsTyped
  <2>3. Published(baselines)' /\ Published(queue)'
    BY <1>0, <1>2, <2>1, TypesAre DEF Published
  <2> QED BY <1>0, <1>2, <2>1, <2>2, <2>3, TypesAre, MovesKeep DEF Shown
<1>3. CASE /\ baselines = <<>> /\ stream = "overflowed" /\ port' = Append(port, End)
           /\ stream' = "ended" /\ UNCHANGED <<baselines, queue>>
  <2>1. End \in Item /\ End.topic = "end"
    BY DEF End, Item
  <2>2. /\ port' \in Seq(Item)
        /\ \A i \in 1..Len(port') : (i \in 1..Len(port) /\ port'[i] = port[i]) \/ port'[i] = End
    BY <1>3, <2>1, TypesAre, AppendedWaits
  <2>3. TopicsTyped'
    BY <1>0, <1>3, <2>2, TypesAre DEF TopicsTyped
  <2>4. Published(port)' /\ Published(baselines)' /\ Published(queue)'
    BY <1>0, <1>3, <2>1, <2>2, TypesAre DEF Published, Promised
  <2> QED BY <1>0, <1>3, <2>3, <2>4, TypesAre, MovesKeep
<1> QED BY <1>1, <1>2, <1>3 DEF Yield

LEMMA RespondKeeps == ASSUME TopicsInv, Respond PROVE TopicsInv'
<1> DEFINE e == [topic |-> "response", revision |-> 0, epoch |-> epoch]
<1>1. e \in Item /\ e.topic = "response"
  BY TypesAre DEF TopicsTyped, Item
<1>2. /\ port' = Append(port, e)
      /\ UNCHANGED <<epoch, published, stream, baselines, queue, page, losses>>
  BY DEF Respond, coordinator
<1> HIDE DEF e
<1>3. /\ port' \in Seq(Item)
      /\ \A i \in 1..Len(port') : (i \in 1..Len(port) /\ port'[i] = port[i]) \/ port'[i] = e
      /\ \A t, n : Waits(port, t, n) => Waits(port', t, n)
  BY <1>1, <1>2, TypesAre, AppendedWaits
<1>4. TopicsTyped'
  BY <1>2, <1>3, TypesAre DEF TopicsTyped
<1>5. Published(port)' /\ Published(baselines)' /\ Published(queue)'
  BY <1>1, <1>2, <1>3, TypesAre DEF Published, Promised
<1> QED BY <1>2, <1>3, <1>4, <1>5, TypesAre, MovesKeep DEF Shown

(* What is delivered is shown, unless something newer is, and nothing newer *)
(* than the last publication is anywhere.                                   *)
LEMMA DeliverKeeps == ASSUME TopicsInv, Deliver PROVE TopicsInv'
<1> DEFINE e == Head(port)
<1>1. /\ page.state = "connected" /\ port # <<>> /\ port' = Tail(port)
      /\ UNCHANGED <<epoch, published, baselines, queue, losses>>
  BY DEF Deliver, coordinator
<1>2. /\ e \in Item /\ e = port[1] /\ 1 \in 1..Len(port)
      /\ port' \in Seq(Item)
      /\ \A i \in 1..Len(port') : i + 1 \in 1..Len(port) /\ port'[i] = port[i + 1]
      /\ \A t, n : Waits(port, t, n) => (e.topic = t /\ e.revision = n) \/ Waits(port', t, n)
  BY <1>1, TypesAre, TakenWaits
<1>3. \/ e.topic = "end" /\ page' = Disconnected /\ stream' = "none"
      \/ e.topic = "response" /\ page' = [page EXCEPT !.epoch = e.epoch] /\ stream' = stream
      \/ e.topic \notin {"end", "response"} /\ page' = Applied(page, e) /\ stream' = stream
  BY DEF Deliver
<1>4. e.topic \in Promised => e.revision <= published[e.topic].revision
  BY <1>2, TypesAre DEF Published
<1> HIDE DEF e
<1>5. Published(port)' /\ Published(baselines)' /\ Published(queue)'
  BY <1>1, <1>2, TypesAre DEF Published
<1>6. CASE e.topic = "end" /\ page' = Disconnected /\ stream' = "none"
  <2>1. /\ page' \in Projection /\ page'.state = "off"
        /\ \A t \in Promised : page'.revision[t] = -1
    BY <1>6, DisconnectedFacts
  <2>2. TopicsTyped'
    BY <1>1, <1>2, <1>6, <2>1, TypesAre DEF TopicsTyped
  <2>3. \A t \in Promised : published[t].revision \in Nat
    BY TypesAre DEF TopicsTyped, Item, Promised, Topics
  <2>4. \A t \in Promised : page'.revision[t] <= published[t].revision
    BY <2>1, <2>3
  <2> QED BY <1>1, <1>5, <1>6, <2>1, <2>2, <2>4, MovesKeep
<1>7. CASE e.topic = "response" /\ page' = [page EXCEPT !.epoch = e.epoch] /\ stream' = stream
  <2>1. page' \in Projection /\ page'.state = page.state /\ page'.revision = page.revision
    BY <1>2, <1>7, TypesAre DEF Projection, Item
  <2>2. TopicsTyped'
    BY <1>1, <1>2, <1>7, <2>1, TypesAre DEF TopicsTyped
  <2>3. stream' = "live" => \A t \in Promised : Shown(t)'
    BY <1>1, <1>2, <1>7, <2>1, TypesAre DEF Shown, Promised
  <2> QED BY <1>1, <1>5, <2>1, <2>2, <2>3, TypesAre, MovesKeep
<1>8. CASE e.topic \notin {"end", "response"} /\ page' = Applied(page, e) /\ stream' = stream
  <2>1. e.topic \in Topics
    BY <1>2, <1>8 DEF Item
  <2>2. /\ page' \in Projection /\ page'.state = page.state
        /\ \A t \in Promised :
             page'.revision[t] =
                 IF e.topic = t /\ e.revision > page.revision[t] THEN e.revision ELSE page.revision[t]
    BY <1>2, <1>8, <2>1, TypesAre, AppliedFacts
  <2>3. TopicsTyped'
    BY <1>1, <1>2, <1>8, <2>2, TypesAre DEF TopicsTyped
  <2>4. \A t \in Promised : page'.revision[t] <= published[t].revision
    BY <1>4, <2>2, TypesAre
  <2>5. ASSUME stream' = "live", NEW t \in Promised PROVE Shown(t)'
    <3>1. Shown(t)
      BY <1>1, <1>8, <2>5, TypesAre
    <3>2. CASE e.topic = t /\ e.revision = published[t].revision
      <4>1. /\ page.revision[t] <= published[t].revision
            /\ page.revision[t] \in Int /\ published[t].revision \in Nat
        BY TypesAre DEF TopicsTyped, Projection, Item, Promised, Topics
      <4>2. page'.revision[t] = published[t].revision
        BY <2>2, <3>2, <4>1
      <4> QED BY <1>1, <4>2 DEF Shown
    <3>3. CASE ~(e.topic = t /\ e.revision = published[t].revision)
      <4>1. CASE page.revision[t] = published[t].revision
        <5>1. /\ page.revision[t] \in Int /\ published[t].revision \in Nat /\ e.revision \in Nat
          BY <1>2, TypesAre DEF TopicsTyped, Projection, Item, Promised, Topics
        <5>2. page'.revision[t] = published[t].revision
          BY <1>4, <2>2, <4>1, <5>1
        <5> QED BY <1>1, <5>2 DEF Shown
      <4>2. CASE page.revision[t] # published[t].revision
        BY <1>1, <1>2, <3>1, <3>3, <4>2 DEF Shown
      <4> QED BY <4>1, <4>2
    <3> QED BY <3>2, <3>3
  <2>6. page'.state # "off"
    BY <1>1, <2>2
  <2> QED BY <1>1, <1>5, <2>3, <2>4, <2>5, <2>6, TypesAre, MovesKeep
<1> QED BY <1>3, <1>6, <1>7, <1>8

LEMMA TopicsStep == TopicsInv /\ [TopicsNext]_topicVars => TopicsInv'
<1> SUFFICES ASSUME TopicsInv, [TopicsNext]_topicVars PROVE TopicsInv'
  OBVIOUS
<1>1. CASE LoseConnection \/ RestartWorker
  BY <1>1, DisconnectKeeps DEF LoseConnection, RestartWorker, coordinator
<1>2. CASE UNCHANGED topicVars
  <2>1. TopicsTyped'
    BY <1>2, TypesAre DEF topicVars, TopicsTyped
  <2> QED BY <1>2, <2>1, TypesAre, MovesKeep DEF topicVars, Published, Shown, Waits
<1> QED
  BY <1>1, <1>2, PublishKeeps, RotateEpochKeeps, SendHelloKeeps, SubscribeKeeps, BuildBaselinesKeeps,
     YieldKeeps, RespondKeeps, DeliverKeeps DEF TopicsNext

\* An event on its way to a page, and what the page shows of a topic, are never
\* newer than the last publication, and an ended connection forgets what was
\* shown: what applyTopicEvent relies on when it drops older revisions.
THEOREM TopicsInvariant == TopicsSpec => []TopicsInv
  BY TopicsInitKeeps, TopicsStep, PTL DEF TopicsSpec

\* A page with a live stream shows the last publication of a topic or will
\* receive it, for any queue limit and any number of publications, losses and
\* restarts (coordinatorTopicStream, enqueueCoordinatorTopicEvent).
THEOREM PublicationsAreKept == TopicsSpec => []NoLostUpdate
<1>1. TopicsInv => NoLostUpdate
  BY DEF TopicsInv
<1> QED BY <1>1, TopicsInvariant, PTL
=============================================================================
