---------------------------- MODULE BitfsPayments ----------------------------
(***************************************************************************)
(* A funded pool of BitFS between its buyer and its seller: requests       *)
(* (Kind 5), deliveries (Kind 6), payments (Kind 7), the close (Kind 12,   *)
(* Kind 13), and the arbitration of a delivery that was not paid           *)
(* (buyerProtocol.ts, sellerProtocol.ts, arbitrationWorkflow.ts,           *)
(* signerJournal.ts, sessionJournal.ts, sellerSession.ts).  BitfsFunding   *)
(* opens the pool; here it is open, and Kind 4 is under way or lost.       *)
(*                                                                         *)
(* The handlers of one session run one after the other, so what a handler  *)
(* will do is decided when it starts: its durable writes, signatures,      *)
(* sends and network calls are then done one by one, and a crash or a lost *)
(* connection cuts them off.  Payments are cumulative and one per request; *)
(* an amount is the number of payments it covers, which is the sequence    *)
(* number of the latest.  Left out: cancelling a funded pool, refunds      *)
(* after maturity, other pools of the same file, writes that fail.         *)
(***************************************************************************)
EXTENDS Naturals, Sequences, FiniteSets

CONSTANTS
    MaxRequests,    \* bound: requests of content
    MaxFaults,      \* bound: lost connections, calls of the seller's node or signer that
                    \* fail, and crashes or locks of either Worker
    MaxQueue        \* bound: frames waiting when a close is asked for again

ASSUME RequestsAssumption == MaxRequests \in Nat \ {0}
ASSUME FaultsAssumption == MaxFaults \in Nat
ASSUME QueueAssumption == MaxQueue \in Nat \ {0}

VARIABLES
    buyer,      \* the buyer's session: phase, pending request, evidence
    seller,     \* the seller's session of the same pool
    running,       \* what the running handler of each side has still to do
    up,         \* the data channel is open
    toSeller,   \* frames in flight
    toBuyer,
    chain,      \* the transaction that spends the pool in the network
    losses,     \* connections lost, and failed calls
    crashed     \* how often each side crashed

poolVars == <<buyer, seller, running, up, toSeller, toBuyer, chain, losses, crashed>>

Sides == {"buyer", "seller"}
Requests == 1 .. MaxRequests

\* A frame, or a piece of evidence: of which request, up to which payment.
Artifact(kind, a, s) == [kind |-> kind, auth |-> a, sequence |-> s]
Kind2 == Artifact("kind2", 0, 0)
Kind3 == Artifact("kind3", 0, 0)
Kind4 == Artifact("kind4", 0, 0)

\* What a handler does, one at a time.  "put" writes evidence and lists it;
\* "file" and "list" are its two halves, where the code tells them apart.
Effect(op, artifact) == [op |-> op, artifact |-> artifact, phase |-> "none", pending |-> 0]
Put(artifact) == Effect("put", artifact)
SendFrame(artifact) == Effect("send", artifact)
SetPhase(p, a) == [op |-> "phase", artifact |-> Kind2, phase |-> p, pending |-> a]
Call(op) == Effect(op, Kind2)
Await(artifact) == Effect("await", artifact)
When(condition, effects) == IF condition THEN effects ELSE <<>>

Resting == [todo |-> <<>>, linked |-> TRUE]

PoolInit ==
    /\ buyer = [phase |-> "funded", pending |-> 0, file |-> {}, listed |-> {}]
    /\ seller = [phase |-> "opening-presigned", pending |-> 0, file |-> {}, listed |-> {}]
    /\ running = [side \in Sides |-> Resting]
    /\ up \in BOOLEAN
    /\ toSeller = IF up THEN <<Kind4>> ELSE <<>>
    /\ toBuyer = <<>>
    /\ chain = "none"
    /\ losses = 0
    /\ crashed = [side \in Sides |-> 0]

poolBounds == <<losses, crashed>>
Faults == losses + crashed["buyer"] + crashed["seller"]
channel == <<up, toSeller, toBuyer>>

Of(evidence, kind) == {e \in evidence : e.kind = kind}
Holds(evidence, kind, a) == \E e \in evidence : e.kind = kind /\ e.auth = a

\* A signature that was begun and not recorded is never tried again.
Uncertain(evidence, digest, signature, a) ==
    Holds(evidence, digest, a) /\ ~Holds(evidence, signature, a)

Rests(side) == running[side].todo = <<>>
Start(side, effects) == running' = [running EXCEPT ![side] = [todo |-> effects, linked |-> TRUE]]

Unlinked(side) == IF Rests(side) THEN Resting ELSE [running[side] EXCEPT !.linked = FALSE]

\* The channel closes: frames in flight are gone, running handlers go on
\* until they need it.
Closed ==
    /\ up' = FALSE
    /\ toSeller' = <<>>
    /\ toBuyer' = <<>>
    /\ running' = [side \in Sides |-> Unlinked(side)]

-----------------------------------------------------------------------------
(* The buyer's handlers.                                                   *)

\* How much the buyer has paid, from the payments its record lists.
SignedPayments == Cardinality(Of(buyer.listed, "kind7"))

\* dispatchRequest and prepareAndSendRequest: one request at a time.
DispatchRequest ==
    LET a == 1 + Cardinality(Of(buyer.file, "kind5"))
        kind5 == Artifact("kind5", a, 1 + SignedPayments)
    IN
    /\ Rests("buyer") /\ up
    /\ a \in Requests
    /\ buyer.phase = "funded" /\ buyer.pending = 0
    /\ Start("buyer", <<Put(kind5), SetPhase("request-prepared", a), Call("assert"), SendFrame(kind5)>>)
    /\ UNCHANGED <<buyer, seller, channel, chain, poolBounds>>

Binding == Artifact("binding", 0, SignedPayments)
SavedKind12 == CHOOSE e \in buyer.file : e.kind = "kind12"
HasKind12 == Of(buyer.file, "kind12") # {}

\* prepareAndSendClose refuses if the payments are no longer the bound ones,
\* or if an earlier signature is uncertain.
CloseRefused ==
    \/ Of(buyer.file, "binding") \ {Binding} # {}
    \/ ~HasKind12 /\ Uncertain(buyer.file, "digest12", "signature12", 0)

\* prepareAndSendClose: the amount is bound, the request signed and kept
\* before the phase tells of it; a saved request is sent again as it is.
PrepareAndSendClose ==
    LET kind12 == IF HasKind12 THEN SavedKind12 ELSE Artifact("kind12", 0, SignedPayments) IN
    When(Of(buyer.file, "binding") = {}, <<Put(Binding)>>)
    \o When(~HasKind12 /\ ~Holds(buyer.file, "signature12", 0),
            <<Put(Artifact("digest12", 0, 0)), Call("assert"), Put(Artifact("signature12", 0, 0))>>)
    \o When(~HasKind12, <<Call("assert"), Effect("file", kind12)>>)
    \o When(kind12 \notin buyer.listed, <<Effect("list", kind12)>>)
    \o When(buyer.phase \notin {"close-requested", "close-unknown", "completed"},
            <<SetPhase("close-requested", 0)>>)
    \o <<Call("assert"), SendFrame(kind12)>>

\* closeDispatchedPool, when the scheduler closes the pool.
CloseDispatchedPool ==
    /\ Rests("buyer") /\ up
    /\ Len(toSeller) + Len(toBuyer) < MaxQueue
    /\ buyer.phase \in {"funded", "request-prepared", "content-committing", "close-required", "close-requested"}
    /\ Start("buyer", When(buyer.phase = "funded", <<SetPhase("close-required", buyer.pending)>>)
                      \o When(~CloseRefused, PrepareAndSendClose))
    /\ UNCHANGED <<buyer, seller, channel, chain, poolBounds>>

\* onFrame: the next frame is taken, and its handler starts or fails; a
\* failure closes the channel.
Take(kind) == Rests("buyer") /\ toBuyer # <<>> /\ Head(toBuyer).kind = kind
Handle(effects) ==
    /\ Start("buyer", effects)
    /\ toBuyer' = Tail(toBuyer)
    /\ UNCHANGED <<buyer, seller, up, toSeller, chain, poolBounds>>
FailFrame == Closed /\ UNCHANGED <<buyer, seller, chain, poolBounds>>

\* Mutant of HandleOpeningResponse: a close under way is not sent again.
HandleOpeningResponseOnce ==
    /\ Take("kind3")
    /\ Handle(When(buyer.phase \in {"funded", "request-prepared"}, <<SendFrame(Kind4)>>))

\* handleOpeningResponse: Kind 3 came again, on a resumed channel.  What is
\* outstanding is sent again: the close, or the proof of funding and the
\* request.
HandleOpeningResponse ==
    /\ Take("kind3")
    /\ IF buyer.phase \in {"close-required", "close-requested", "close-unknown"}
       THEN IF HasKind12 THEN Handle(<<SendFrame(SavedKind12)>>)
            ELSE IF CloseRefused THEN FailFrame ELSE Handle(PrepareAndSendClose)
       ELSE Handle(When(buyer.phase \in {"funded", "request-prepared"},
                        <<SendFrame(Kind4)>>
                        \o When(buyer.pending # 0,
                                <<SendFrame(CHOOSE e \in buyer.file : e.kind = "kind5" /\ e.auth = buyer.pending)>>)))

\* handleContentDelivery: a delivery that was paid is answered with the same
\* payment; else it is verified, the payment signed and sent, and the file
\* may be complete now.
HandleContentDelivery ==
    LET a == Head(toBuyer).auth
        kind7 == Artifact("kind7", a, Head(toBuyer).sequence)
        Sign == When(~Holds(buyer.file, "signature7", a),
                     <<Put(Artifact("digest7", a, 0)), Call("assert"), Put(Artifact("signature7", a, 0))>>)
        Ended(complete) == IF complete
                           THEN <<SetPhase("content-committing", 0), SetPhase("close-required", 0)>>
                           ELSE <<SetPhase("funded", 0)>>
    IN
    /\ Take("kind6")
    /\ IF kind7 \in buyer.file THEN Handle(<<SendFrame(kind7)>>)
       ELSE IF buyer.pending # a \/ Uncertain(buyer.file, "digest7", "signature7", a) THEN FailFrame
       ELSE \E complete \in BOOLEAN :
                Handle(Sign \o <<Call("assert"), Effect("file", kind7), Effect("list", kind7), Call("assert"), SendFrame(kind7)>>
                            \o Ended(complete))

\* The close is looked for in the chain (submitOrReconcilePoolRecovery).
CloseUnknown == When(buyer.phase # "completed", <<SetPhase("close-unknown", buyer.pending)>>) \o <<Call("observe")>>
BoundClose == Of(buyer.file, "binding") \subseteq {Binding}

\* handleCloseResponse: the answer must be to the request that is listed and
\* bound to the payments of now.
HandleCloseResponse ==
    LET kind13 == Head(toBuyer) IN
    /\ Take("kind13")
    /\ IF /\ Of(buyer.listed, "kind12") = {Artifact("kind12", 0, kind13.sequence)}
          /\ Of(buyer.file, "kind13") \subseteq {kind13}
          /\ BoundClose
       THEN Handle(<<Call("assert")>> \o When(kind13 \notin buyer.listed, <<Put(kind13)>>) \o CloseUnknown)
       ELSE FailFrame

\* resumePoolRecovery, whenever the purchase is looked at.
ResumePoolRecovery ==
    /\ Rests("buyer")
    /\ buyer.phase # "completed"
    /\ Of(buyer.file, "kind13") # {} /\ BoundClose
    /\ Start("buyer", CloseUnknown)
    /\ UNCHANGED <<buyer, seller, channel, chain, poolBounds>>

-----------------------------------------------------------------------------
(* The seller's handlers.                                                  *)

\* What the buyer has paid, in payments both have signed.
Countersigned == Cardinality(Of(seller.listed, "paid"))

\* A frame of this kind is next; once arbitration is asked for none is heard.
Heard(kind) ==
    /\ Rests("seller") /\ toSeller # <<>> /\ Head(toSeller).kind = kind
    /\ Of(seller.listed, "kind8") = {}
Serve(effects) ==
    /\ Start("seller", effects)
    /\ toSeller' = Tail(toSeller)
    /\ UNCHANGED <<buyer, seller, up, toBuyer, chain, poolBounds>>
Refuse == Closed /\ UNCHANGED <<buyer, seller, chain, poolBounds>>

RefusePending ==
    /\ Rests("seller") /\ toSeller # <<>>
    /\ Of(seller.listed, "kind8") # {}
    /\ Refuse

HandleKind2 ==
    /\ Heard("kind2")
    /\ IF seller.phase = "closed" THEN Refuse ELSE Serve(<<SendFrame(Kind3)>>)

HandleKind4 ==
    /\ Heard("kind4")
    /\ IF seller.phase = "opening-presigned" THEN Serve(<<Put(Kind4), SetPhase("funded", 0)>>)
       ELSE IF seller.phase = "funded" THEN Serve(<<>>)
       ELSE Refuse

\* Mutant of HandleKind5: served whether or not the last delivery was paid.
HandleKind5Trusting ==
    LET kind6 == Artifact("kind6", Head(toSeller).auth, Head(toSeller).sequence) IN
    /\ Heard("kind5")
    /\ Serve(<<Put(Head(toSeller)), Put(kind6), SetPhase("delivery-prepared", kind6.auth), SendFrame(kind6)>>)

\* A request that was answered is answered again; a new one must be for the
\* next payment, after the last delivery was paid.
HandleKind5 ==
    LET kind5 == Head(toSeller)
        kind6 == Artifact("kind6", kind5.auth, kind5.sequence)
    IN
    /\ Heard("kind5")
    /\ IF {kind5, kind6} \subseteq seller.file THEN Serve(<<SendFrame(kind6)>>)
       ELSE IF seller.phase \in {"funded", "paid"} /\ kind5.sequence = Countersigned + 1
            THEN Serve(<<Put(kind5), Await(kind5), Put(kind6),
                         SetPhase("delivery-prepared", kind5.auth), SendFrame(kind6)>>)
       ELSE Refuse

\* The deliveries without a countersigned payment, and the one to be paid.
Unpaid == {e.auth : e \in Of(seller.listed, "kind6")} \ {e.auth : e \in Of(seller.listed, "paid")}
ToBePaid == IF seller.pending = 0 THEN Unpaid ELSE {seller.pending} \intersect Unpaid

\* A signature, and the digest that tells it was begun.
SignWith(digest, signature) == <<Put(digest), Await(digest), Put(signature)>>

\* persistSellerKind7BeforeSigning: the payment and the phase are on record
\* before the block height is asked for and the payment is countersigned.
SignPayment(kind7) ==
    LET a == kind7.auth IN
    When(kind7 \notin seller.listed, <<Put(kind7)>>)
    \o When(seller.phase = "delivery-prepared", <<SetPhase("payment-signing", seller.pending)>>)
    \o IF kind7.sequence # Countersigned + 1 \/ Uncertain(seller.file, "digest7", "signature7", a)
       THEN <<Call("fail")>>
       ELSE <<Await(kind7)>>
            \o When(~Holds(seller.file, "signature7", a),
                    SignWith(Artifact("digest7", a, 0), Artifact("signature7", a, 0)))
            \o <<Put(Artifact("paid", a, kind7.sequence)), SetPhase("paid", 0)>>

HandleKind7 ==
    LET kind7 == Head(toSeller) IN
    /\ Heard("kind7")
    /\ IF seller.phase \notin {"delivery-prepared", "payment-signing", "paid"} THEN Refuse
       ELSE IF kind7 \in seller.listed /\ Holds(seller.listed, "paid", kind7.auth) THEN Serve(<<>>)
       ELSE IF seller.phase # "paid" /\ ToBePaid = {kind7.auth} THEN Serve(SignPayment(kind7))
       ELSE Refuse

\* Mutant of CompleteClose: the amount is not compared with the payments.
CompleteCloseBlind(kind12) ==
    LET kind13 == Artifact("kind13", 0, kind12.sequence) IN
    <<Put(kind13), SetPhase("close-unknown", seller.pending), Call("broadcast"), SendFrame(kind13)>>

\* Kind 13 is kept, the close must cover the countersigned payments, and it
\* is broadcast after the phase tells of it.
CompleteClose(kind12) ==
    LET kind13 == Artifact("kind13", 0, kind12.sequence) IN
    When(kind13 \notin seller.file, <<Put(kind13)>>)
    \o IF kind12.sequence < Countersigned THEN <<Call("fail")>>
       ELSE When(seller.phase # "closed", <<SetPhase("close-unknown", seller.pending), Call("broadcast")>>)
            \o <<SendFrame(kind13)>>

\* persistSellerCloseBeforeSigning.
SignClose(kind12) ==
    When(kind12 \notin seller.file, <<Put(kind12)>>)
    \o IF Uncertain(seller.file, "digest12", "signature12", 0) THEN <<Call("fail")>>
       ELSE <<Await(kind12)>>
            \o When(~Holds(seller.file, "signature12", 0),
                    SignWith(Artifact("digest12", 0, 0), Artifact("signature12", 0, 0)))
            \o CompleteClose(kind12)

HandleKind12 ==
    LET kind12 == Head(toSeller) IN
    /\ Heard("kind12")
    /\ IF Of(seller.file, "kind12") \ {kind12} # {} THEN Refuse
       ELSE IF Of(seller.file, "kind13") # {} THEN Serve(CompleteClose(kind12))
       ELSE IF seller.phase \in {"funded", "delivery-prepared", "paid", "close-unknown"} THEN Serve(SignClose(kind12))
       ELSE Refuse

\* Mutant of SubmitArbitration: a delivery is arbitrated though the pool closes.
SubmitArbitrationLate ==
    /\ Rests("seller")
    /\ seller.pending # 0
    /\ Start("seller", <<Put(Artifact("kind8", seller.pending, 0)), Call("exchange"),
                         Put(Artifact("arbitrated", 0, 0)), Call("settle")>>)
    /\ UNCHANGED <<buyer, seller, channel, chain, poolBounds>>

\* submit: the wait for a payment expired, or the user asks.  A request that
\* is on file is taken up where it was left.
SubmitArbitration ==
    LET kind8 == Artifact("kind8", seller.pending, 0)
        settlement == Artifact("arbitrated", 0, 0)
        Sign == IF Uncertain(seller.file, "digest8", "signature8", 0) THEN <<>>
                ELSE When(~Holds(seller.file, "signature8", 0),
                          SignWith(Artifact("digest8", 0, 0), Artifact("signature8", 0, 0)))
                     \o <<Put(settlement), Call("settle")>>
    IN
    /\ Rests("seller")
    /\ \/ Of(seller.file, "kind8") # {}
       \/ seller.phase = "delivery-prepared" /\ seller.pending # 0
    /\ Start("seller",
             When(Of(seller.file, "kind8") = {},
                  <<Effect("file", kind8), Effect("list", kind8), SetPhase("arbitration-prepared", seller.pending)>>)
             \o IF settlement \in seller.file THEN <<Call("settle")>> ELSE <<Call("exchange")>> \o Sign)
    /\ UNCHANGED <<buyer, seller, channel, chain, poolBounds>>

-----------------------------------------------------------------------------
(* The effects of the running handlers.                                    *)

Doing(side, op) == running[side].todo # <<>> /\ Head(running[side].todo).op = op
Effected(side) == Head(running[side].todo)
Rest(side) == IF Len(running[side].todo) = 1 THEN Resting
              ELSE [todo |-> Tail(running[side].todo), linked |-> running[side].linked]
Proceed(side) == running' = [running EXCEPT ![side] = Rest(side)]
Stop(side) == running' = [running EXCEPT ![side] = Resting]

\* The session after a write: a phase, or evidence that is filed and listed.
Wrote(of, effect) ==
    LET phase == IF effect.op = "phase" THEN effect ELSE of
        added(ops) == IF effect.op \in ops THEN {effect.artifact} ELSE {}
    IN
    [phase |-> phase.phase, pending |-> phase.pending,
     file |-> of.file \union added({"put", "file"}), listed |-> of.listed \union added({"put", "list"})]

\* A write of evidence or of the record (sessionJournal).
WriteEffect(side) ==
    /\ running[side].todo # <<>> /\ Effected(side).op \in {"put", "file", "list", "phase"}
    /\ Proceed(side)
    /\ IF side = "buyer"
       THEN buyer' = Wrote(buyer, Effected(side)) /\ UNCHANGED seller
       ELSE seller' = Wrote(seller, Effected(side)) /\ UNCHANGED buyer
    /\ UNCHANGED <<channel, chain, poolBounds>>

\* assertCurrentContext: the buyer's handler ends with its link, which goes
\* when the channel is closed and the frames received are handled.
AssertCurrentContext ==
    /\ Doing("buyer", "assert")
    /\ \/ Proceed("buyer")
       \/ ~running["buyer"].linked /\ Stop("buyer")
    /\ UNCHANGED <<buyer, seller, channel, chain, poolBounds>>

SendEffect(side) ==
    /\ Doing(side, "send")
    /\ IF running[side].linked
       THEN /\ Proceed(side)
            /\ IF side = "buyer"
               THEN toSeller' = Append(toSeller, Effected(side).artifact) /\ UNCHANGED toBuyer
               ELSE toBuyer' = Append(toBuyer, Effected(side).artifact) /\ UNCHANGED toSeller
       ELSE Stop(side) /\ UNCHANGED <<toSeller, toBuyer>>
    /\ UNCHANGED <<buyer, seller, up, chain, poolBounds>>

\* The buyer only looks for the close, which the seller broadcasts.
ObserveClose ==
    /\ Doing("buyer", "observe")
    /\ Proceed("buyer")
    /\ \/ chain = "close" /\ buyer' = [buyer EXCEPT !.phase = "completed"]
       \/ UNCHANGED buyer
    /\ UNCHANGED <<seller, channel, chain, poolBounds>>

\* The close reaches the network or not, and the answer is known or not.
Broadcast ==
    /\ Doing("seller", "broadcast")
    /\ Proceed("seller")
    /\ \/ /\ chain \in {"none", "close"}
          /\ chain' = "close"
          /\ seller' = [seller EXCEPT !.phase = "closed"] \/ UNCHANGED seller
       \/ UNCHANGED <<chain, seller>>
    /\ UNCHANGED <<buyer, channel, poolBounds>>

\* The arbiter answers or not.
Exchange ==
    /\ Doing("seller", "exchange")
    /\ Proceed("seller") \/ Stop("seller")
    /\ UNCHANGED <<buyer, seller, channel, chain, poolBounds>>

\* The arbitrated payment is broadcast.
Settle ==
    /\ Doing("seller", "settle")
    /\ Proceed("seller")
    /\ \/ /\ chain \in {"none", "arbitrated"}
          /\ chain' = "arbitrated"
          /\ \E p \in {"closed", "arbitration-payment-unknown"} : seller' = [seller EXCEPT !.phase = p]
       \/ seller' = [seller EXCEPT !.phase = "arbitration-payment-unknown"] /\ UNCHANGED chain
    /\ UNCHANGED <<buyer, channel, poolBounds>>

\* An error of the seller's protocol closes the connection of the frame.
Broken ==
    IF running["seller"].linked
    THEN /\ up' = FALSE /\ toSeller' = <<>> /\ toBuyer' = <<>>
         /\ running' = [running EXCEPT !["seller"] = Resting, !["buyer"] = Unlinked("buyer")]
    ELSE Stop("seller") /\ UNCHANGED channel

Break ==
    /\ Doing("seller", "fail")
    /\ Broken
    /\ UNCHANGED <<buyer, seller, chain, poolBounds>>

\* The block height (facts) or a signature (signer.sign) is awaited.  It comes,
\* or the call fails: an error of the handler of a frame, or one that only
\* ends the arbitration.
AwaitAnswer ==
    /\ Doing("seller", "await")
    /\ \/ Proceed("seller") /\ UNCHANGED <<channel, losses>>
       \/ /\ Faults < MaxFaults
          /\ losses' = losses + 1
          /\ IF Of(seller.listed, "kind8") = {} THEN Broken
             ELSE Stop("seller") /\ UNCHANGED channel
    /\ UNCHANGED <<buyer, seller, chain, crashed>>

BuyerStep == WriteEffect("buyer") \/ AssertCurrentContext \/ SendEffect("buyer") \/ ObserveClose
SellerStep == WriteEffect("seller") \/ SendEffect("seller") \/ Broadcast \/ Exchange \/ Settle
              \/ Break \/ AwaitAnswer

-----------------------------------------------------------------------------
(* The connection, and crashes.                                            *)

\* The channel is lost, by either side or the network.
Lose ==
    /\ up
    /\ Faults < MaxFaults
    /\ losses' = losses + 1
    /\ Closed
    /\ UNCHANGED <<buyer, seller, chain, crashed>>

\* The idle timer of the seller's connection.
IdleTimeout ==
    /\ up /\ toSeller = <<>> /\ toBuyer = <<>>
    /\ \A side \in Sides : Rests(side)
    /\ Closed
    /\ UNCHANGED <<buyer, seller, chain, poolBounds>>

\* A new connection of the same seller: the scheduler may use it at once ...
Connect ==
    /\ ~up
    /\ up' = TRUE
    /\ UNCHANGED <<buyer, seller, running, toSeller, toBuyer, chain, poolBounds>>

\* ... or the user resumed the purchase, and Kind 2 goes first.
Reconnect ==
    /\ ~up
    /\ buyer.phase # "completed"
    /\ up' = TRUE
    /\ toSeller' = <<Kind2>>
    /\ UNCHANGED <<buyer, seller, running, toBuyer, chain, poolBounds>>

Crash(side) ==
    /\ Faults < MaxFaults
    /\ crashed' = [crashed EXCEPT ![side] = @ + 1]
    /\ up' = FALSE /\ toSeller' = <<>> /\ toBuyer' = <<>>
    /\ running' = [s \in Sides |-> IF s = side THEN Resting ELSE Unlinked(s)]
    /\ UNCHANGED <<buyer, seller, chain, losses>>

BuyerFrame == HandleOpeningResponse \/ HandleContentDelivery \/ HandleCloseResponse
SellerFrame == RefusePending \/ HandleKind2 \/ HandleKind4 \/ HandleKind5 \/ HandleKind7 \/ HandleKind12

PoolNext ==
    \/ DispatchRequest \/ CloseDispatchedPool \/ ResumePoolRecovery
    \/ BuyerFrame \/ SellerFrame \/ SubmitArbitration
    \/ BuyerStep \/ SellerStep
    \/ Lose \/ IdleTimeout \/ Connect \/ Reconnect
    \/ \E side \in Sides : Crash(side)

PoolSpec == PoolInit /\ [][PoolNext]_poolVars

\* Handlers run on, frames on an open channel arrive, an idle channel is
\* closed, and the user comes back to an unfinished purchase.
PoolFairness ==
    /\ WF_poolVars(BuyerStep \/ BuyerFrame)
    /\ WF_poolVars(SellerStep \/ SellerFrame)
    /\ WF_poolVars(IdleTimeout)
    /\ SF_poolVars(Reconnect)

PoolFairSpec == PoolSpec /\ PoolFairness

-----------------------------------------------------------------------------
\* What the seller countersigned the buyer signed, payment for payment and
\* without a gap, and never two payments with one sequence number; the seller
\* lacks at most the last one.
PaymentsAgree ==
    LET signed == Of(buyer.file, "kind7")
        paid == Of(seller.listed, "paid")
    IN
    /\ \A p \in paid : Artifact("kind7", p.auth, p.sequence) \in signed
    /\ {p.sequence : p \in paid} = 1 .. Cardinality(paid)
    /\ {p.sequence : p \in signed} = 1 .. Cardinality(signed)
    /\ Cardinality(signed) <= Cardinality(paid) + 1

\* A close in the network covers every payment the seller has countersigned,
\* before and after; a buyer that sees its pool closed has paid exactly what
\* it signed.
CloseIsFinal ==
    /\ chain = "close" => \A e \in Of(seller.file, "kind13") : e.sequence >= Countersigned
    /\ buyer.phase = "completed" =>
        chain = "close" /\ Of(buyer.file, "kind13") = {Artifact("kind13", 0, SignedPayments)}

\* The seller settles the pool once: with a close that covers what it was
\* paid, or with the arbiter.  (A crash of the seller may leave both signed.)
OneSettlement ==
    /\ crashed["seller"] = 0
    /\ Of(seller.file, "arbitrated") # {}
    => \A e \in Of(seller.file, "kind13") : e.sequence < Countersigned

\* A handler of the seller ended, with an error, between the record of a
\* payment, or of the signature of the close, and the signature itself: no
\* later Kind 12 is accepted.
SigningCutShort ==
    /\ Rests("seller")
    /\ seller.phase = "payment-signing" \/ Uncertain(seller.file, "digest12", "signature12", 0)

\* A close that the buyer asked for is signed and broadcast in the end, over
\* lost frames and connections and failed calls, if neither side crashes and
\* the seller does not turn to the arbiter: all that can stop it is a call
\* that failed while a payment, or the close itself, was being signed.
CloseServed ==
    buyer.phase = "close-requested" /\ seller.phase \in {"funded", "delivery-prepared", "paid"}
        ~> \/ seller.phase \in {"close-unknown", "closed"}
           \/ SigningCutShort
           \/ Of(seller.file, "kind8") # {}
           \/ \E side \in Sides : crashed[side] > 0

\* "on a reconnection, or when the result of a send is unknown, the buyer
\* sends the same Kind 5 again; ... the Kind 6 saved first is sent again"
\* (sellerProtocol.ts:274-275): the seller closes no channel on which a
\* request waits that it has answered before.
ReplayServed ==
    [][\A i \in DOMAIN toSeller :
         /\ toSeller[i] \in seller.listed /\ toSeller[i].kind = "kind5"
         /\ Of(seller.file, "kind8") = {}
         => ~(Rests("seller") /\ SellerFrame /\ ~up')]_poolVars
=============================================================================
