------------------------- MODULE BitfsFundingProofs -------------------------
(***************************************************************************)
(* Proofs about BitfsFunding, for any number of openings and restarts: its *)
(* types, that a released transaction is in no block, that a pool is open  *)
(* only over a transaction that a node has, and that a cancelled session   *)
(* has nothing reserved.                                                   *)
(***************************************************************************)
EXTENDS BitfsFunding, FiniteSetTheorems, WellFoundedInduction, TLAPS

(* The steps after the outcome of the dispatch is in the outbox.           *)
Late == {"reconcile", "unknown", "unknown-phase", "release", "release-ledger", "failed-phase",
         "observe", "kind4", "proven", "funded"}
Building == {"reserve", "anchor", "anchored", "outbox", "prepared"}
Sent(t) == outbox[t] \notin {"none", "prepared"}

(* The wallet makes transactions in the order of their numbers, each for   *)
(* an open command of its own.                                             *)
Made ==
  \E k \in 0 .. opens :
    /\ {u \in Txs : wallet[u] # "none"} = 1 .. k
    /\ hand["link"].pc \in {"configure", "configured", "fund"} => k < opens

(* What the durable stores say of a transaction agrees with the network.   *)
TxKnown(t) ==
  /\ wallet[t] = "none" => t \notin live /\ plan[t] = "none" /\ outbox[t] = "none" /\ file.funding # t
  /\ wallet[t] \in {"none", "prepared", "rejected"} => t \notin taken
  /\ plan[t] = "failed" => wallet[t] = "rejected"
  /\ plan[t] = "failed" /\ pool.tx = t => pool.state = "funding-failed"
  /\ plan[t] = "observed" => t \in taken
  /\ plan[t] \in {"prepared", "unknown", "observed"} => pool.tx = t
  /\ outbox[t] # "none" => file.funding = t
  /\ outbox[t] = "none" => t \notin taken
  /\ outbox[t] = "confirmed" => t \in taken
  /\ outbox[t] = "failed" => wallet[t] = "rejected"
  /\ outbox[t] = "prepared" /\ t \in live /\ t \in taken =>
       hand["link"].pc = "mark-outbox" /\ hand["link"].tx = t

SessionKnown ==
  /\ pool.state = "none" => pool.tx = 0
  /\ "kind4" \in file.names => pool.state = "open" /\ "kind3" \in file.names
  /\ session.phase = "funding-unknown" =>
       file.funding # 0 /\ Sent(file.funding) /\ "kind3" \in file.names

(* What a handler knows of its transaction.                                *)
LinkKnown ==
  LET k == hand["link"] IN
  /\ k.pc \notin {"lookup"}
  /\ k.pc \in Building \union {"undo"} => k.tx # 0 /\ wallet[k.tx] \in {"prepared", "rejected"}
  /\ k.pc \in {"reserve", "anchor", "anchored", "outbox"} => outbox[k.tx] = "none"
  /\ k.pc \in {"anchored", "outbox", "prepared"} => file.funding = k.tx
  /\ k.pc \in {"answered", "accept", "submit"} => "kind3" \in file.names
  /\ k.pc = "delivered" => "kind4" \in file.names
  /\ k.pc \in {"dispatch", "mark-outbox"} =>
       /\ k.tx # 0 /\ file.funding = k.tx /\ outbox[k.tx] = "prepared" /\ "kind3" \in file.names
       /\ k.pc = "dispatch" /\ k.tx \in live => k.tx \notin taken
       /\ k.pc = "mark-outbox" => /\ k.res \in {"confirmed", "failed", "unknown"}
                                  /\ k.res = "confirmed" => k.tx \in taken
                                  /\ k.res = "failed" => wallet[k.tx] = "rejected"

SideKnown ==
  LET k == hand["side"] IN
  /\ k.pc \notin (OpenSteps \union AnswerSteps) \union {"dispatch", "mark-outbox"}
  /\ k.pc = "lookup" => k.tx = file.funding
  /\ k.pc \in {"lookup", "submit"} => file.funding # 0 /\ Sent(file.funding) /\ "kind3" \in file.names

HandKnown(h) ==
  LET k == hand[h] IN
  /\ k.pc \in Late => k.tx # 0 /\ file.funding = k.tx /\ Sent(k.tx) /\ "kind3" \in file.names
  /\ k.pc \in {"observe", "kind4", "proven", "funded"} => outbox[k.tx] = "confirmed"
  /\ k.pc \in {"kind4", "proven", "funded"} => pool.state = "open"
  /\ k.pc \in {"proven", "funded"} => "kind4" \in file.names
  /\ k.pc = "free" => k.tx # 0
  /\ k.pc \in {"undo-ledger", "release-ledger", "free-ledger"} => k.tx # 0 /\ wallet[k.tx] = "rejected"

(* Nothing is reserved for t; or nothing of the fixed transaction, or the   *)
(* opening that fixed it has lost the session and takes it back.           *)
Clean(t) == plan[t] \in {"none", "failed"} /\ wallet[t] \in {"none", "rejected"}
Freed ==
  \/ file.funding = 0
  \/ Clean(file.funding)
  \/ /\ hand["link"].pc \in {"anchored", "outbox", "prepared", "undo", "undo-ledger"}
     /\ hand["link"].tx = file.funding

(* The steps of a cancellation after its intent is durable. *)
Freeing == {"check", "ledger", "free", "free-ledger", "finish"}

(* An opening keeps the session it read as long as that is not selected    *)
(* for anything else, and nothing of the seller's answer is there yet.     *)
SelectedKnown ==
  LET k == hand["link"] IN
  /\ (k.pc \in Building) => (("link" \in seen) <=> (session.phase = "quote-selected"))
  /\ k.pc \in {"reserve", "anchor"} => file.funding = 0
  /\ session.phase = "quote-selected" =>
       /\ "kind3" \notin file.names
       /\ k.pc \notin AnswerSteps
       /\ \/ file.funding = 0
          \/ "funding" \in session.listed
          \/ k.pc = "anchored"

(* While nothing crashes, every transaction but the fixed one is cleaned   *)
(* up by the opening that made it, and a cancellation frees the fixed one. *)
CancelKnown ==
  /\ \A t \in Txs :
       \/ t = file.funding
       \/ Clean(t)
       \/ /\ hand["link"].pc \in {"reserve", "anchor", "undo", "undo-ledger"}
          /\ hand["link"].tx = t
  /\ session.phase = "cancelled" => Freed
  /\ \A h \in Handlers :
       /\ (At(h, "withdraw") /\ h \in seen) =>
            session.phase = "quote-selected" /\ "funding" \notin session.listed
       /\ hand[h].pc \in Freeing => session.phase # "quote-selected"
       /\ At(h, "finish") => Freed
       /\ hand[h].pc \in {"free", "free-ledger"} => file.funding = hand[h].tx \/ Freed

FundingInv ==
  /\ FundingTypeOK
  /\ Made
  /\ \A t \in Txs : TxKnown(t)
  /\ SessionKnown
  /\ OpenIsFunded
  /\ LinkKnown /\ SideKnown
  /\ \A h \in Handlers : HandKnown(h)

CancelInv == restarts = 0 => SelectedKnown /\ CancelKnown

-----------------------------------------------------------------------------
(* What the small operators of the module do.                              *)

SomeTx == {0} \union Txs
SessionRecords == [phase : Phases, tx : SomeTx, listed : SUBSET Names]
HandRecords == [pc : Steps, tx : SomeTx, res : {"none"} \union OutboxStates]

\* Only handler h moved; and it kept its transaction unless it ended.
Only(h) ==
  /\ hand' \in [Handlers -> HandRecords]
  /\ \A g \in Handlers : g # h => hand'[g] = hand[g]
Moved(h) ==
  /\ Only(h)
  /\ hand'[h].pc # "idle" => hand'[h].tx = hand[h].tx /\ hand'[h].res = hand[h].res

\* The types of what the steps read.
LEMMA TypeFacts ==
  ASSUME FundingTypeOK
  PROVE  /\ "link" \in Handlers /\ "side" \in Handlers
         /\ "idle" \in Steps /\ seen \subseteq Handlers
         /\ 0 \in SomeTx /\ file.funding \in SomeTx
         /\ \A h \in Handlers : {h} \subseteq Handlers /\ hand[h].tx \in SomeTx
BY SMT DEF FundingTypeOK, Handlers, SomeTx, Steps

\* The types of the durable stores.
LEMMA StoreTypes ==
  ASSUME FundingTypeOK
  PROVE  /\ 0 \notin Txs
         /\ file.funding = 0 \/ file.funding \in Txs
         /\ pool.tx = 0 \/ pool.tx \in Txs
         /\ \A h \in Handlers : hand[h].tx = 0 \/ hand[h].tx \in Txs
         /\ plan \in [Txs -> PlanStates] /\ outbox \in [Txs -> OutboxStates]
         /\ wallet \in [Txs -> WalletStates] /\ live \subseteq Txs /\ taken \subseteq Txs
         /\ pool \in [state : PoolStates, tx : SomeTx] /\ file \in [names : SUBSET Names, funding : SomeTx]
BY SMT DEF FundingTypeOK, SomeTx, Txs

\* A handler that is sent on keeps its transaction.
LEMMA GotoMoves ==
  ASSUME FundingTypeOK, NEW h \in Handlers, NEW pc \in Steps, Goto(h, pc)
  PROVE  Moved(h) /\ hand'[h].pc = pc
<1>1. /\ Forward(h, pc) \in HandRecords /\ Forward(h, pc).pc = pc
      /\ pc # "idle" => Forward(h, pc).tx = hand[h].tx /\ Forward(h, pc).res = hand[h].res
  BY SMT DEF Forward, Idle, HandRecords, SomeTx, FundingTypeOK
<1>. QED BY <1>1, SMT DEF Goto, FundingTypeOK, HandRecords, SomeTx, Only, Moved

\* The new session records differ from the old one where they say.
LEMMA NewRecords ==
  ASSUME FundingTypeOK
  PROVE  /\ session \in SessionRecords
         /\ \A p \in Phases : InPhase(p) \in SessionRecords /\ InPhase(p).phase = p
                              /\ InPhase(p).listed = session.listed
         /\ \A p \in Phases : \A t \in SomeTx :
              Pending(p, t) \in SessionRecords /\ Pending(p, t).phase = p
              /\ Pending(p, t).listed = session.listed
         /\ \A names \in SUBSET Names : Listed(names) \in SessionRecords
              /\ Listed(names).phase = session.phase
              /\ Listed(names).listed = session.listed \union names
<1>1. session \in SessionRecords
  BY SMT DEF FundingTypeOK, SessionRecords, SomeTx
<1>2. \A p \in Phases : InPhase(p) \in SessionRecords /\ InPhase(p).phase = p
                        /\ InPhase(p).listed = session.listed
  BY <1>1, SMT DEF SessionRecords, InPhase
<1>3. \A p \in Phases : \A t \in SomeTx :
        Pending(p, t) \in SessionRecords /\ Pending(p, t).phase = p
        /\ Pending(p, t).listed = session.listed
  BY <1>1, <1>2, SMT DEF SessionRecords, Pending
<1>4. \A names \in SUBSET Names : Listed(names) \in SessionRecords
        /\ Listed(names).phase = session.phase
        /\ Listed(names).listed = session.listed \union names
  BY <1>1, SMT DEF SessionRecords, Listed
<1>. QED BY <1>1, <1>2, <1>3, <1>4

\* A write of the session succeeds for a handler whose copy is current.
LEMMA CommitMoves ==
  ASSUME FundingTypeOK, NEW h \in Handlers, NEW new \in SessionRecords,
         NEW next \in Steps, NEW conflict \in Steps, Commit(h, new, next, conflict)
  PROVE  /\ Moved(h) /\ session' \in SessionRecords /\ seen' \subseteq Handlers
         /\ \/ h \in seen /\ session' = new /\ seen' = {h} /\ hand'[h].pc = next
            \/ h \notin seen /\ UNCHANGED <<session, seen>> /\ hand'[h].pc = conflict
<1>1. CASE h \in seen
  BY <1>1, GotoMoves, SMT DEF Commit
<1>2. CASE h \notin seen
  BY <1>2, GotoMoves, NewRecords, SMT DEF Commit, FundingTypeOK
<1>. QED BY <1>1, <1>2

-----------------------------------------------------------------------------
(* What a step of handler h may do, as far as a cancellation can tell.     *)

\* The session is read or written; nobody selects it again.
SessionFrame(h) ==
  /\ \/ session' = session /\ seen \subseteq seen' /\ seen' \subseteq seen \union {h}
     \/ /\ seen' = {h}
        /\ session'.phase = "quote-selected" =>
             /\ session.phase = "quote-selected" /\ session.listed \subseteq session'.listed
             /\ h = "link" \/ "kind3" \in file.names
  /\ session'.phase = "cancelled" => \/ session.phase = "cancelled" \/ At(h, "finish")
                                     \/ At(h, "withdraw") /\ h \in seen
  /\ hand'[h].pc = "withdraw" => /\ session' = session /\ session.phase = "quote-selected"
                                 /\ "funding" \notin session.listed
  /\ hand'[h].pc \in Freeing => hand[h].pc \in Freeing \/ session'.phase # "quote-selected"
  /\ hand'[h].pc \in AnswerSteps => hand[h].pc \in AnswerSteps \/ session'.phase # "quote-selected"

\* An opening goes on with the session it read, or takes back what it made.
BuildFrame(h) ==
  /\ hand[h].pc \in Building \union {"undo", "undo-ledger"} => hand'[h].tx = hand[h].tx
  /\ hand'[h].pc \in Building =>
       \/ hand[h].pc \in Building /\ session'.phase = session.phase /\ (h \in seen' <=> h \in seen)
       \/ /\ hand[h].pc = "fund" /\ hand'[h].pc = "reserve" /\ file.funding = 0 /\ session' = session
          /\ session.phase = "quote-selected" /\ h \in seen'
  /\ At(h, "reserve") => hand'[h].pc \in {"anchor", "undo"}
  /\ At(h, "anchor") => hand'[h].pc \in {"anchored", "undo"}
  /\ At(h, "anchored") => \/ hand'[h].pc = "outbox" /\ h \in seen /\ "funding" \in session'.listed
                          \/ hand'[h].pc = "undo" /\ h \notin seen /\ session' = session
  /\ At(h, "outbox") => hand'[h].pc = "prepared"
  /\ At(h, "prepared") => hand'[h].pc = "undo" \/ (hand'[h].pc = "sign" /\ h \in seen)
  /\ At(h, "undo") => hand'[h].pc = "undo-ledger"
  /\ At(h, "undo-ledger") => Clean(hand[h].tx)'

\* The fixed transaction, the seller's answer and what is reserved.
StoreFrame(h) ==
  /\ file'.funding = file.funding
     \/ /\ At(h, "anchor") /\ h \in seen /\ file.funding = 0
        /\ hand'[h].pc = "anchored" /\ file'.funding = hand[h].tx
  /\ "kind3" \in file'.names => "kind3" \in file.names \/ At(h, "kind3")
  /\ \A t \in Txs : Clean(t) => \/ Clean(t)'
                                \/ hand'[h].pc = "reserve" /\ hand'[h].tx = t
                                \/ At(h, "reserve") /\ hand[h].tx = t

\* A cancellation frees the fixed transaction before it ends.
FreeFrame(h) ==
  /\ hand'[h].pc = "finish" =>
       \/ file.funding = 0
       \/ At(h, "free-ledger") /\ hand'[h].tx = hand[h].tx /\ Clean(hand[h].tx)'
  /\ hand'[h].pc \in {"free", "free-ledger"} =>
       \/ hand[h].pc \in {"free", "free-ledger"} /\ hand'[h].tx = hand[h].tx
       \/ file.funding \in {0, hand'[h].tx}

Frame(h) ==
  /\ Only(h) /\ UNCHANGED restarts
  /\ SessionFrame(h) /\ BuildFrame(h) /\ StoreFrame(h) /\ FreeFrame(h)

-----------------------------------------------------------------------------
(* Steps that touch neither the money nor the evidence on file.            *)

Journal(h) ==
  /\ Only(h)
  /\ session' \in SessionRecords
  /\ seen' \subseteq Handlers
  /\ UNCHANGED <<file, money, bounds>>

\* Such a step keeps the invariant when it keeps what its handler knows.
LEMMA JournalKeeps ==
  ASSUME FundingInv, NEW h \in Handlers, Journal(h), hand[h].pc # "mark-outbox",
         h = "link" /\ hand'[h].pc \in {"configure", "configured", "fund"} =>
           hand[h].pc \in {"configure", "configured", "fund"},
         SessionKnown', OpenIsFunded', HandKnown(h)',
         h = "link" => LinkKnown', h = "side" => SideKnown'
  PROVE  FundingInv'
<1>1. FundingTypeOK'
  BY SMT DEF FundingInv, FundingTypeOK, Journal, Only, SessionRecords, HandRecords, SomeTx, money, bounds
<1>2. Made'
  BY SMT DEF FundingInv, Made, Journal, Only, money, bounds, Handlers
<1>3. ASSUME NEW t \in Txs PROVE TxKnown(t)'
  BY SMT DEF FundingInv, TxKnown, Journal, Only, money, Handlers
<1>4. LinkKnown' /\ SideKnown'
  <2>1. h # "link" => LinkKnown'
    BY SMT DEF FundingInv, LinkKnown, Journal, Only, money, Handlers
  <2>2. h # "side" => SideKnown'
    BY SMT DEF FundingInv, SideKnown, Sent, Journal, Only, money, Handlers
  <2>. QED BY <2>1, <2>2
<1>5. ASSUME NEW g \in Handlers PROVE HandKnown(g)'
  BY SMT DEF FundingInv, HandKnown, Sent, Journal, Only, money
<1>. QED BY <1>1, <1>2, <1>3, <1>4, <1>5 DEF FundingInv

\* A refused opening changes nothing but the place of its handler.
LEMMA OpenRefusedKeeps ==
  ASSUME FundingInv, OpenRefused
  PROVE  FundingInv' /\ Frame("link")
<1>1. /\ Journal("link") /\ Moved("link")
      /\ session' = session
      /\ hand["link"].pc \in {"configure", "fund"} /\ hand'["link"].pc = "fail"
  BY GotoMoves, NewRecords, TypeFacts, SMT DEF FundingInv, OpenRefused, Journal, Moved, Steps, OpenSteps
<1>2. HandKnown("link")' /\ SessionKnown' /\ OpenIsFunded'
  BY <1>1, SMT DEF Journal, Only, Moved, money, FundingInv, LinkKnown, SideKnown, HandKnown,
       SessionKnown, OpenIsFunded, Sent, Late
<1>3. LinkKnown'
  BY <1>1, SMT DEF Journal, Only, Moved, money, FundingInv, LinkKnown, SideKnown, HandKnown,
       SessionKnown, Sent, Building, Late, Handlers
<1>4. SessionFrame("link")
  BY GotoMoves, <1>1, NewRecords, TypeFacts, SMT DEF FundingInv, OpenRefused, At, Steps, OpenSteps,
       SubmitSteps, Freeing, AnswerSteps, SessionFrame
<1>5. BuildFrame("link") /\ StoreFrame("link") /\ FreeFrame("link")
  BY <1>1, SMT DEF Journal, Moved, At, Building, BuildFrame, StoreFrame, FreeFrame, Clean, money
<1>. QED BY <1>1, <1>2, <1>3, <1>4, <1>5, JournalKeeps, SMT DEF Handlers, Frame, Journal, bounds

\* The configuration is listed only in a record that is still the one read.
LEMMA ConfiguredKeeps ==
  ASSUME FundingInv, Configured
  PROVE  FundingInv' /\ Frame("link")
<1>1. /\ Listed({"config"}) \in SessionRecords
      /\ Listed({"config"}).phase = session.phase
         /\ Listed({"config"}).listed = session.listed \union {"config"}
  BY NewRecords, TypeFacts, SMT DEF FundingInv, Phases, Names
<1>2. hand["link"].pc = "configured" /\ Commit("link", Listed({"config"}),
        "fund", "fail")
  BY SMT DEF Configured, At
<1>3. ("fund") \in Steps /\ "fail" \in Steps
  BY SMT DEF Steps, OpenSteps, AnswerSteps, SubmitSteps, CancelSteps
<1>4. /\ Moved("link") /\ session' \in SessionRecords /\ seen' \subseteq Handlers
      /\ \/ /\ "link" \in seen /\ session' = Listed({"config"}) /\ seen' = {"link"}
            /\ hand'["link"].pc = "fund"
         \/ "link" \notin seen /\ UNCHANGED <<session, seen>> /\ hand'["link"].pc = "fail"
  BY <1>1, <1>2, <1>3, CommitMoves, TypeFacts, SMT DEF FundingInv
<1>5. Journal("link")
  BY <1>4, SMT DEF Configured, Journal, Moved
<1>6. HandKnown("link")' /\ SessionKnown' /\ OpenIsFunded'
  BY <1>1, <1>2, <1>4, <1>5, SMT DEF Journal, Only, Moved, money, FundingInv, LinkKnown, SideKnown,
       HandKnown, SessionKnown, OpenIsFunded, Sent, Late
<1>7. LinkKnown'
  BY <1>1, <1>2, <1>4, <1>5, SMT DEF Journal, Only, Moved, money, FundingInv, LinkKnown, SideKnown,
       HandKnown, SessionKnown, Sent, Building, Late, Handlers
<1>8. SessionFrame("link")
  BY <1>1, <1>2, <1>4, <1>5, SMT DEF FundingInv, HandKnown, LinkKnown, Freeing, AnswerSteps, SessionFrame
<1>9. BuildFrame("link") /\ StoreFrame("link") /\ FreeFrame("link")
  BY <1>1, <1>2, <1>4, <1>5, SMT DEF Journal, Moved, At, Building, BuildFrame, StoreFrame, FreeFrame,
       Clean, money
<1>. QED BY <1>1, <1>2, <1>4, <1>5, <1>6, <1>7, <1>8, <1>9, JournalKeeps, SMT DEF Handlers, Frame,
              Journal, bounds

\* A funding that was fixed before is announced for its own transaction.
LEMMA FundedAgainKeeps ==
  ASSUME FundingInv, FundedAgain
  PROVE  FundingInv' /\ Frame("link")
<1>1. /\ Pending("funding-prepared", hand["link"].tx) \in SessionRecords
      /\ Pending("funding-prepared", hand["link"].tx).phase = "funding-prepared"
         /\ Pending("funding-prepared", hand["link"].tx).listed = session.listed
  BY NewRecords, TypeFacts, SMT DEF FundingInv, Phases, Names
<1>2. hand["link"].pc = "funded-again" /\ Commit("link", Pending("funding-prepared", hand["link"].tx),
        "sign", "fail")
  BY SMT DEF FundedAgain, At
<1>3. ("sign") \in Steps /\ "fail" \in Steps
  BY SMT DEF Steps, OpenSteps, AnswerSteps, SubmitSteps, CancelSteps
<1>4. /\ Moved("link") /\ session' \in SessionRecords /\ seen' \subseteq Handlers
      /\ \/ /\ "link" \in seen /\ session' = Pending("funding-prepared", hand["link"].tx)
               /\ seen' = {"link"}
            /\ hand'["link"].pc = "sign"
         \/ "link" \notin seen /\ UNCHANGED <<session, seen>> /\ hand'["link"].pc = "fail"
  BY <1>1, <1>2, <1>3, CommitMoves, TypeFacts, SMT DEF FundingInv
<1>5. Journal("link")
  BY <1>4, SMT DEF FundedAgain, Journal, Moved
<1>6. HandKnown("link")' /\ SessionKnown' /\ OpenIsFunded'
  BY <1>1, <1>2, <1>4, <1>5, SMT DEF Journal, Only, Moved, money, FundingInv, LinkKnown, SideKnown,
       HandKnown, SessionKnown, OpenIsFunded, Sent, Late
<1>7. LinkKnown'
  BY <1>1, <1>2, <1>4, <1>5, SMT DEF Journal, Only, Moved, money, FundingInv, LinkKnown, SideKnown,
       HandKnown, SessionKnown, Sent, Building, Late, Handlers
<1>8. SessionFrame("link")
  BY <1>1, <1>2, <1>4, <1>5, SMT DEF FundingInv, HandKnown, LinkKnown, Freeing, AnswerSteps, SessionFrame
<1>9. BuildFrame("link") /\ StoreFrame("link") /\ FreeFrame("link")
  BY <1>1, <1>2, <1>4, <1>5, SMT DEF Journal, Moved, At, Building, BuildFrame, StoreFrame, FreeFrame,
       Clean, money
<1>. QED BY <1>1, <1>2, <1>4, <1>5, <1>6, <1>7, <1>8, <1>9, JournalKeeps, SMT DEF Handlers, Frame,
              Journal, bounds

\* The fixed transaction is listed, or its opening takes it back.
LEMMA AnchoredKeeps ==
  ASSUME FundingInv, Anchored
  PROVE  FundingInv' /\ Frame("link")
<1>1. /\ Listed({"funding"}) \in SessionRecords
      /\ Listed({"funding"}).phase = session.phase
         /\ Listed({"funding"}).listed = session.listed \union {"funding"}
  BY NewRecords, TypeFacts, SMT DEF FundingInv, Phases, Names
<1>2. hand["link"].pc = "anchored" /\ Commit("link", Listed({"funding"}),
        "outbox", "undo")
  BY SMT DEF Anchored, At
<1>3. ("outbox") \in Steps /\ "undo" \in Steps
  BY SMT DEF Steps, OpenSteps, AnswerSteps, SubmitSteps, CancelSteps
<1>4. /\ Moved("link") /\ session' \in SessionRecords /\ seen' \subseteq Handlers
      /\ \/ /\ "link" \in seen /\ session' = Listed({"funding"}) /\ seen' = {"link"}
            /\ hand'["link"].pc = "outbox"
         \/ "link" \notin seen /\ UNCHANGED <<session, seen>> /\ hand'["link"].pc = "undo"
  BY <1>1, <1>2, <1>3, CommitMoves, TypeFacts, SMT DEF FundingInv
<1>5. Journal("link")
  BY <1>4, SMT DEF Anchored, Journal, Moved
<1>6. HandKnown("link")' /\ SessionKnown' /\ OpenIsFunded'
  BY <1>1, <1>2, <1>4, <1>5, SMT DEF Journal, Only, Moved, money, FundingInv, LinkKnown, SideKnown,
       HandKnown, SessionKnown, OpenIsFunded, Sent, Late
<1>7. LinkKnown'
  BY <1>1, <1>2, <1>4, <1>5, SMT DEF Journal, Only, Moved, money, FundingInv, LinkKnown, SideKnown,
       HandKnown, SessionKnown, Sent, Building, Late, Handlers
<1>8. SessionFrame("link")
  BY <1>1, <1>2, <1>4, <1>5, SMT DEF FundingInv, HandKnown, LinkKnown, Freeing, AnswerSteps, SessionFrame
<1>9. BuildFrame("link") /\ StoreFrame("link") /\ FreeFrame("link")
  BY <1>1, <1>2, <1>4, <1>5, SMT DEF Journal, Moved, At, Building, BuildFrame, StoreFrame, FreeFrame,
       Clean, money
<1>. QED BY <1>1, <1>2, <1>4, <1>5, <1>6, <1>7, <1>8, <1>9, JournalKeeps, SMT DEF Handlers, Frame,
              Journal, bounds

\* The session awaits the transaction whose outbox entry was just written.
LEMMA PreparedKeeps ==
  ASSUME FundingInv, Prepared
  PROVE  FundingInv' /\ Frame("link")
<1>1. /\ Pending("funding-prepared", hand["link"].tx) \in SessionRecords
      /\ Pending("funding-prepared", hand["link"].tx).phase = "funding-prepared"
         /\ Pending("funding-prepared", hand["link"].tx).listed = session.listed
  BY NewRecords, TypeFacts, SMT DEF FundingInv, Phases, Names
<1>2. hand["link"].pc = "prepared" /\ Commit("link", Pending("funding-prepared", hand["link"].tx),
        "sign", "undo")
  BY SMT DEF Prepared, At
<1>3. ("sign") \in Steps /\ "undo" \in Steps
  BY SMT DEF Steps, OpenSteps, AnswerSteps, SubmitSteps, CancelSteps
<1>4. /\ Moved("link") /\ session' \in SessionRecords /\ seen' \subseteq Handlers
      /\ \/ /\ "link" \in seen /\ session' = Pending("funding-prepared", hand["link"].tx)
               /\ seen' = {"link"}
            /\ hand'["link"].pc = "sign"
         \/ "link" \notin seen /\ UNCHANGED <<session, seen>> /\ hand'["link"].pc = "undo"
  BY <1>1, <1>2, <1>3, CommitMoves, TypeFacts, SMT DEF FundingInv
<1>5. Journal("link")
  BY <1>4, SMT DEF Prepared, Journal, Moved
<1>6. HandKnown("link")' /\ SessionKnown' /\ OpenIsFunded'
  BY <1>1, <1>2, <1>4, <1>5, SMT DEF Journal, Only, Moved, money, FundingInv, LinkKnown, SideKnown,
       HandKnown, SessionKnown, OpenIsFunded, Sent, Late
<1>7. LinkKnown'
  BY <1>1, <1>2, <1>4, <1>5, SMT DEF Journal, Only, Moved, money, FundingInv, LinkKnown, SideKnown,
       HandKnown, SessionKnown, Sent, Building, Late, Handlers
<1>8. SessionFrame("link")
  BY <1>1, <1>2, <1>4, <1>5, SMT DEF FundingInv, HandKnown, LinkKnown, Freeing, AnswerSteps, SessionFrame
<1>9. BuildFrame("link") /\ StoreFrame("link") /\ FreeFrame("link")
  BY <1>1, <1>2, <1>4, <1>5, SMT DEF Journal, Moved, At, Building, BuildFrame, StoreFrame, FreeFrame,
       Clean, money
<1>. QED BY <1>1, <1>2, <1>4, <1>5, <1>6, <1>7, <1>8, <1>9, JournalKeeps, SMT DEF Handlers, Frame,
              Journal, bounds

\* A signature that comes too late fails the opening and moves no money.
LEMMA SignKeeps ==
  ASSUME FundingInv, Sign
  PROVE  FundingInv' /\ Frame("link")
<1>1. /\ Journal("link") /\ Moved("link")
      /\ session'.phase = session.phase
      /\ hand["link"].pc = "sign" /\ hand'["link"].pc \in {"kind2", "fail"}
  BY GotoMoves, NewRecords, TypeFacts, SMT DEF FundingInv, Sign, Journal, Moved, At, Steps, OpenSteps,
       Names
<1>2. HandKnown("link")' /\ SessionKnown' /\ OpenIsFunded'
  BY <1>1, SMT DEF Journal, Only, Moved, money, FundingInv, LinkKnown, SideKnown, HandKnown,
       SessionKnown, OpenIsFunded, Sent, Late
<1>3. LinkKnown'
  BY <1>1, SMT DEF Journal, Only, Moved, money, FundingInv, LinkKnown, SideKnown, HandKnown,
       SessionKnown, Sent, Building, Late, Handlers
<1>4. SessionFrame("link")
  BY GotoMoves, <1>1, NewRecords, TypeFacts, SMT DEF FundingInv, Sign, At, Steps, OpenSteps,
       SubmitSteps, CancelSteps, Freeing, AnswerSteps, SessionFrame
<1>5. BuildFrame("link") /\ StoreFrame("link") /\ FreeFrame("link")
  BY <1>1, SMT DEF Journal, Moved, At, Building, BuildFrame, StoreFrame, FreeFrame, Clean, money
<1>. QED BY <1>1, <1>2, <1>3, <1>4, <1>5, JournalKeeps, SMT DEF Handlers, Frame, Journal, bounds

\* Kind 2 is listed only in a record that is still the one read.
LEMMA SignedKeeps ==
  ASSUME FundingInv, Signed
  PROVE  FundingInv' /\ Frame("link")
<1>1. /\ Listed({"kind2"}) \in SessionRecords
      /\ Listed({"kind2"}).phase = session.phase
         /\ Listed({"kind2"}).listed = session.listed \union {"kind2"}
  BY NewRecords, TypeFacts, SMT DEF FundingInv, Phases, Names
<1>2. hand["link"].pc = "signed" /\ Commit("link", Listed({"kind2"}),
        "present", "fail")
  BY SMT DEF Signed, At
<1>3. ("present") \in Steps /\ "fail" \in Steps
  BY SMT DEF Steps, OpenSteps, AnswerSteps, SubmitSteps, CancelSteps
<1>4. /\ Moved("link") /\ session' \in SessionRecords /\ seen' \subseteq Handlers
      /\ \/ /\ "link" \in seen /\ session' = Listed({"kind2"}) /\ seen' = {"link"}
            /\ hand'["link"].pc = "present"
         \/ "link" \notin seen /\ UNCHANGED <<session, seen>> /\ hand'["link"].pc = "fail"
  BY <1>1, <1>2, <1>3, CommitMoves, TypeFacts, SMT DEF FundingInv
<1>5. Journal("link")
  BY <1>4, SMT DEF Signed, Journal, Moved
<1>6. HandKnown("link")' /\ SessionKnown' /\ OpenIsFunded'
  BY <1>1, <1>2, <1>4, <1>5, SMT DEF Journal, Only, Moved, money, FundingInv, LinkKnown, SideKnown,
       HandKnown, SessionKnown, OpenIsFunded, Sent, Late
<1>7. LinkKnown'
  BY <1>1, <1>2, <1>4, <1>5, SMT DEF Journal, Only, Moved, money, FundingInv, LinkKnown, SideKnown,
       HandKnown, SessionKnown, Sent, Building, Late, Handlers
<1>8. SessionFrame("link")
  BY <1>1, <1>2, <1>4, <1>5, SMT DEF FundingInv, HandKnown, LinkKnown, Freeing, AnswerSteps, SessionFrame
<1>9. BuildFrame("link") /\ StoreFrame("link") /\ FreeFrame("link")
  BY <1>1, <1>2, <1>4, <1>5, SMT DEF Journal, Moved, At, Building, BuildFrame, StoreFrame, FreeFrame,
       Clean, money
<1>. QED BY <1>1, <1>2, <1>4, <1>5, <1>6, <1>7, <1>8, <1>9, JournalKeeps, SMT DEF Handlers, Frame,
              Journal, bounds

\* The opening is presented for the fixed transaction.
LEMMA PresentKeeps ==
  ASSUME FundingInv, Present
  PROVE  FundingInv' /\ Frame("link")
<1>1. /\ Pending("opening-presign", file.funding) \in SessionRecords
      /\ Pending("opening-presign", file.funding).phase = "opening-presign"
         /\ Pending("opening-presign", file.funding).listed = session.listed
  BY NewRecords, TypeFacts, SMT DEF FundingInv, Phases, Names
<1>2. hand["link"].pc = "present" /\ Commit("link", Pending("opening-presign", file.funding),
        "send", "fail")
  BY SMT DEF Present, At
<1>3. ("send") \in Steps /\ "fail" \in Steps
  BY SMT DEF Steps, OpenSteps, AnswerSteps, SubmitSteps, CancelSteps
<1>4. /\ Moved("link") /\ session' \in SessionRecords /\ seen' \subseteq Handlers
      /\ \/ /\ "link" \in seen /\ session' = Pending("opening-presign", file.funding) /\ seen' = {"link"}
            /\ hand'["link"].pc = "send"
         \/ "link" \notin seen /\ UNCHANGED <<session, seen>> /\ hand'["link"].pc = "fail"
  BY <1>1, <1>2, <1>3, CommitMoves, TypeFacts, SMT DEF FundingInv
<1>5. Journal("link")
  BY <1>4, SMT DEF Present, Journal, Moved
<1>6. HandKnown("link")' /\ SessionKnown' /\ OpenIsFunded'
  BY <1>1, <1>2, <1>4, <1>5, SMT DEF Journal, Only, Moved, money, FundingInv, LinkKnown, SideKnown,
       HandKnown, SessionKnown, OpenIsFunded, Sent, Late
<1>7. LinkKnown'
  BY <1>1, <1>2, <1>4, <1>5, SMT DEF Journal, Only, Moved, money, FundingInv, LinkKnown, SideKnown,
       HandKnown, SessionKnown, Sent, Building, Late, Handlers
<1>8. SessionFrame("link")
  BY <1>1, <1>2, <1>4, <1>5, SMT DEF FundingInv, HandKnown, LinkKnown, Freeing, AnswerSteps, SessionFrame
<1>9. BuildFrame("link") /\ StoreFrame("link") /\ FreeFrame("link")
  BY <1>1, <1>2, <1>4, <1>5, SMT DEF Journal, Moved, At, Building, BuildFrame, StoreFrame, FreeFrame,
       Clean, money
<1>. QED BY <1>1, <1>2, <1>4, <1>5, <1>6, <1>7, <1>8, <1>9, JournalKeeps, SMT DEF Handlers, Frame,
              Journal, bounds

\* Sending Kind 2, or not, ends the opening.
LEMMA SendKeeps ==
  ASSUME FundingInv, Send
  PROVE  FundingInv' /\ Frame("link")
<1>1. /\ Journal("link") /\ Moved("link")
      /\ session' = session
      /\ hand["link"].pc = "send" /\ hand'["link"].pc \in {"idle", "fail"}
  BY GotoMoves, NewRecords, TypeFacts, SMT DEF FundingInv, Send, Journal, Moved, At, Steps, OpenSteps,
       Return
<1>2. HandKnown("link")' /\ SessionKnown' /\ OpenIsFunded'
  BY <1>1, SMT DEF Journal, Only, Moved, money, FundingInv, LinkKnown, SideKnown, HandKnown,
       SessionKnown, OpenIsFunded, Sent, Late
<1>3. LinkKnown'
  BY <1>1, SMT DEF Journal, Only, Moved, money, FundingInv, LinkKnown, SideKnown, HandKnown,
       SessionKnown, Sent, Building, Late, Handlers
<1>4. SessionFrame("link")
  BY GotoMoves, <1>1, NewRecords, TypeFacts, SMT DEF FundingInv, Send, At, Steps, OpenSteps,
       SubmitSteps, CancelSteps, Freeing, AnswerSteps, SessionFrame
<1>5. BuildFrame("link") /\ StoreFrame("link") /\ FreeFrame("link")
  BY <1>1, SMT DEF Journal, Moved, At, Building, BuildFrame, StoreFrame, FreeFrame, Clean, money
<1>. QED BY <1>1, <1>2, <1>3, <1>4, <1>5, JournalKeeps, SMT DEF Handlers, Frame, Journal, bounds

\* A failure is marked after the record was read again.
LEMMA FailKeeps ==
  ASSUME FundingInv, Fail
  PROVE  FundingInv' /\ Frame("link")
<1>1. /\ Journal("link") /\ Moved("link")
      /\ session' = session
      /\ hand["link"].pc = "fail" /\ hand'["link"].pc \in {"idle", "mark"}
  BY GotoMoves, NewRecords, TypeFacts, SMT DEF FundingInv, Fail, Journal, Moved, Only, At, Steps,
       OpenSteps, Return, Read
<1>2. HandKnown("link")' /\ SessionKnown' /\ OpenIsFunded'
  BY <1>1, SMT DEF Journal, Only, Moved, money, FundingInv, LinkKnown, SideKnown, HandKnown,
       SessionKnown, OpenIsFunded, Sent, Late
<1>3. LinkKnown'
  BY <1>1, SMT DEF Journal, Only, Moved, money, FundingInv, LinkKnown, SideKnown, HandKnown,
       SessionKnown, Sent, Building, Late, Handlers
<1>4. SessionFrame("link")
  BY GotoMoves, <1>1, NewRecords, TypeFacts, SMT DEF FundingInv, Fail, At, Steps, OpenSteps,
       SubmitSteps, CancelSteps, Freeing, AnswerSteps, SessionFrame, Read
<1>5. BuildFrame("link") /\ StoreFrame("link") /\ FreeFrame("link")
  BY <1>1, SMT DEF Journal, Moved, At, Building, BuildFrame, StoreFrame, FreeFrame, Clean, money
<1>. QED BY <1>1, <1>2, <1>3, <1>4, <1>5, JournalKeeps, SMT DEF Handlers, Frame, Journal, bounds

\* A failed session keeps its evidence; a conflict is swallowed.
LEMMA MarkFailedKeeps ==
  ASSUME FundingInv, MarkFailed
  PROVE  FundingInv' /\ Frame("link")
<1>1. /\ Journal("link") /\ Moved("link")
      /\ session'.phase \in {session.phase, "failed"}
      /\ hand["link"].pc = "mark" /\ hand'["link"].pc = "idle"
  BY GotoMoves, NewRecords, TypeFacts, SMT DEF FundingInv, MarkFailed, Journal, Moved, Only, At, Return,
       Phases
<1>2. HandKnown("link")' /\ SessionKnown' /\ OpenIsFunded'
  BY <1>1, SMT DEF Journal, Only, Moved, money, FundingInv, LinkKnown, SideKnown, HandKnown,
       SessionKnown, OpenIsFunded, Sent, Late
<1>3. LinkKnown'
  BY <1>1, SMT DEF Journal, Only, Moved, money, FundingInv, LinkKnown, SideKnown, HandKnown,
       SessionKnown, Sent, Building, Late, Handlers
<1>4. SessionFrame("link")
  BY GotoMoves, <1>1, NewRecords, TypeFacts, SMT DEF FundingInv, MarkFailed, At, Steps, OpenSteps,
       SubmitSteps, CancelSteps, Freeing, AnswerSteps, SessionFrame, Phases
<1>5. BuildFrame("link") /\ StoreFrame("link") /\ FreeFrame("link")
  BY <1>1, SMT DEF Journal, Moved, At, Building, BuildFrame, StoreFrame, FreeFrame, Clean, money
<1>. QED BY <1>1, <1>2, <1>3, <1>4, <1>5, JournalKeeps, SMT DEF Handlers, Frame, Journal, bounds

\* An answer is stored, accepted or submitted only where Kind 3 is new or on file.
LEMMA RespondKeeps ==
  ASSUME FundingInv, Respond
  PROVE  FundingInv' /\ Frame("link")
<1>1. /\ Journal("link") /\ Moved("link")
      /\ session' = session
      /\ hand["link"].pc = "idle"
      /\ \/ "kind4" \in file.names /\ hand'["link"].pc = "delivered"
         \/ hand'["link"].pc = "kind3"
         \/ "kind3" \in file.names /\ hand'["link"].pc \in {"accept", "submit"}
  BY GotoMoves, NewRecords, TypeFacts, SMT DEF FundingInv, Respond, Journal, Moved, Only, At, Steps,
       AnswerSteps, SubmitSteps, Read
<1>2. HandKnown("link")' /\ SessionKnown' /\ OpenIsFunded'
  BY <1>1, SMT DEF Journal, Only, Moved, money, FundingInv, LinkKnown, SideKnown, HandKnown,
       SessionKnown, OpenIsFunded, Sent, Late
<1>3. LinkKnown'
  BY <1>1, SMT DEF Journal, Only, Moved, money, FundingInv, LinkKnown, SideKnown, HandKnown,
       SessionKnown, Sent, Building, Late, Handlers
<1>4. SessionFrame("link")
  BY GotoMoves, <1>1, NewRecords, TypeFacts, SMT DEF FundingInv, Respond, At, Steps, OpenSteps,
       SubmitSteps, SessionFrame, Read
<1>5. BuildFrame("link") /\ StoreFrame("link") /\ FreeFrame("link")
  BY <1>1, SMT DEF Journal, Moved, At, Building, BuildFrame, StoreFrame, FreeFrame, Clean, money
<1>. QED BY <1>1, <1>2, <1>3, <1>4, <1>5, JournalKeeps, SMT DEF Handlers, Frame, Journal, bounds

\* Kind 4 on file means an open pool, so the session may be funded.
LEMMA DeliveredKeeps ==
  ASSUME FundingInv, Delivered
  PROVE  FundingInv' /\ Frame("link")
<1>1. Pending("funded", 0) \in SessionRecords /\ Pending("funded", 0).phase = "funded"
  BY NewRecords, TypeFacts, SMT DEF FundingInv, Phases, Names
<1>2. /\ Journal("link") /\ Moved("link")
      /\ session'.phase \in {session.phase, "funded"}
      /\ hand["link"].pc = "delivered" /\ hand'["link"].pc = "idle"
  BY <1>1, GotoMoves, NewRecords, TypeFacts, SMT DEF FundingInv, Delivered, Journal, Moved, Only, At,
       Return
<1>3. HandKnown("link")' /\ SessionKnown' /\ OpenIsFunded'
  BY <1>1, <1>2, SMT DEF Journal, Only, Moved, money, FundingInv, LinkKnown, SideKnown, HandKnown,
       SessionKnown, OpenIsFunded, Sent, Late
<1>4. LinkKnown'
  BY <1>1, <1>2, SMT DEF Journal, Only, Moved, money, FundingInv, LinkKnown, SideKnown, HandKnown,
       SessionKnown, Sent, Building, Late, Handlers
<1>5. SessionFrame("link")
  BY <1>1, GotoMoves, <1>2, NewRecords, TypeFacts, SMT DEF FundingInv, Delivered, At, Steps, OpenSteps,
       SubmitSteps, CancelSteps, Freeing, SessionFrame
<1>6. BuildFrame("link") /\ StoreFrame("link") /\ FreeFrame("link")
  BY <1>1, <1>2, SMT DEF Journal, Moved, At, Building, BuildFrame, StoreFrame, FreeFrame, Clean, money
<1>. QED BY <1>1, <1>2, <1>3, <1>4, <1>5, <1>6, JournalKeeps, SMT DEF Handlers, Frame, Journal, bounds

\* The answer goes on with Kind 3 on file.
LEMMA AnsweredKeeps ==
  ASSUME FundingInv, Answered
  PROVE  FundingInv' /\ Frame("link")
<1>1. /\ Listed({"kind3"}) \in SessionRecords
      /\ Listed({"kind3"}).phase = session.phase
         /\ Listed({"kind3"}).listed = session.listed \union {"kind3"}
  BY NewRecords, TypeFacts, SMT DEF FundingInv, Phases, Names
<1>2. hand["link"].pc = "answered" /\ Commit("link", Listed({"kind3"}),
        IF session.phase = "opening-presign" THEN "accept" ELSE "submit", "idle")
  BY SMT DEF Answered, At
<1>3. (IF session.phase = "opening-presign" THEN "accept" ELSE "submit") \in Steps /\ "idle" \in Steps
  BY SMT DEF Steps, OpenSteps, AnswerSteps, SubmitSteps, CancelSteps
<1>4. /\ Moved("link") /\ session' \in SessionRecords /\ seen' \subseteq Handlers
      /\ \/ /\ "link" \in seen /\ session' = Listed({"kind3"}) /\ seen' = {"link"}
            /\ hand'["link"].pc = IF session.phase = "opening-presign" THEN "accept" ELSE "submit"
         \/ "link" \notin seen /\ UNCHANGED <<session, seen>> /\ hand'["link"].pc = "idle"
  BY <1>1, <1>2, <1>3, CommitMoves, TypeFacts, SMT DEF FundingInv
<1>5. Journal("link")
  BY <1>4, SMT DEF Answered, Journal, Moved
<1>6. HandKnown("link")' /\ SessionKnown' /\ OpenIsFunded'
  BY <1>1, <1>2, <1>4, <1>5, SMT DEF Journal, Only, Moved, money, FundingInv, LinkKnown, SideKnown,
       HandKnown, SessionKnown, OpenIsFunded, Sent, Late
<1>7. LinkKnown'
  BY <1>1, <1>2, <1>4, <1>5, SMT DEF Journal, Only, Moved, money, FundingInv, LinkKnown, SideKnown,
       HandKnown, SessionKnown, Sent, Building, Late, Handlers
<1>8. SessionFrame("link")
  BY <1>1, <1>2, <1>4, <1>5, SMT DEF FundingInv, HandKnown, LinkKnown, Freeing, AnswerSteps, SessionFrame
<1>9. BuildFrame("link") /\ StoreFrame("link") /\ FreeFrame("link")
  BY <1>1, <1>2, <1>4, <1>5, SMT DEF Journal, Moved, At, Building, BuildFrame, StoreFrame, FreeFrame,
       Clean, money
<1>. QED BY <1>1, <1>2, <1>4, <1>5, <1>6, <1>7, <1>8, <1>9, JournalKeeps, SMT DEF Handlers, Frame,
              Journal, bounds

\* An accepted answer returns the session to the prepared funding.
LEMMA AcceptKeeps ==
  ASSUME FundingInv, Accept
  PROVE  FundingInv' /\ Frame("link")
<1>1. /\ InPhase("funding-prepared") \in SessionRecords
      /\ InPhase("funding-prepared").phase = "funding-prepared"
         /\ InPhase("funding-prepared").listed = session.listed
  BY NewRecords, TypeFacts, SMT DEF FundingInv, Phases, Names
<1>2. hand["link"].pc = "accept" /\ Commit("link", InPhase("funding-prepared"),
        "submit", "idle")
  BY SMT DEF Accept, At
<1>3. ("submit") \in Steps /\ "idle" \in Steps
  BY SMT DEF Steps, OpenSteps, AnswerSteps, SubmitSteps, CancelSteps
<1>4. /\ Moved("link") /\ session' \in SessionRecords /\ seen' \subseteq Handlers
      /\ \/ /\ "link" \in seen /\ session' = InPhase("funding-prepared") /\ seen' = {"link"}
            /\ hand'["link"].pc = "submit"
         \/ "link" \notin seen /\ UNCHANGED <<session, seen>> /\ hand'["link"].pc = "idle"
  BY <1>1, <1>2, <1>3, CommitMoves, TypeFacts, SMT DEF FundingInv
<1>5. Journal("link")
  BY <1>4, SMT DEF Accept, Journal, Moved
<1>6. HandKnown("link")' /\ SessionKnown' /\ OpenIsFunded'
  BY <1>1, <1>2, <1>4, <1>5, SMT DEF Journal, Only, Moved, money, FundingInv, LinkKnown, SideKnown,
       HandKnown, SessionKnown, OpenIsFunded, Sent, Late
<1>7. LinkKnown'
  BY <1>1, <1>2, <1>4, <1>5, SMT DEF Journal, Only, Moved, money, FundingInv, LinkKnown, SideKnown,
       HandKnown, SessionKnown, Sent, Building, Late, Handlers
<1>8. SessionFrame("link")
  BY <1>1, <1>2, <1>4, <1>5, SMT DEF FundingInv, HandKnown, LinkKnown, Freeing, AnswerSteps, SessionFrame
<1>9. BuildFrame("link") /\ StoreFrame("link") /\ FreeFrame("link")
  BY <1>1, <1>2, <1>4, <1>5, SMT DEF Journal, Moved, At, Building, BuildFrame, StoreFrame, FreeFrame,
       Clean, money
<1>. QED BY <1>1, <1>2, <1>4, <1>5, <1>6, <1>7, <1>8, <1>9, JournalKeeps, SMT DEF Handlers, Frame,
              Journal, bounds

\* The session waits only for a transaction that was dispatched.
LEMMA UnknownPhaseKeeps ==
  ASSUME FundingInv, NEW h \in Handlers, UnknownPhase(h)
  PROVE  FundingInv' /\ Frame(h)
<1>1. Pending("funding-unknown", hand[h].tx) \in SessionRecords
      /\ Pending("funding-unknown", hand[h].tx).phase = "funding-unknown"
  BY NewRecords, TypeFacts, SMT DEF FundingInv, Phases, Names
<1>2. /\ Journal(h) /\ Moved(h)
      /\ session'.phase \in {session.phase, "funding-unknown"}
      /\ hand[h].pc = "unknown-phase"
      /\ hand'[h].pc = "idle" \/ (h = "link" /\ hand'[h].pc = "submit")
  BY <1>1, GotoMoves, NewRecords, TypeFacts, SMT DEF FundingInv, UnknownPhase, Journal, Moved, Only, At,
       Steps, SubmitSteps, Return
<1>3. HandKnown(h)' /\ SessionKnown' /\ OpenIsFunded'
  BY <1>1, <1>2, SMT DEF Journal, Only, Moved, money, FundingInv, LinkKnown, SideKnown, HandKnown,
       SessionKnown, OpenIsFunded, Sent, Late
<1>4. (h = "link" => LinkKnown') /\ (h = "side" => SideKnown')
  BY <1>1, <1>2, SMT DEF Journal, Only, Moved, money, FundingInv, LinkKnown, SideKnown, HandKnown,
       SessionKnown, Sent, Building, Late, Handlers, OpenSteps, AnswerSteps
<1>5. SessionFrame(h)
  BY <1>1, GotoMoves, <1>2, NewRecords, TypeFacts, SMT DEF FundingInv, UnknownPhase, At, Steps,
       OpenSteps, SubmitSteps, CancelSteps, Freeing, AnswerSteps, SessionFrame
<1>6. BuildFrame(h) /\ StoreFrame(h) /\ FreeFrame(h)
  BY <1>1, <1>2, SMT DEF Journal, Moved, At, Building, BuildFrame, StoreFrame, FreeFrame, Clean, money
<1>. QED BY <1>1, <1>2, <1>3, <1>4, <1>5, <1>6, JournalKeeps, SMT DEF Handlers, Frame, Journal, bounds

\* A failed dispatch fails the session, unless it failed before.
LEMMA FailedPhaseKeeps ==
  ASSUME FundingInv, NEW h \in Handlers, FailedPhase(h)
  PROVE  FundingInv' /\ Frame(h)
<1>1. /\ Moved(h) /\ hand[h].pc = "failed-phase" /\ hand'[h].pc = "idle"
  BY GotoMoves, TypeFacts, SMT DEF FundingInv, FailedPhase, Return, At
<1>2. /\ InPhase("failed") \in SessionRecords /\ InPhase("failed").phase = "failed"
      /\ session.phase = "failed" => InPhase("failed") = session
  BY NewRecords, SMT DEF FundingInv, Phases, InPhase, SessionRecords
<1>3. /\ session' \in SessionRecords /\ seen' \subseteq Handlers /\ session'.phase = "failed"
      /\ (session' = session /\ seen' = seen) \/ seen' = {h}
  BY <1>2, TypeFacts, SMT DEF FundingInv, FailedPhase
<1>4. Journal(h)
  BY <1>1, <1>3, SMT DEF FailedPhase, Journal, Moved
<1>5. HandKnown(h)' /\ SessionKnown' /\ OpenIsFunded'
  BY <1>1, <1>3, <1>4, SMT DEF Journal, Only, Moved, money, FundingInv, LinkKnown, SideKnown, HandKnown,
       SessionKnown, OpenIsFunded, Late
<1>6. (h = "link" => LinkKnown') /\ (h = "side" => SideKnown')
  BY <1>1, <1>3, <1>4, SMT DEF Journal, Only, Moved, money, FundingInv, LinkKnown, SideKnown, HandKnown,
       SessionKnown, Sent, Building, Late, Handlers, OpenSteps, AnswerSteps
<1>7. SessionFrame(h)
  BY <1>1, <1>3, <1>4, SMT DEF FundingInv, HandKnown, LinkKnown, Late, At, SessionFrame
<1>8. BuildFrame(h) /\ StoreFrame(h) /\ FreeFrame(h)
  BY <1>1, <1>3, <1>4, SMT DEF Journal, Moved, At, Building, BuildFrame, StoreFrame, FreeFrame, Clean,
       money
<1>. QED BY <1>1, <1>3, <1>4, <1>5, <1>6, <1>7, <1>8, JournalKeeps, SMT DEF Handlers, Frame, Journal,
              bounds

\* Kind 4 is listed only once it is on file.
LEMMA ProvenKeeps ==
  ASSUME FundingInv, NEW h \in Handlers, Proven(h)
  PROVE  FundingInv' /\ Frame(h)
<1>1. /\ Listed({"kind4"}) \in SessionRecords
      /\ Listed({"kind4"}).phase = session.phase
         /\ Listed({"kind4"}).listed = session.listed \union {"kind4"}
  BY NewRecords, TypeFacts, SMT DEF FundingInv, Phases, Names
<1>2. hand[h].pc = "proven" /\ Commit(h, Listed({"kind4"}),
        IF session.phase = "funded" THEN "idle" ELSE "funded", "idle")
  BY SMT DEF Proven, At
<1>3. (IF session.phase = "funded" THEN "idle" ELSE "funded") \in Steps /\ "idle" \in Steps
  BY SMT DEF Steps, OpenSteps, AnswerSteps, SubmitSteps, CancelSteps
<1>4. /\ Moved(h) /\ session' \in SessionRecords /\ seen' \subseteq Handlers
      /\ \/ /\ h \in seen /\ session' = Listed({"kind4"}) /\ seen' = {h}
            /\ hand'[h].pc = IF session.phase = "funded" THEN "idle" ELSE "funded"
         \/ h \notin seen /\ UNCHANGED <<session, seen>> /\ hand'[h].pc = "idle"
  BY <1>1, <1>2, <1>3, CommitMoves, TypeFacts, SMT DEF FundingInv
<1>5. Journal(h)
  BY <1>4, SMT DEF Proven, Journal, Moved
<1>6. HandKnown(h)' /\ SessionKnown' /\ OpenIsFunded'
  BY <1>1, <1>2, <1>4, <1>5, SMT DEF Journal, Only, Moved, money, FundingInv, LinkKnown, SideKnown,
       HandKnown, SessionKnown, OpenIsFunded, Sent, Late
<1>7. (h = "link" => LinkKnown') /\ (h = "side" => SideKnown')
  BY <1>1, <1>2, <1>4, <1>5, SMT DEF Journal, Only, Moved, money, FundingInv, LinkKnown, SideKnown,
       HandKnown, SessionKnown, Sent, Building, Late, Handlers, OpenSteps, AnswerSteps
<1>8. SessionFrame(h)
  BY <1>1, <1>2, <1>4, <1>5, SMT DEF FundingInv, HandKnown, LinkKnown, Late, Freeing, AnswerSteps,
       SessionFrame
<1>9. BuildFrame(h) /\ StoreFrame(h) /\ FreeFrame(h)
  BY <1>1, <1>2, <1>4, <1>5, SMT DEF Journal, Moved, At, Building, BuildFrame, StoreFrame, FreeFrame,
       Clean, money
<1>. QED BY <1>1, <1>2, <1>4, <1>5, <1>6, <1>7, <1>8, <1>9, JournalKeeps, SMT DEF Handlers, Frame,
              Journal, bounds

\* The session is funded only with the pool open and Kind 4 on file.
LEMMA FundedKeeps ==
  ASSUME FundingInv, NEW h \in Handlers, Funded(h)
  PROVE  FundingInv' /\ Frame(h)
<1>1. /\ Pending("funded", hand[h].tx) \in SessionRecords
      /\ Pending("funded", hand[h].tx).phase = "funded"
         /\ Pending("funded", hand[h].tx).listed = session.listed
  BY NewRecords, TypeFacts, SMT DEF FundingInv, Phases, Names
<1>2. hand[h].pc = "funded" /\ Commit(h, Pending("funded", hand[h].tx),
        "idle", "idle")
  BY SMT DEF Funded, At
<1>3. ("idle") \in Steps /\ "idle" \in Steps
  BY SMT DEF Steps, OpenSteps, AnswerSteps, SubmitSteps, CancelSteps
<1>4. /\ Moved(h) /\ session' \in SessionRecords /\ seen' \subseteq Handlers
      /\ \/ /\ h \in seen /\ session' = Pending("funded", hand[h].tx) /\ seen' = {h}
            /\ hand'[h].pc = "idle"
         \/ h \notin seen /\ UNCHANGED <<session, seen>> /\ hand'[h].pc = "idle"
  BY <1>1, <1>2, <1>3, CommitMoves, TypeFacts, SMT DEF FundingInv
<1>5. Journal(h)
  BY <1>4, SMT DEF Funded, Journal, Moved
<1>6. HandKnown(h)' /\ SessionKnown' /\ OpenIsFunded'
  BY <1>1, <1>2, <1>4, <1>5, SMT DEF Journal, Only, Moved, money, FundingInv, LinkKnown, SideKnown,
       HandKnown, SessionKnown, OpenIsFunded, Sent, Late
<1>7. (h = "link" => LinkKnown') /\ (h = "side" => SideKnown')
  BY <1>1, <1>2, <1>4, <1>5, SMT DEF Journal, Only, Moved, money, FundingInv, LinkKnown, SideKnown,
       HandKnown, SessionKnown, Sent, Building, Late, Handlers, OpenSteps, AnswerSteps
<1>8. SessionFrame(h)
  BY <1>1, <1>2, <1>4, <1>5, SMT DEF FundingInv, HandKnown, LinkKnown, Freeing, AnswerSteps, SessionFrame
<1>9. BuildFrame(h) /\ StoreFrame(h) /\ FreeFrame(h)
  BY <1>1, <1>2, <1>4, <1>5, SMT DEF Journal, Moved, At, Building, BuildFrame, StoreFrame, FreeFrame,
       Clean, money
<1>. QED BY <1>1, <1>2, <1>4, <1>5, <1>6, <1>7, <1>8, <1>9, JournalKeeps, SMT DEF Handlers, Frame,
              Journal, bounds

\* A cancellation starts from the record it read.
LEMMA CancelKeeps ==
  ASSUME FundingInv, NEW h \in Handlers, Cancel(h)
  PROVE  FundingInv' /\ Frame(h)
<1>1. /\ Journal(h) /\ Moved(h)
      /\ session' = session
      /\ hand[h].pc = "idle" /\ hand'[h].pc \in {"check", "withdraw", "intend"}
  BY GotoMoves, NewRecords, TypeFacts, SMT DEF FundingInv, Cancel, Journal, Moved, At, Steps,
       CancelSteps, Read
<1>2. HandKnown(h)' /\ SessionKnown' /\ OpenIsFunded'
  BY <1>1, SMT DEF Journal, Only, Moved, money, FundingInv, LinkKnown, SideKnown, HandKnown,
       SessionKnown, OpenIsFunded, Sent, Late
<1>3. (h = "link" => LinkKnown') /\ (h = "side" => SideKnown')
  BY <1>1, SMT DEF Journal, Only, Moved, money, FundingInv, LinkKnown, SideKnown, HandKnown,
       SessionKnown, Sent, Building, Late, Handlers, OpenSteps, AnswerSteps
<1>4. SessionFrame(h)
  BY GotoMoves, <1>1, NewRecords, TypeFacts, SMT DEF FundingInv, Cancel, At, Steps, OpenSteps,
       SubmitSteps, CancelSteps, Freeing, AnswerSteps, SessionFrame, Read
<1>5. BuildFrame(h) /\ StoreFrame(h) /\ FreeFrame(h)
  BY <1>1, SMT DEF Journal, Moved, At, Building, BuildFrame, StoreFrame, FreeFrame, Clean, money
<1>. QED BY <1>1, <1>2, <1>3, <1>4, <1>5, JournalKeeps, SMT DEF Handlers, Frame, Journal, bounds

\* A session with nothing prepared is cancelled at once.
LEMMA WithdrawKeeps ==
  ASSUME FundingInv, NEW h \in Handlers, Withdraw(h)
  PROVE  FundingInv' /\ Frame(h)
<1>1. /\ InPhase("cancelled") \in SessionRecords
      /\ InPhase("cancelled").phase = "cancelled" /\ InPhase("cancelled").listed = session.listed
  BY NewRecords, TypeFacts, SMT DEF FundingInv, Phases, Names
<1>2. hand[h].pc = "withdraw" /\ Commit(h, InPhase("cancelled"),
        "idle", "idle")
  BY SMT DEF Withdraw, At
<1>3. ("idle") \in Steps /\ "idle" \in Steps
  BY SMT DEF Steps, OpenSteps, AnswerSteps, SubmitSteps, CancelSteps
<1>4. /\ Moved(h) /\ session' \in SessionRecords /\ seen' \subseteq Handlers
      /\ \/ /\ h \in seen /\ session' = InPhase("cancelled") /\ seen' = {h}
            /\ hand'[h].pc = "idle"
         \/ h \notin seen /\ UNCHANGED <<session, seen>> /\ hand'[h].pc = "idle"
  BY <1>1, <1>2, <1>3, CommitMoves, TypeFacts, SMT DEF FundingInv
<1>5. Journal(h)
  BY <1>4, SMT DEF Withdraw, Journal, Moved
<1>6. HandKnown(h)' /\ SessionKnown' /\ OpenIsFunded'
  BY <1>1, <1>2, <1>4, <1>5, SMT DEF Journal, Only, Moved, money, FundingInv, LinkKnown, SideKnown,
       HandKnown, SessionKnown, OpenIsFunded, Sent, Late
<1>7. (h = "link" => LinkKnown') /\ (h = "side" => SideKnown')
  BY <1>1, <1>2, <1>4, <1>5, SMT DEF Journal, Only, Moved, money, FundingInv, LinkKnown, SideKnown,
       HandKnown, SessionKnown, Sent, Building, Late, Handlers, OpenSteps, AnswerSteps
<1>8. SessionFrame(h)
  BY <1>1, <1>2, <1>4, <1>5, SMT DEF FundingInv, HandKnown, LinkKnown, At, Freeing, AnswerSteps,
       SessionFrame
<1>9. BuildFrame(h) /\ StoreFrame(h) /\ FreeFrame(h)
  BY <1>1, <1>2, <1>4, <1>5, SMT DEF Journal, Moved, At, Building, BuildFrame, StoreFrame, FreeFrame,
       Clean, money
<1>. QED BY <1>1, <1>2, <1>4, <1>5, <1>6, <1>7, <1>8, <1>9, JournalKeeps, SMT DEF Handlers, Frame,
              Journal, bounds

\* The intent to cancel precedes every release.
LEMMA IntendKeeps ==
  ASSUME FundingInv, NEW h \in Handlers, Intend(h)
  PROVE  FundingInv' /\ Frame(h)
<1>1. /\ InPhase("cancel-opening") \in SessionRecords
      /\ InPhase("cancel-opening").phase = "cancel-opening"
         /\ InPhase("cancel-opening").listed = session.listed
  BY NewRecords, TypeFacts, SMT DEF FundingInv, Phases, Names
<1>2. hand[h].pc \in {"intend", "recover"} /\ Commit(h, InPhase("cancel-opening"),
        "check", "idle")
  BY SMT DEF Intend, At
<1>3. ("check") \in Steps /\ "idle" \in Steps
  BY SMT DEF Steps, OpenSteps, AnswerSteps, SubmitSteps, CancelSteps
<1>4. /\ Moved(h) /\ session' \in SessionRecords /\ seen' \subseteq Handlers
      /\ \/ /\ h \in seen /\ session' = InPhase("cancel-opening") /\ seen' = {h}
            /\ hand'[h].pc = "check"
         \/ h \notin seen /\ UNCHANGED <<session, seen>> /\ hand'[h].pc = "idle"
  BY <1>1, <1>2, <1>3, CommitMoves, TypeFacts, SMT DEF FundingInv
<1>5. Journal(h)
  BY <1>4, SMT DEF Intend, Journal, Moved
<1>6. HandKnown(h)' /\ SessionKnown' /\ OpenIsFunded'
  BY <1>1, <1>2, <1>4, <1>5, SMT DEF Journal, Only, Moved, money, FundingInv, LinkKnown, SideKnown,
       HandKnown, SessionKnown, OpenIsFunded, Sent, Late
<1>7. (h = "link" => LinkKnown') /\ (h = "side" => SideKnown')
  BY <1>1, <1>2, <1>4, <1>5, SMT DEF Journal, Only, Moved, money, FundingInv, LinkKnown, SideKnown,
       HandKnown, SessionKnown, Sent, Building, Late, Handlers, OpenSteps, AnswerSteps
<1>8. SessionFrame(h)
  BY <1>1, <1>2, <1>4, <1>5, SMT DEF FundingInv, HandKnown, LinkKnown, Freeing, AnswerSteps, SessionFrame
<1>9. BuildFrame(h) /\ StoreFrame(h) /\ FreeFrame(h)
  BY <1>1, <1>2, <1>4, <1>5, SMT DEF Journal, Moved, At, Building, BuildFrame, StoreFrame, FreeFrame,
       Clean, money
<1>. QED BY <1>1, <1>2, <1>4, <1>5, <1>6, <1>7, <1>8, <1>9, JournalKeeps, SMT DEF Handlers, Frame,
              Journal, bounds

\* A cancellation goes on only without the seller's answer.
LEMMA CheckKeeps ==
  ASSUME FundingInv, NEW h \in Handlers, Check(h)
  PROVE  FundingInv' /\ Frame(h)
<1>1. /\ Journal(h) /\ Moved(h)
      /\ session' = session
      /\ hand[h].pc = "check" /\ hand'[h].pc \in {"ledger", "idle"}
  BY GotoMoves, NewRecords, TypeFacts, SMT DEF FundingInv, Check, Journal, Moved, At, Steps,
       CancelSteps, Return
<1>2. HandKnown(h)' /\ SessionKnown' /\ OpenIsFunded'
  BY <1>1, SMT DEF Journal, Only, Moved, money, FundingInv, LinkKnown, SideKnown, HandKnown,
       SessionKnown, OpenIsFunded, Sent, Late
<1>3. (h = "link" => LinkKnown') /\ (h = "side" => SideKnown')
  BY <1>1, SMT DEF Journal, Only, Moved, money, FundingInv, LinkKnown, SideKnown, HandKnown,
       SessionKnown, Sent, Building, Late, Handlers, OpenSteps, AnswerSteps
<1>4. SessionFrame(h)
  BY GotoMoves, <1>1, NewRecords, TypeFacts, SMT DEF FundingInv, Check, At, Steps, OpenSteps,
       SubmitSteps, CancelSteps, Freeing, AnswerSteps, SessionFrame
<1>5. BuildFrame(h) /\ StoreFrame(h) /\ FreeFrame(h)
  BY <1>1, SMT DEF Journal, Moved, At, Building, BuildFrame, StoreFrame, FreeFrame, Clean, money
<1>. QED BY <1>1, <1>2, <1>3, <1>4, <1>5, JournalKeeps, SMT DEF Handlers, Frame, Journal, bounds

\* A cancellation ends with the session cancelled.
LEMMA FinishCancelKeeps ==
  ASSUME FundingInv, NEW h \in Handlers, FinishCancel(h)
  PROVE  FundingInv' /\ Frame(h)
<1>1. Pending("cancelled", 0) \in SessionRecords /\ Pending("cancelled", 0).phase = "cancelled"
  BY NewRecords, TypeFacts, SMT DEF FundingInv, Phases, Names
<1>2. /\ Journal(h) /\ Moved(h)
      /\ session'.phase \in {session.phase, "cancelled"}
      /\ hand[h].pc = "finish" /\ hand'[h].pc = "idle"
  BY <1>1, GotoMoves, NewRecords, TypeFacts, SMT DEF FundingInv, FinishCancel, Journal, Moved, Only, At,
       Return
<1>3. HandKnown(h)' /\ SessionKnown' /\ OpenIsFunded'
  BY <1>1, <1>2, SMT DEF Journal, Only, Moved, money, FundingInv, LinkKnown, SideKnown, HandKnown,
       SessionKnown, OpenIsFunded, Sent, Late
<1>4. (h = "link" => LinkKnown') /\ (h = "side" => SideKnown')
  BY <1>1, <1>2, SMT DEF Journal, Only, Moved, money, FundingInv, LinkKnown, SideKnown, HandKnown,
       SessionKnown, Sent, Building, Late, Handlers, OpenSteps, AnswerSteps
<1>5. SessionFrame(h)
  BY <1>1, GotoMoves, <1>2, NewRecords, TypeFacts, SMT DEF FundingInv, FinishCancel, At, Steps,
       OpenSteps, SubmitSteps, CancelSteps, Freeing, SessionFrame
<1>6. BuildFrame(h) /\ StoreFrame(h) /\ FreeFrame(h)
  BY <1>1, <1>2, SMT DEF Journal, Moved, At, Building, BuildFrame, StoreFrame, FreeFrame, Clean, money
<1>. QED BY <1>1, <1>2, <1>3, <1>4, <1>5, <1>6, JournalKeeps, SMT DEF Handlers, Frame, Journal, bounds

\* Only the link dispatches, and only what the outbox still holds as prepared.
LEMMA SubmitKeeps ==
  ASSUME FundingInv, NEW h \in Handlers, Submit(h)
  PROVE  FundingInv' /\ Frame(h)
<1>1. /\ Only(h) /\ hand[h].pc = "submit"
      /\ \/ hand'[h].pc = "idle"
         \/ /\ hand'[h].tx = file.funding /\ Reserved(file.funding)
            /\ hand'[h].pc = IF outbox[file.funding] = "prepared" THEN "dispatch"
                             ELSE IF outbox[file.funding] = "failed" THEN "release" ELSE "reconcile"
  BY TypeFacts, SMT DEF FundingInv, FundingTypeOK, Submit, Only, At, HandRecords, Idle, Steps,
       SubmitSteps
<1>2. Journal(h)
  BY <1>1, NewRecords, TypeFacts, SMT DEF FundingInv, Submit, Journal
<1>3. HandKnown(h)' /\ SessionKnown' /\ OpenIsFunded'
  BY <1>1, TypeFacts, SMT DEF Submit, FundingInv, LinkKnown, SideKnown, HandKnown, SessionKnown,
       OpenIsFunded, Sent, Late, Reserved, Handlers, money
<1>4. file.funding = 0 \/ file.funding \in Txs
  BY SMT DEF FundingInv, FundingTypeOK
<1>5. (h = "link" => LinkKnown') /\ (h = "side" => SideKnown')
  BY <1>1, <1>4, SMTT(30) DEF Submit, FundingInv, LinkKnown, SideKnown, HandKnown, TxKnown, SessionKnown,
       Sent, Building, Reserved, OpenSteps, AnswerSteps, money
<1>8. SessionFrame(h) /\ BuildFrame(h) /\ StoreFrame(h) /\ FreeFrame(h)
  BY <1>1, <1>2, SMT DEF Submit, Reserved, At, Building, Late, AnswerSteps, Freeing, SessionFrame,
       BuildFrame, StoreFrame, FreeFrame, Clean, money
<1>. QED BY <1>8, <1>1, <1>2, <1>3, <1>5, JournalKeeps, SMT DEF Handlers, Frame, Journal, bounds

\* The first opening transaction of the ledger is one.
LEMMA FirstPlanIsOne ==
  ASSUME HasPlan
  PROVE  FirstPlan \in Txs
<1>. DEFINE R == OpToRel(<, Nat)
            S == {t \in Txs : plan[t] # "none"}
<1>1. S \subseteq Nat /\ S # {}
  BY SMT DEF HasPlan, Txs
<1>2. PICK t \in S : \A u \in S : ~(<<u, t>> \in R)
  BY <1>1, NatLessThanWellFounded, WFMin, Zenon
<1>3. \A u \in S : t <= u
  <2>. SUFFICES ASSUME NEW u \in S, ~(t <= u) PROVE <<u, t>> \in R
    BY <1>2
  <2>1. u < t /\ u \in Nat /\ t \in Nat
    BY <1>1, SMT
  <2>. QED BY <2>1, Zenon DEF OpToRel
<1>. QED BY <1>3 DEF FirstPlan

\* A cancellation frees the first plan, which is the fixed transaction's if any is.
LEMMA CheckLedgerKeeps ==
  ASSUME FundingInv, NEW h \in Handlers, CheckLedger(h)
  PROVE  FundingInv' /\ Frame(h)
<1>1. /\ Forward(h, "finish") \in HandRecords /\ Forward(h, "finish").pc = "finish"
      /\ HasPlan => FirstPlan \in Txs
  BY FirstPlanIsOne, SMT DEF FundingInv, FundingTypeOK, Forward, HandRecords, SomeTx, Steps, CancelSteps
<1>2. /\ Only(h) /\ hand[h].pc = "ledger"
      /\ hand'[h].pc \in {"idle", "finish", "free"}
      /\ hand'[h].pc = "free" => hand'[h].tx \in Txs
  BY <1>1, TypeFacts, SMT DEF FundingInv, FundingTypeOK, CheckLedger, Only, At, HandRecords, SomeTx,
       Idle, Steps, CancelSteps
<1>0. UNCHANGED <<session, seen, file, money, bounds>>
  BY DEF CheckLedger
<1>3. Journal(h)
  BY <1>0, <1>2, NewRecords, TypeFacts, SMT DEF FundingInv, Journal
<1>4. HandKnown(h)' /\ SessionKnown' /\ OpenIsFunded'
  BY <1>0, <1>2, SMT DEF FundingInv, HandKnown, SessionKnown, OpenIsFunded, Sent, Late, money, Txs
<1>5. (h = "link" => LinkKnown') /\ (h = "side" => SideKnown')
  BY <1>0, <1>2, SMT DEF FundingInv, LinkKnown, SideKnown, Building, OpenSteps, AnswerSteps
<1>6. /\ hand'[h].pc = "finish" => file.funding = 0
      /\ hand'[h].pc = "free" => file.funding \in {0, hand'[h].tx}
  <2>. DEFINE none == {session.tx, file.funding} = {0}
              one == {session.tx, file.funding} \subseteq {0, FirstPlan}
  <2>1. (none => file.funding = 0) /\ (one => file.funding \in {0, FirstPlan})
    OBVIOUS
  <2>2. hand' = [hand EXCEPT ![h] =
          IF HasPlan
          THEN IF one /\ outbox[FirstPlan] \in {"none", "prepared"}
                      /\ plan[FirstPlan] \in {"prepared", "failed"}
               THEN [pc |-> "free", tx |-> FirstPlan, res |-> "none"]
               ELSE Idle
          ELSE IF none THEN Forward(h, "finish") ELSE Idle]
    BY DEF CheckLedger
  <2>3. hand \in [Handlers -> HandRecords]
    BY SMT DEF FundingInv, FundingTypeOK, HandRecords, SomeTx
  <2>. HIDE DEF none, one
  <2>. QED BY <1>1, <2>1, <2>2, <2>3, SMT DEF Idle
<1>7. SessionFrame(h) /\ BuildFrame(h) /\ StoreFrame(h) /\ FreeFrame(h)
  BY <1>0, <1>2, <1>3, <1>6, SMT DEF At, Building, AnswerSteps, Freeing, SessionFrame, BuildFrame,
       StoreFrame, FreeFrame, Clean, money
<1>. QED BY <1>7, <1>2, <1>3, <1>4, <1>5, JournalKeeps, SMT DEF Handlers, Frame, Journal, bounds

\* Recovery resumes a cancellation or looks up what was dispatched.
LEMMA RestoreKeeps ==
  ASSUME FundingInv, Restore
  PROVE  FundingInv' /\ Frame("side")
<1>1. CASE session.phase = "funding-unknown"
  <2>1. /\ Only("side") /\ hand["side"].pc = "idle" /\ hand'["side"].pc = "lookup"
        /\ hand'["side"].tx = file.funding
    BY <1>1, TypeFacts, SMT DEF FundingInv, FundingTypeOK, Restore, Only, At, HandRecords, Steps
  <2>2. Journal("side")
    BY <2>1, NewRecords, TypeFacts, SMT DEF FundingInv, Restore, Journal, Read
  <2>3. HandKnown("side")' /\ SideKnown' /\ SessionKnown' /\ OpenIsFunded'
    BY <1>1, <2>1, SMT DEF Restore, FundingInv, HandKnown, SideKnown, SessionKnown, OpenIsFunded, Sent,
         money, OpenSteps, AnswerSteps
  <2>4. SessionFrame("side") /\ BuildFrame("side") /\ StoreFrame("side") /\ FreeFrame("side")
    BY <2>1, <2>2, SMT DEF Restore, Read, Moved, At, Building, Late, AnswerSteps, Freeing, SessionFrame,
         BuildFrame, StoreFrame, FreeFrame, Clean, money
  <2>. QED BY <2>4, <2>1, <2>2, <2>3, JournalKeeps, SMT DEF Handlers, Frame, Journal, bounds
<1>2. CASE session.phase # "funding-unknown"
  <2>1. Moved("side") /\ hand["side"].pc = "idle" /\ hand'["side"].pc \in {"recover", "check"}
    BY <1>2, GotoMoves, TypeFacts, SMT DEF FundingInv, Restore, At, Steps, CancelSteps
  <2>2. Journal("side")
    BY <2>1, NewRecords, TypeFacts, SMT DEF FundingInv, Restore, Journal, Read, Moved
  <2>3. HandKnown("side")' /\ SideKnown' /\ SessionKnown' /\ OpenIsFunded'
    BY <1>2, <2>1, SMT DEF Restore, FundingInv, HandKnown, SideKnown, SessionKnown, OpenIsFunded, Late,
         money, OpenSteps, AnswerSteps
  <2>4. SessionFrame("side") /\ BuildFrame("side") /\ StoreFrame("side") /\ FreeFrame("side")
    BY <2>1, <2>2, SMT DEF Restore, Read, Moved, At, Building, Late, AnswerSteps, Freeing, SessionFrame,
         BuildFrame, StoreFrame, FreeFrame, Clean, money
  <2>. QED BY <2>4, <2>1, <2>2, <2>3, JournalKeeps, SMT DEF Handlers, Frame, Journal, bounds
<1>. QED BY <1>1, <1>2


\* Where a handler works on a transaction, there is one.
LEMMA HandTx ==
  ASSUME FundingInv, NEW h \in Handlers,
         hand[h].pc \in Building \union Late
           \union {"undo", "undo-ledger", "dispatch", "mark-outbox", "free", "free-ledger", "lookup"}
  PROVE  hand[h].tx \in Txs
<1>1. hand[h].tx # 0
  BY SMT DEF FundingInv, LinkKnown, SideKnown, HandKnown, Building, Handlers, OpenSteps
<1>. QED BY <1>1, StoreTypes DEF FundingInv


-----------------------------------------------------------------------------
(* Steps on the evidence, the ledger, the outbox and the wallet.           *)

\* The ledger releases a plan that is not observed, with its pool.
LEMMA PlanIsReleased ==
  ASSUME FundingTypeOK, NEW t \in Txs, ReleasePlan(t)
  PROVE  \/ /\ plan[t] \in {"prepared", "unknown"} /\ ~(pool.state = "open" /\ pool.tx = t)
            /\ plan'[t] = "failed" /\ \A u \in Txs : u # t => plan'[u] = plan[u]
            /\ pool'.state = "funding-failed" /\ pool'.tx = pool.tx
         \/ /\ UNCHANGED <<plan, pool>>
            /\ plan[t] \in {"none", "failed", "observed"} \/ (pool.state = "open" /\ pool.tx = t)
<1>1. CASE plan[t] \in {"none", "failed", "observed"} \/ pool = [state |-> "open", tx |-> t]
  BY <1>1, SMT DEF ReleasePlan
<1>2. CASE ~(plan[t] \in {"none", "failed", "observed"} \/ pool = [state |-> "open", tx |-> t])
  <2>1. plan[t] \in {"prepared", "unknown"}
    BY <1>2, StoreTypes, SMT DEF PlanStates
  <2>2. ~(pool.state = "open" /\ pool.tx = t)
    BY <1>2, StoreTypes, SMT
  <2>. QED BY <1>2, <2>1, <2>2, StoreTypes, SMT DEF ReleasePlan
<1>. QED BY <1>1, <1>2

\* The transactions that were made stay made.
LEMMA MadeStays ==
  ASSUME Made, opens' = opens, \A u \in Txs : wallet'[u] = "none" <=> wallet[u] = "none",
         hand'["link"].pc \in {"configure", "configured", "fund"} =>
           hand["link"].pc \in {"configure", "configured", "fund"}
  PROVE  Made'
<1>1. {u \in Txs : wallet'[u] # "none"} = {u \in Txs : wallet[u] # "none"}
  OBVIOUS
<1>. QED BY <1>1, Zenon DEF Made

\* Writing the configuration touches no other evidence.
LEMMA ConfigureKeeps ==
  ASSUME FundingInv, Configure
  PROVE  FundingInv' /\ Frame("link")
<1>1. /\ Moved("link")
      /\ hand["link"].pc = "configure" /\ hand'["link"].pc = "configured"
  BY GotoMoves, TypeFacts, SMT DEF FundingInv, Configure, At, Steps, OpenSteps, AnswerSteps
<1>2. FundingTypeOK'
  <2>1. "link" \in Handlers /\ {"link"} \subseteq Handlers
    BY TypeFacts DEF FundingInv
  <2>. QED BY <1>1, <2>1, SMT DEF FundingInv, FundingTypeOK, Configure, Write, Moved, Only, HandRecords,
                money, bounds, Names
<1>3. Made'
  BY <1>1, MadeStays, SMT DEF FundingInv, Configure, Write, FundingTypeOK, money, Moved, Only, bounds
<1>4. \A t \in Txs : TxKnown(t)'
  BY <1>1, SMT DEF FundingInv, LinkKnown, SideKnown, HandKnown, SessionKnown, OpenIsFunded, TxKnown,
       Sent, Building, Late, money, bounds, FundingTypeOK, Configure, Write
<1>5. SessionKnown' /\ OpenIsFunded'
  BY <1>1, SMT DEF FundingInv, LinkKnown, SideKnown, HandKnown, SessionKnown, OpenIsFunded, TxKnown,
       Sent, Building, Late, money, bounds, FundingTypeOK, Configure, Write
<1>6. LinkKnown'
  BY <1>1, SMT DEF FundingInv, LinkKnown, SideKnown, HandKnown, SessionKnown, OpenIsFunded, TxKnown,
       Sent, Building, Late, money, bounds, FundingTypeOK, Configure
<1>7. SideKnown'
  BY <1>1, SMT DEF FundingInv, LinkKnown, SideKnown, HandKnown, SessionKnown, OpenIsFunded, TxKnown,
       Sent, Building, Late, money, bounds, FundingTypeOK, Configure, Write, Moved, Only, Handlers
<1>8. \A g \in Handlers : HandKnown(g)'
  BY <1>1, SMT DEF FundingInv, LinkKnown, SideKnown, HandKnown, SessionKnown, OpenIsFunded, TxKnown,
       Sent, Building, Late, money, bounds, FundingTypeOK, Configure, Write, Moved, Only
<1>9. UNCHANGED <<session, seen, restarts>>
  BY DEF Configure, bounds
<1>10. SessionFrame("link") /\ BuildFrame("link")
  BY <1>1, <1>9, TypeFacts, SMT DEF FundingInv, LinkKnown, SideKnown, HandKnown, SessionKnown,
       OpenIsFunded, TxKnown, Sent, Building, Late, money, bounds, FundingTypeOK, Configure, Write,
       Moved, Only, Handlers, Txs, Freeing, AnswerSteps, At, SessionFrame, BuildFrame
<1>11. StoreFrame("link") /\ FreeFrame("link")
  BY <1>1, <1>9, TypeFacts, SMT DEF FundingInv, LinkKnown, SideKnown, HandKnown, SessionKnown,
       OpenIsFunded, TxKnown, Sent, Building, Late, money, bounds, FundingTypeOK, Configure, Write,
       Moved, Only, Handlers, StoreFrame, FreeFrame, Clean
<1>. QED BY <1>1, <1>2, <1>3, <1>4, <1>5, <1>6, <1>7, <1>8, <1>9, <1>10, <1>11 DEF FundingInv, Frame,
              Moved

\* Writing Kind 2 touches no other evidence.
LEMMA WriteKind2Keeps ==
  ASSUME FundingInv, WriteKind2
  PROVE  FundingInv' /\ Frame("link")
<1>1. /\ Moved("link")
      /\ hand["link"].pc = "kind2" /\ hand'["link"].pc = "signed"
  BY GotoMoves, TypeFacts, SMT DEF FundingInv, WriteKind2, At, Steps, OpenSteps, AnswerSteps
<1>2. FundingTypeOK'
  <2>1. "link" \in Handlers /\ {"link"} \subseteq Handlers
    BY TypeFacts DEF FundingInv
  <2>. QED BY <1>1, <2>1, SMT DEF FundingInv, FundingTypeOK, WriteKind2, Write, Moved, Only,
                HandRecords, money, bounds, Names
<1>3. Made'
  BY <1>1, MadeStays, SMT DEF FundingInv, WriteKind2, Write, FundingTypeOK, money, Moved, Only, bounds
<1>4. \A t \in Txs : TxKnown(t)'
  BY <1>1, SMT DEF FundingInv, LinkKnown, SideKnown, HandKnown, SessionKnown, OpenIsFunded, TxKnown,
       Sent, Building, Late, money, bounds, FundingTypeOK, WriteKind2, Write
<1>5. SessionKnown' /\ OpenIsFunded'
  BY <1>1, SMT DEF FundingInv, LinkKnown, SideKnown, HandKnown, SessionKnown, OpenIsFunded, TxKnown,
       Sent, Building, Late, money, bounds, FundingTypeOK, WriteKind2, Write
<1>6. LinkKnown'
  BY <1>1, SMT DEF FundingInv, LinkKnown, SideKnown, HandKnown, SessionKnown, OpenIsFunded, TxKnown,
       Sent, Building, Late, money, bounds, FundingTypeOK, WriteKind2
<1>7. SideKnown'
  BY <1>1, SMT DEF FundingInv, LinkKnown, SideKnown, HandKnown, SessionKnown, OpenIsFunded, TxKnown,
       Sent, Building, Late, money, bounds, FundingTypeOK, WriteKind2, Write, Moved, Only, Handlers
<1>8. \A g \in Handlers : HandKnown(g)'
  BY <1>1, SMT DEF FundingInv, LinkKnown, SideKnown, HandKnown, SessionKnown, OpenIsFunded, TxKnown,
       Sent, Building, Late, money, bounds, FundingTypeOK, WriteKind2, Write, Moved, Only
<1>9. UNCHANGED <<session, seen, restarts>>
  BY DEF WriteKind2, bounds
<1>10. SessionFrame("link") /\ BuildFrame("link")
  BY <1>1, <1>9, TypeFacts, SMT DEF FundingInv, LinkKnown, SideKnown, HandKnown, SessionKnown,
       OpenIsFunded, TxKnown, Sent, Building, Late, money, bounds, FundingTypeOK, WriteKind2, Write,
       Moved, Only, Handlers, Txs, Freeing, AnswerSteps, At, SessionFrame, BuildFrame
<1>11. StoreFrame("link") /\ FreeFrame("link")
  BY <1>1, <1>9, TypeFacts, SMT DEF FundingInv, LinkKnown, SideKnown, HandKnown, SessionKnown,
       OpenIsFunded, TxKnown, Sent, Building, Late, money, bounds, FundingTypeOK, WriteKind2, Write,
       Moved, Only, Handlers, StoreFrame, FreeFrame, Clean
<1>. QED BY <1>1, <1>2, <1>3, <1>4, <1>5, <1>6, <1>7, <1>8, <1>9, <1>10, <1>11 DEF FundingInv, Frame,
              Moved

\* Writing Kind 3 touches no other evidence.
LEMMA WriteKind3Keeps ==
  ASSUME FundingInv, WriteKind3
  PROVE  FundingInv' /\ Frame("link")
<1>1. /\ Moved("link")
      /\ hand["link"].pc = "kind3" /\ hand'["link"].pc = "answered"
  BY GotoMoves, TypeFacts, SMT DEF FundingInv, WriteKind3, At, Steps, OpenSteps, AnswerSteps
<1>2. FundingTypeOK'
  <2>1. "link" \in Handlers /\ {"link"} \subseteq Handlers
    BY TypeFacts DEF FundingInv
  <2>. QED BY <1>1, <2>1, SMT DEF FundingInv, FundingTypeOK, WriteKind3, Write, Moved, Only,
                HandRecords, money, bounds, Names
<1>3. Made'
  BY <1>1, MadeStays, SMT DEF FundingInv, WriteKind3, Write, FundingTypeOK, money, Moved, Only, bounds
<1>4. \A t \in Txs : TxKnown(t)'
  BY <1>1, SMT DEF FundingInv, LinkKnown, SideKnown, HandKnown, SessionKnown, OpenIsFunded, TxKnown,
       Sent, Building, Late, money, bounds, FundingTypeOK, WriteKind3, Write
<1>5. SessionKnown' /\ OpenIsFunded'
  BY <1>1, SMT DEF FundingInv, LinkKnown, SideKnown, HandKnown, SessionKnown, OpenIsFunded, TxKnown,
       Sent, Building, Late, money, bounds, FundingTypeOK, WriteKind3, Write
<1>6. LinkKnown'
  BY <1>1, SMT DEF FundingInv, LinkKnown, SideKnown, HandKnown, SessionKnown, OpenIsFunded, TxKnown,
       Sent, Building, Late, money, bounds, FundingTypeOK, WriteKind3, Write
<1>7. SideKnown'
  BY <1>1, SMT DEF FundingInv, LinkKnown, SideKnown, HandKnown, SessionKnown, OpenIsFunded, TxKnown,
       Sent, Building, Late, money, bounds, FundingTypeOK, WriteKind3, Write, Moved, Only, Handlers
<1>8. \A g \in Handlers : HandKnown(g)'
  BY <1>1, SMT DEF FundingInv, LinkKnown, SideKnown, HandKnown, SessionKnown, OpenIsFunded, TxKnown,
       Sent, Building, Late, money, bounds, FundingTypeOK, WriteKind3, Write, Moved, Only
<1>9. UNCHANGED <<session, seen, restarts>>
  BY DEF WriteKind3, bounds
<1>10. SessionFrame("link") /\ BuildFrame("link")
  BY <1>1, <1>9, TypeFacts, SMT DEF FundingInv, LinkKnown, SideKnown, HandKnown, SessionKnown,
       OpenIsFunded, TxKnown, Sent, Building, Late, money, bounds, FundingTypeOK, WriteKind3, Write,
       Moved, Only, Handlers, Txs, Freeing, AnswerSteps, At, SessionFrame, BuildFrame
<1>11. StoreFrame("link") /\ FreeFrame("link")
  BY <1>1, <1>9, TypeFacts, SMT DEF FundingInv, LinkKnown, SideKnown, HandKnown, SessionKnown,
       OpenIsFunded, TxKnown, Sent, Building, Late, money, bounds, FundingTypeOK, WriteKind3, Write,
       Moved, Only, Handlers, StoreFrame, FreeFrame, Clean
<1>. QED BY <1>1, <1>2, <1>3, <1>4, <1>5, <1>6, <1>7, <1>8, <1>9, <1>10, <1>11 DEF FundingInv, Frame,
              Moved

\* Kind 4 is written with Kind 3 on file and the pool open.
LEMMA WriteKind4Keeps ==
  ASSUME FundingInv, NEW h \in Handlers, WriteKind4(h)
  PROVE  FundingInv' /\ Frame(h)
<1>1. /\ Moved(h)
      /\ hand[h].pc = "kind4" /\ hand'[h].pc = "proven"
  BY GotoMoves, TypeFacts, SMT DEF FundingInv, WriteKind4, At, Steps, SubmitSteps
<1>2. FundingTypeOK'
  <2>1. "link" \in Handlers /\ {h} \subseteq Handlers
    BY TypeFacts DEF FundingInv
  <2>. QED BY <1>1, <2>1, SMT DEF FundingInv, FundingTypeOK, WriteKind4, Write, Read, Moved, Only,
                HandRecords, money, bounds, Names
<1>3. Made'
  BY <1>1, MadeStays, SMT DEF FundingInv, WriteKind4, Write, Read, FundingTypeOK, money, Moved, Only,
       Handlers, bounds
<1>4. \A t \in Txs : TxKnown(t)'
  BY <1>1, SMT DEF FundingInv, LinkKnown, SideKnown, HandKnown, SessionKnown, OpenIsFunded, TxKnown,
       Sent, Building, Late, money, bounds, FundingTypeOK, WriteKind4, Write
<1>5. SessionKnown' /\ OpenIsFunded'
  BY <1>1, SMT DEF FundingInv, LinkKnown, SideKnown, HandKnown, SessionKnown, OpenIsFunded, TxKnown,
       Sent, Building, Late, money, bounds, FundingTypeOK, WriteKind4, Write
<1>6. LinkKnown'
  BY <1>1, SMT DEF FundingInv, LinkKnown, SideKnown, HandKnown, SessionKnown, OpenIsFunded, TxKnown,
       Sent, Building, Late, money, bounds, FundingTypeOK, WriteKind4, Write, Moved, Only, Handlers
<1>7. SideKnown'
  BY <1>1, SMT DEF FundingInv, LinkKnown, SideKnown, HandKnown, SessionKnown, OpenIsFunded, TxKnown,
       Sent, Building, Late, money, bounds, FundingTypeOK, WriteKind4, Write, Read, Moved, Only,
       Handlers, OpenSteps, AnswerSteps
<1>8. \A g \in Handlers : HandKnown(g)'
  BY <1>1, SMT DEF FundingInv, LinkKnown, SideKnown, HandKnown, SessionKnown, OpenIsFunded, TxKnown,
       Sent, Building, Late, money, bounds, FundingTypeOK, WriteKind4, Write, Moved, Only
<1>9. UNCHANGED <<session, restarts>> /\ seen' = seen \union {h}
  BY DEF WriteKind4, Read, bounds
<1>10. SessionFrame(h) /\ BuildFrame(h)
  BY <1>1, <1>9, TypeFacts, SMT DEF FundingInv, LinkKnown, SideKnown, HandKnown, SessionKnown,
       OpenIsFunded, TxKnown, Sent, Building, Late, money, bounds, FundingTypeOK, WriteKind4, Write,
       Read, Moved, Only, Handlers, Txs, Freeing, AnswerSteps, At, SessionFrame, BuildFrame
<1>11. StoreFrame(h) /\ FreeFrame(h)
  BY <1>1, <1>9, TypeFacts, SMT DEF FundingInv, LinkKnown, SideKnown, HandKnown, SessionKnown,
       OpenIsFunded, TxKnown, Sent, Building, Late, money, bounds, FundingTypeOK, WriteKind4, Write,
       Read, Moved, Only, Handlers, StoreFrame, FreeFrame, Clean
<1>. QED BY <1>1, <1>2, <1>3, <1>4, <1>5, <1>6, <1>7, <1>8, <1>9, <1>10, <1>11 DEF FundingInv, Frame,
              Moved

\* The ledger reserves a transaction the wallet has recorded, one at a time.
LEMMA ReserveKeeps ==
  ASSUME FundingInv, Reserve
  PROVE  FundingInv' /\ Frame("link")
<1>1. /\ Moved("link")
      /\ hand["link"].pc = "reserve" /\ hand'["link"].pc \in {"anchor", "undo"}
  BY GotoMoves, TypeFacts, SMT DEF FundingInv, Reserve, At, Steps, OpenSteps
<1>2. FundingTypeOK'
  <2>1. "link" \in Handlers /\ {"link"} \subseteq Handlers
    BY TypeFacts DEF FundingInv
  <2>. QED BY <1>1, <2>1, SMTT(30) DEF FundingInv, FundingTypeOK, Reserve, Moved, Only, HandRecords, bounds,
                PlanStates, PoolStates
<1>3. hand["link"].tx \in Txs
  BY <1>1, HandTx, TypeFacts, SMT DEF FundingInv, Building, Late
<1>4. /\ \/ /\ pool.state = "none" \/ (pool.state = "funding-failed" /\ plan[pool.tx] = "failed")
            /\ plan'[hand["link"].tx] = "prepared" /\ \A u \in Txs : u # hand["link"].tx => plan'[u] = plan[u]
            /\ pool'.state = "funding-pending" /\ pool'.tx = hand["link"].tx
         \/ UNCHANGED <<plan, pool>>
      /\ UNCHANGED <<session, file, outbox, wallet, live, taken, opens>>
  BY <1>1, <1>3, GotoMoves, StoreTypes, TypeFacts, SMT DEF FundingInv, Reserve, money, bounds, Steps,
       OpenSteps
<1>5. Made'
  BY <1>1, <1>3, <1>4, StoreTypes, MadeStays, SMT DEF FundingInv, Moved, Only, Handlers, bounds, TxKnown
<1>6. \A t \in Txs : TxKnown(t)'
  BY <1>1, <1>3, <1>4, StoreTypes, SMT DEF FundingInv, LinkKnown, SideKnown, HandKnown, SessionKnown,
       OpenIsFunded, TxKnown, Sent, Building, Late
<1>7. SessionKnown' /\ OpenIsFunded'
  BY <1>1, <1>3, <1>4, StoreTypes, SMT DEF FundingInv, LinkKnown, SideKnown, HandKnown, SessionKnown,
       OpenIsFunded, TxKnown, Sent, Building, Late
<1>8. LinkKnown'
  BY <1>1, <1>3, <1>4, StoreTypes, SMT DEF FundingInv, LinkKnown, SideKnown, HandKnown, SessionKnown,
       OpenIsFunded, TxKnown, Sent, Building, Late, Moved
<1>9. SideKnown'
  BY <1>1, <1>3, <1>4, StoreTypes, SMT DEF FundingInv, LinkKnown, SideKnown, HandKnown, SessionKnown,
       OpenIsFunded, TxKnown, Sent, Building, Late, money, bounds, Moved, Only, Handlers
<1>10. \A g \in Handlers : HandKnown(g)'
  BY <1>1, <1>3, <1>4, StoreTypes, SMT DEF FundingInv, LinkKnown, SideKnown, HandKnown, SessionKnown,
       OpenIsFunded, TxKnown, Sent, Building, Late, Moved, Only
<1>11. UNCHANGED <<session, seen, restarts>>
  BY DEF Reserve, bounds
<1>12. SessionFrame("link") /\ BuildFrame("link")
  BY <1>1, <1>3, <1>4, StoreTypes, <1>11, TypeFacts, SMT DEF FundingInv, LinkKnown, SideKnown,
       HandKnown, SessionKnown, OpenIsFunded, TxKnown, Sent, Building, Late, money, bounds, Moved, Only,
       Handlers, Freeing, AnswerSteps, At, SessionFrame, BuildFrame
<1>13. StoreFrame("link") /\ FreeFrame("link")
  BY <1>1, <1>3, <1>4, StoreTypes, <1>11, TypeFacts, SMT DEF FundingInv, LinkKnown, SideKnown,
       HandKnown, SessionKnown, OpenIsFunded, TxKnown, Sent, Building, Late, money, bounds, Moved, Only,
       At, StoreFrame, FreeFrame, Clean
<1>. QED BY <1>1, <1>2, <1>5, <1>6, <1>7, <1>8, <1>9, <1>10, <1>11, <1>12, <1>13 DEF FundingInv, Frame,
              Moved

\* A transaction is fixed only while none is, before the outbox knows of it.
LEMMA AnchorKeeps ==
  ASSUME FundingInv, Anchor
  PROVE  FundingInv' /\ Frame("link")
<1>1. /\ Moved("link")
      /\ hand["link"].pc = "anchor" /\ hand'["link"].pc \in {"anchored", "undo"}
  BY GotoMoves, TypeFacts, SMT DEF FundingInv, Anchor, At, Steps, OpenSteps
<1>2. FundingTypeOK'
  <2>1. "link" \in Handlers /\ {"link"} \subseteq Handlers
    BY TypeFacts DEF FundingInv
  <2>. QED BY <1>1, <2>1, SMT DEF FundingInv, FundingTypeOK, Anchor, Moved, Only, HandRecords, money,
                bounds
<1>3. hand["link"].tx \in Txs
  BY <1>1, HandTx, TypeFacts, SMT DEF FundingInv, Building, Late
<1>4. /\ \/ /\ hand'["link"].pc = "anchored" /\ file.funding = 0 /\ "link" \in seen
            /\ file'.funding = hand["link"].tx /\ file'.names = file.names
         \/ file' = file /\ hand'["link"].pc = "undo"
      /\ UNCHANGED <<session, plan, pool, outbox, wallet, live, taken, opens>>
  BY <1>1, <1>3, GotoMoves, StoreTypes, TypeFacts, SMT DEF FundingInv, Anchor, money, bounds, Steps,
       OpenSteps
<1>5. Made'
  BY <1>1, <1>3, <1>4, StoreTypes, MadeStays, SMT DEF FundingInv, Moved, Only, Handlers, bounds, TxKnown
<1>6. \A t \in Txs : TxKnown(t)'
  BY <1>1, <1>3, <1>4, StoreTypes, SMT DEF FundingInv, LinkKnown, SideKnown, HandKnown, SessionKnown,
       OpenIsFunded, TxKnown, Sent, Building, Late
<1>7. SessionKnown' /\ OpenIsFunded'
  BY <1>1, <1>3, <1>4, StoreTypes, SMT DEF FundingInv, LinkKnown, SideKnown, HandKnown, SessionKnown,
       OpenIsFunded, TxKnown, Sent, Building, Late
<1>8. LinkKnown'
  BY <1>1, <1>3, <1>4, StoreTypes, SMT DEF FundingInv, LinkKnown, SideKnown, HandKnown, SessionKnown,
       OpenIsFunded, TxKnown, Sent, Building, Late, Moved
<1>9. SideKnown'
  BY <1>1, <1>3, <1>4, StoreTypes, SMT DEF FundingInv, LinkKnown, SideKnown, HandKnown, SessionKnown,
       OpenIsFunded, TxKnown, Sent, Building, Late, money, bounds, Moved, Only, Handlers
<1>10. \A g \in Handlers : HandKnown(g)'
  BY <1>1, <1>3, <1>4, StoreTypes, SMT DEF FundingInv, LinkKnown, SideKnown, HandKnown, SessionKnown,
       OpenIsFunded, TxKnown, Sent, Building, Late, Moved, Only
<1>11. UNCHANGED <<session, seen, restarts>>
  BY DEF Anchor, bounds
<1>12. SessionFrame("link") /\ BuildFrame("link")
  BY <1>1, <1>3, <1>4, StoreTypes, <1>11, TypeFacts, SMT DEF FundingInv, LinkKnown, SideKnown,
       HandKnown, SessionKnown, OpenIsFunded, TxKnown, Sent, Building, Late, money, bounds, Moved, Only,
       Handlers, Freeing, AnswerSteps, At, SessionFrame, BuildFrame
<1>13. StoreFrame("link") /\ FreeFrame("link")
  BY <1>1, <1>3, <1>4, StoreTypes, <1>11, TypeFacts, SMT DEF FundingInv, LinkKnown, SideKnown,
       HandKnown, SessionKnown, OpenIsFunded, TxKnown, Sent, Building, Late, money, bounds, Moved, Only,
       At, StoreFrame, FreeFrame, Clean
<1>. QED BY <1>1, <1>2, <1>5, <1>6, <1>7, <1>8, <1>9, <1>10, <1>11, <1>12, <1>13 DEF FundingInv, Frame,
              Moved

\* The outbox learns of the transaction that is fixed.
LEMMA PutOutboxKeeps ==
  ASSUME FundingInv, PutOutbox
  PROVE  FundingInv' /\ Frame("link")
<1>1. /\ Moved("link")
      /\ hand["link"].pc = "outbox" /\ hand'["link"].pc = "prepared"
  BY GotoMoves, TypeFacts, SMT DEF FundingInv, PutOutbox, At, Steps, OpenSteps
<1>2. FundingTypeOK'
  <2>1. "link" \in Handlers /\ {"link"} \subseteq Handlers
    BY TypeFacts DEF FundingInv
  <2>2. "prepared" \in OutboxStates
    BY <1>1, SMT DEF FundingInv, OutboxStates, LinkKnown, SideKnown, Handlers
  <2>4. hand["link"].tx \in Txs
    BY <1>1, HandTx, TypeFacts, SMT DEF FundingInv, Building, Late
  <2>3. outbox' \in [Txs -> OutboxStates]
    BY <1>1, <2>2, <2>4, StoreTypes, SMT DEF FundingInv, PutOutbox
  <2>. QED BY <1>1, <2>1, <2>3, SMT DEF FundingInv, FundingTypeOK, PutOutbox, Moved, Only, HandRecords,
                bounds
<1>3. hand["link"].tx \in Txs
  BY <1>1, HandTx, TypeFacts, SMT DEF FundingInv, Building, Late
<1>4. /\ outbox'[hand["link"].tx] = "prepared"
      /\ \A u \in Txs : u # hand["link"].tx => outbox'[u] = outbox[u]
      /\ UNCHANGED <<session, file, plan, pool, wallet, live, taken, opens>>
  BY <1>1, <1>3, GotoMoves, StoreTypes, TypeFacts, SMT DEF FundingInv, PutOutbox, money, bounds, Steps,
       OpenSteps
<1>5. Made'
  BY <1>1, <1>3, <1>4, StoreTypes, MadeStays, SMT DEF FundingInv, Moved, Only, Handlers, bounds, TxKnown
<1>6. \A t \in Txs : TxKnown(t)'
  BY <1>1, <1>3, <1>4, StoreTypes, SMT DEF FundingInv, LinkKnown, SideKnown, HandKnown, SessionKnown,
       OpenIsFunded, TxKnown, Sent, Building, Late
<1>7. SessionKnown' /\ OpenIsFunded'
  BY <1>1, <1>3, <1>4, StoreTypes, SMT DEF FundingInv, LinkKnown, SideKnown, HandKnown, SessionKnown,
       OpenIsFunded, TxKnown, Sent, Building, Late
<1>8. LinkKnown'
  BY <1>1, <1>3, <1>4, StoreTypes, SMT DEF FundingInv, LinkKnown, SideKnown, HandKnown, SessionKnown,
       OpenIsFunded, TxKnown, Sent, Building, Late, Moved
<1>9. SideKnown'
  BY <1>1, <1>3, <1>4, StoreTypes, SMT DEF FundingInv, LinkKnown, SideKnown, HandKnown, SessionKnown,
       OpenIsFunded, TxKnown, Sent, Building, Late, money, bounds, Moved, Only, Handlers
<1>10. \A g \in Handlers : HandKnown(g)'
  BY <1>1, <1>3, <1>4, StoreTypes, SMT DEF FundingInv, LinkKnown, SideKnown, HandKnown, SessionKnown,
       OpenIsFunded, TxKnown, Sent, Building, Late, Moved, Only
<1>11. UNCHANGED <<session, seen, restarts>>
  BY DEF PutOutbox, bounds
<1>12. SessionFrame("link") /\ BuildFrame("link")
  BY <1>1, <1>3, <1>4, StoreTypes, <1>11, TypeFacts, SMT DEF FundingInv, LinkKnown, SideKnown,
       HandKnown, SessionKnown, OpenIsFunded, TxKnown, Sent, Building, Late, money, bounds, Moved, Only,
       Handlers, Freeing, AnswerSteps, At, SessionFrame, BuildFrame
<1>13. StoreFrame("link") /\ FreeFrame("link")
  BY <1>1, <1>3, <1>4, StoreTypes, <1>11, TypeFacts, SMT DEF FundingInv, LinkKnown, SideKnown,
       HandKnown, SessionKnown, OpenIsFunded, TxKnown, Sent, Building, Late, money, bounds, Moved, Only,
       StoreFrame, FreeFrame, Clean
<1>. QED BY <1>1, <1>2, <1>5, <1>6, <1>7, <1>8, <1>9, <1>10, <1>11, <1>12, <1>13 DEF FundingInv, Frame,
              Moved

\* The wallet takes back only a transaction nobody dispatched.
LEMMA UndoKeeps ==
  ASSUME FundingInv, Undo
  PROVE  FundingInv' /\ Frame("link")
<1>1. /\ Moved("link")
      /\ hand["link"].pc = "undo" /\ hand'["link"].pc = "undo-ledger"
  BY GotoMoves, TypeFacts, SMT DEF FundingInv, Undo, At, Steps, OpenSteps, LinkKnown, MayRelease
<1>2. FundingTypeOK'
  <2>1. "link" \in Handlers /\ {"link"} \subseteq Handlers
    BY TypeFacts DEF FundingInv
  <2>. QED BY <1>1, <2>1, SMT DEF FundingInv, FundingTypeOK, Undo, MayRelease, ReleaseSpend, Moved,
                Only, HandRecords, bounds, WalletStates
<1>3. hand["link"].tx \in Txs
  BY <1>1, HandTx, TypeFacts, SMT DEF FundingInv, Building, Late
<1>4. /\ \/ /\ hand'["link"].pc = "undo-ledger" /\ wallet[hand["link"].tx] \in {"prepared", "rejected"}
            /\ wallet'[hand["link"].tx] = "rejected" /\ live' = live \ {hand["link"].tx}
            /\ \A u \in Txs : u # hand["link"].tx => wallet'[u] = wallet[u]
         \/ UNCHANGED <<wallet, live>> /\ hand'["link"].pc # "undo-ledger"
      /\ UNCHANGED <<session, file, plan, pool, outbox, taken, opens>>
  BY <1>1, <1>3, GotoMoves, StoreTypes, TypeFacts, SMT DEF FundingInv, Undo, MayRelease, ReleaseSpend,
       bounds, Steps, OpenSteps
<1>5. Made'
  BY <1>1, <1>3, <1>4, StoreTypes, MadeStays, SMT DEF FundingInv, Moved, Only, Handlers, bounds, TxKnown
<1>6. \A t \in Txs : TxKnown(t)'
  BY <1>1, <1>3, <1>4, StoreTypes, SMT DEF FundingInv, LinkKnown, SideKnown, HandKnown, SessionKnown,
       OpenIsFunded, TxKnown, Sent, Building, Late
<1>7. SessionKnown' /\ OpenIsFunded'
  BY <1>1, <1>3, <1>4, StoreTypes, SMT DEF FundingInv, LinkKnown, SideKnown, HandKnown, SessionKnown,
       OpenIsFunded, TxKnown, Sent, Building, Late
<1>8. LinkKnown'
  BY <1>1, <1>3, <1>4, StoreTypes, SMT DEF FundingInv, LinkKnown, SideKnown, HandKnown, SessionKnown,
       OpenIsFunded, TxKnown, Sent, Building, Late
<1>9. SideKnown'
  BY <1>1, <1>3, <1>4, StoreTypes, SMT DEF FundingInv, LinkKnown, SideKnown, HandKnown, SessionKnown,
       OpenIsFunded, TxKnown, Sent, Building, Late, money, bounds, Moved, Only, Handlers
<1>10. \A g \in Handlers : HandKnown(g)'
  BY <1>1, <1>3, <1>4, StoreTypes, SMT DEF FundingInv, LinkKnown, SideKnown, HandKnown, SessionKnown,
       OpenIsFunded, TxKnown, Sent, Building, Late, Moved, Only
<1>11. UNCHANGED <<session, seen, restarts>>
  BY DEF Undo, bounds
<1>12. SessionFrame("link") /\ BuildFrame("link")
  BY <1>1, <1>3, <1>4, StoreTypes, <1>11, TypeFacts, SMT DEF FundingInv, LinkKnown, SideKnown,
       HandKnown, SessionKnown, OpenIsFunded, TxKnown, Sent, Building, Late, money, bounds, Moved, Only,
       Handlers, Freeing, AnswerSteps, At, SessionFrame, BuildFrame
<1>13. StoreFrame("link") /\ FreeFrame("link")
  BY <1>1, <1>3, <1>4, StoreTypes, <1>11, TypeFacts, SMT DEF FundingInv, LinkKnown, SideKnown,
       HandKnown, SessionKnown, OpenIsFunded, TxKnown, Sent, Building, Late, money, bounds, Moved, Only,
       StoreFrame, FreeFrame, Clean
<1>. QED BY <1>1, <1>2, <1>5, <1>6, <1>7, <1>8, <1>9, <1>10, <1>11, <1>12, <1>13 DEF FundingInv, Frame,
              Moved

\* The ledger follows the wallet when an opening is taken back.
LEMMA UndoLedgerKeeps ==
  ASSUME FundingInv, UndoLedger
  PROVE  FundingInv' /\ Frame("link")
<1>1. /\ Moved("link")
      /\ hand["link"].pc = "undo-ledger" /\ hand'["link"].pc = "fail"
  BY GotoMoves, TypeFacts, SMT DEF FundingInv, UndoLedger, At, Steps, OpenSteps
<1>2. FundingTypeOK'
  <2>1. "link" \in Handlers /\ {"link"} \subseteq Handlers
    BY TypeFacts DEF FundingInv
  <2>. QED BY <1>1, <2>1, SMTT(30) DEF FundingInv, FundingTypeOK, UndoLedger, ReleasePlan, Moved, Only,
                HandRecords, SomeTx, bounds, PlanStates, PoolStates
<1>3. hand["link"].tx \in Txs
  BY <1>1, HandTx, TypeFacts, SMT DEF FundingInv, Building, Late
<1>4. /\ \/ /\ plan[hand["link"].tx] \in {"prepared", "unknown"}
               /\ ~(pool.state = "open" /\ pool.tx = hand["link"].tx)
            /\ plan'[hand["link"].tx] = "failed" /\ \A u \in Txs : u # hand["link"].tx => plan'[u] = plan[u]
            /\ pool'.state = "funding-failed" /\ pool'.tx = pool.tx
         \/ /\ UNCHANGED <<plan, pool>>
            /\ plan[hand["link"].tx] \in {"none", "failed", "observed"}
               \/ (pool.state = "open" /\ pool.tx = hand["link"].tx)
      /\ UNCHANGED <<session, file, outbox, wallet, live, taken, opens>>
  BY <1>1, <1>3, GotoMoves, PlanIsReleased, StoreTypes, TypeFacts, SMT DEF FundingInv, UndoLedger,
       money, bounds, Steps, OpenSteps
<1>5. Made'
  BY <1>1, <1>3, <1>4, StoreTypes, MadeStays, SMT DEF FundingInv, Moved, Only, Handlers, bounds, TxKnown
<1>6. \A t \in Txs : TxKnown(t)'
  BY <1>1, <1>3, <1>4, StoreTypes, SMT DEF FundingInv, LinkKnown, SideKnown, HandKnown, SessionKnown,
       OpenIsFunded, TxKnown, Sent, Building, Late, Handlers
<1>7. SessionKnown' /\ OpenIsFunded'
  BY <1>1, <1>3, <1>4, StoreTypes, SMT DEF FundingInv, LinkKnown, SideKnown, HandKnown, SessionKnown,
       OpenIsFunded, TxKnown, Sent, Building, Late
<1>8. LinkKnown'
  BY <1>1, <1>3, <1>4, StoreTypes, SMT DEF FundingInv, LinkKnown, SideKnown, HandKnown, SessionKnown,
       OpenIsFunded, TxKnown, Sent, Building, Late
<1>9. SideKnown'
  BY <1>1, <1>3, <1>4, StoreTypes, SMT DEF FundingInv, LinkKnown, SideKnown, HandKnown, SessionKnown,
       OpenIsFunded, TxKnown, Sent, Building, Late, money, bounds, Moved, Only, Handlers
<1>10. \A g \in Handlers : HandKnown(g)'
  BY <1>1, <1>3, <1>4, StoreTypes, SMT DEF FundingInv, LinkKnown, SideKnown, HandKnown, SessionKnown,
       OpenIsFunded, TxKnown, Sent, Building, Late, Moved, Only
<1>11. UNCHANGED <<session, seen, restarts>>
  BY DEF UndoLedger, bounds
<1>12. SessionFrame("link") /\ BuildFrame("link")
  BY <1>1, <1>3, <1>4, StoreTypes, <1>11, TypeFacts, SMT DEF FundingInv, LinkKnown, SideKnown,
       HandKnown, SessionKnown, OpenIsFunded, TxKnown, Sent, Building, Late, money, bounds, Moved, Only,
       Handlers, Freeing, AnswerSteps, At, SessionFrame, BuildFrame, Clean
<1>13. StoreFrame("link") /\ FreeFrame("link")
  BY <1>1, <1>3, <1>4, StoreTypes, <1>11, TypeFacts, SMT DEF FundingInv, LinkKnown, SideKnown,
       HandKnown, SessionKnown, OpenIsFunded, TxKnown, Sent, Building, Late, money, bounds, Moved, Only,
       StoreFrame, FreeFrame, Clean
<1>. QED BY <1>1, <1>2, <1>5, <1>6, <1>7, <1>8, <1>9, <1>10, <1>11, <1>12, <1>13 DEF FundingInv, Frame,
              Moved

\* The outcome of a dispatch is written to the outbox.
LEMMA MarkOutboxKeeps ==
  ASSUME FundingInv, NEW h \in Handlers, MarkOutbox(h)
  PROVE  FundingInv' /\ Frame(h)
<1>1. /\ Moved(h)
      /\ hand[h].pc = "mark-outbox"
      /\ hand'[h].pc = IF hand[h].res = "confirmed" THEN "observe"
                       ELSE IF hand[h].res = "failed" THEN "release" ELSE "unknown"
  BY GotoMoves, TypeFacts, SMT DEF FundingInv, MarkOutbox, At, Steps, SubmitSteps
<1>2. FundingTypeOK'
  <2>1. "link" \in Handlers /\ {h} \subseteq Handlers
    BY TypeFacts DEF FundingInv
  <2>2. hand[h].res \in OutboxStates
    BY <1>1, SMT DEF FundingInv, OutboxStates, LinkKnown, SideKnown, Handlers
  <2>4. hand[h].tx \in Txs
    BY <1>1, HandTx, TypeFacts, SMT DEF FundingInv, Building, Late
  <2>3. outbox' \in [Txs -> OutboxStates]
    BY <1>1, <2>2, <2>4, StoreTypes, SMT DEF FundingInv, MarkOutbox
  <2>. QED BY <1>1, <2>1, <2>3, SMT DEF FundingInv, FundingTypeOK, MarkOutbox, Moved, Only, HandRecords,
                bounds
<1>3. hand[h].tx \in Txs
  BY <1>1, HandTx, TypeFacts, SMT DEF FundingInv, Building, Late
<1>4. /\ outbox'[hand[h].tx] = hand[h].res
      /\ \A u \in Txs : u # hand[h].tx => outbox'[u] = outbox[u]
      /\ UNCHANGED <<session, file, plan, pool, wallet, live, taken, opens>>
  BY <1>1, <1>3, GotoMoves, StoreTypes, TypeFacts, SMT DEF FundingInv, MarkOutbox, money, bounds, Steps,
       SubmitSteps
<1>5. Made'
  BY <1>1, <1>3, <1>4, StoreTypes, MadeStays, SMT DEF FundingInv, Moved, Only, Handlers, bounds, TxKnown
<1>6. \A t \in Txs : TxKnown(t)'
  BY <1>1, <1>3, <1>4, StoreTypes, SMT DEF FundingInv, LinkKnown, SideKnown, HandKnown, SessionKnown,
       OpenIsFunded, TxKnown, Sent, Building, Late, Handlers
<1>7. SessionKnown' /\ OpenIsFunded'
  BY <1>1, <1>3, <1>4, StoreTypes, SMT DEF FundingInv, LinkKnown, SideKnown, HandKnown, SessionKnown,
       OpenIsFunded, TxKnown, Sent, Building, Late, Handlers
<1>8. LinkKnown'
  BY <1>1, <1>3, <1>4, StoreTypes, SMT DEF FundingInv, LinkKnown, SideKnown, HandKnown, SessionKnown,
       OpenIsFunded, TxKnown, Sent, Building, Late, Handlers
<1>9. SideKnown'
  BY <1>1, <1>3, <1>4, StoreTypes, SMT DEF FundingInv, LinkKnown, SideKnown, HandKnown, SessionKnown,
       OpenIsFunded, TxKnown, Sent, Building, Late, money, bounds, Moved, Only, Handlers
<1>10. \A g \in Handlers : HandKnown(g)'
  BY <1>1, <1>3, <1>4, StoreTypes, SMT DEF FundingInv, LinkKnown, SideKnown, HandKnown, SessionKnown,
       OpenIsFunded, TxKnown, Sent, Building, Late, Moved, Only, Handlers
<1>11. UNCHANGED <<session, seen, restarts>>
  BY DEF MarkOutbox, bounds
<1>12. SessionFrame(h) /\ BuildFrame(h)
  BY <1>1, <1>3, <1>4, StoreTypes, <1>11, TypeFacts, SMT DEF FundingInv, LinkKnown, SideKnown,
       HandKnown, SessionKnown, OpenIsFunded, TxKnown, Sent, Building, Late, money, bounds, Moved, Only,
       Handlers, Freeing, AnswerSteps, At, SessionFrame, BuildFrame
<1>13. StoreFrame(h) /\ FreeFrame(h)
  BY <1>1, <1>3, <1>4, StoreTypes, <1>11, TypeFacts, SMT DEF FundingInv, LinkKnown, SideKnown,
       HandKnown, SessionKnown, OpenIsFunded, TxKnown, Sent, Building, Late, money, bounds, Moved, Only,
       StoreFrame, FreeFrame, Clean
<1>. QED BY <1>1, <1>2, <1>5, <1>6, <1>7, <1>8, <1>9, <1>10, <1>11, <1>12, <1>13 DEF FundingInv, Frame,
              Moved

\* A transaction counts as confirmed only when a node has it.
LEMMA ReconcileKeeps ==
  ASSUME FundingInv, NEW h \in Handlers, Reconcile(h)
  PROVE  FundingInv' /\ Frame(h)
<1>1. /\ Moved(h)
      /\ hand[h].pc = "reconcile" /\ hand'[h].pc \in {"unknown", "observe"}
  BY GotoMoves, TypeFacts, SMT DEF FundingInv, Reconcile, At, Steps, SubmitSteps
<1>2. FundingTypeOK'
  <2>1. "link" \in Handlers /\ {h} \subseteq Handlers
    BY TypeFacts DEF FundingInv
  <2>. QED BY <1>1, <2>1, SMT DEF FundingInv, FundingTypeOK, Reconcile, Moved, Only, HandRecords,
                SomeTx, bounds, OutboxStates
<1>3. hand[h].tx \in Txs
  BY <1>1, HandTx, TypeFacts, SMT DEF FundingInv, Building, Late
<1>4. /\ \/ hand'[h].pc = "unknown" /\ outbox' = outbox
         \/ /\ hand'[h].pc = "observe" /\ (outbox[hand[h].tx] = "confirmed" \/ hand[h].tx \in taken)
            /\ outbox'[hand[h].tx] = "confirmed"
            /\ \A u \in Txs : u # hand[h].tx => outbox'[u] = outbox[u]
      /\ UNCHANGED <<session, file, plan, pool, wallet, live, taken, opens>>
  BY <1>1, <1>3, GotoMoves, StoreTypes, TypeFacts, SMT DEF FundingInv, Reconcile, money, bounds, Steps,
       SubmitSteps
<1>5. Made'
  BY <1>1, <1>3, <1>4, StoreTypes, MadeStays, SMT DEF FundingInv, Moved, Only, Handlers, bounds, TxKnown
<1>6. \A t \in Txs : TxKnown(t)'
  BY <1>1, <1>3, <1>4, StoreTypes, SMT DEF FundingInv, LinkKnown, SideKnown, HandKnown, SessionKnown,
       OpenIsFunded, TxKnown, Sent, Building, Late
<1>7. SessionKnown' /\ OpenIsFunded'
  BY <1>1, <1>3, <1>4, StoreTypes, SMT DEF FundingInv, LinkKnown, SideKnown, HandKnown, SessionKnown,
       OpenIsFunded, TxKnown, Sent, Building, Late
<1>8. LinkKnown'
  BY <1>1, <1>3, <1>4, StoreTypes, SMT DEF FundingInv, LinkKnown, SideKnown, HandKnown, SessionKnown,
       OpenIsFunded, TxKnown, Sent, Building, Late, Moved, Only, Handlers
<1>9. SideKnown'
  BY <1>1, <1>3, <1>4, StoreTypes, SMT DEF FundingInv, LinkKnown, SideKnown, HandKnown, SessionKnown,
       OpenIsFunded, TxKnown, Sent, Building, Late, money, bounds, Moved, Only, Handlers, OpenSteps,
       AnswerSteps
<1>10. \A g \in Handlers : HandKnown(g)'
  BY <1>1, <1>3, <1>4, StoreTypes, SMT DEF FundingInv, LinkKnown, SideKnown, HandKnown, SessionKnown,
       OpenIsFunded, TxKnown, Sent, Building, Late, Moved, Only
<1>11. UNCHANGED <<session, seen, restarts>>
  BY DEF Reconcile, bounds
<1>12. SessionFrame(h) /\ BuildFrame(h)
  BY <1>1, <1>3, <1>4, StoreTypes, <1>11, TypeFacts, SMT DEF FundingInv, LinkKnown, SideKnown,
       HandKnown, SessionKnown, OpenIsFunded, TxKnown, Sent, Building, Late, money, bounds, Moved, Only,
       Handlers, Freeing, AnswerSteps, At, SessionFrame, BuildFrame
<1>13. StoreFrame(h) /\ FreeFrame(h)
  BY <1>1, <1>3, <1>4, StoreTypes, <1>11, TypeFacts, SMT DEF FundingInv, LinkKnown, SideKnown,
       HandKnown, SessionKnown, OpenIsFunded, TxKnown, Sent, Building, Late, money, bounds, Moved, Only,
       StoreFrame, FreeFrame, Clean
<1>. QED BY <1>1, <1>2, <1>5, <1>6, <1>7, <1>8, <1>9, <1>10, <1>11, <1>12, <1>13 DEF FundingInv, Frame,
              Moved

\* An unknown outcome is noted for a plan that is not settled.
LEMMA LedgerUnknownKeeps ==
  ASSUME FundingInv, NEW h \in Handlers, LedgerUnknown(h)
  PROVE  FundingInv' /\ Frame(h)
<1>1. /\ Moved(h)
      /\ hand[h].pc = "unknown" /\ hand'[h].pc = "unknown-phase"
  BY GotoMoves, TypeFacts, SMT DEF FundingInv, LedgerUnknown, At, Steps, SubmitSteps
<1>2. FundingTypeOK'
  <2>1. "link" \in Handlers /\ {h} \subseteq Handlers
    BY TypeFacts DEF FundingInv
  <2>2. "unknown" \in PlanStates
    BY <1>1, SMT DEF FundingInv, PlanStates, LinkKnown, SideKnown, Handlers
  <2>4. hand[h].tx \in Txs
    BY <1>1, HandTx, TypeFacts, SMT DEF FundingInv, Building, Late
  <2>3. plan' \in [Txs -> PlanStates]
    BY <1>1, <2>2, <2>4, StoreTypes, SMT DEF FundingInv, LedgerUnknown
  <2>. QED BY <1>1, <2>1, <2>3, SMT DEF FundingInv, FundingTypeOK, LedgerUnknown, Moved, Only,
                HandRecords, bounds
<1>3. hand[h].tx \in Txs
  BY <1>1, HandTx, TypeFacts, SMT DEF FundingInv, Building, Late
<1>4. /\ plan'[hand[h].tx] = IF plan[hand[h].tx] = "prepared" THEN "unknown" ELSE plan[hand[h].tx]
      /\ \A u \in Txs : u # hand[h].tx => plan'[u] = plan[u]
      /\ UNCHANGED <<session, file, pool, outbox, wallet, live, taken, opens>>
  BY <1>1, <1>3, GotoMoves, StoreTypes, TypeFacts, SMT DEF FundingInv, LedgerUnknown, money, bounds,
       Steps, SubmitSteps
<1>5. Made'
  BY <1>1, <1>3, <1>4, StoreTypes, MadeStays, SMT DEF FundingInv, Moved, Only, Handlers, bounds, TxKnown
<1>6. \A t \in Txs : TxKnown(t)'
  BY <1>1, <1>3, <1>4, StoreTypes, SMT DEF FundingInv, LinkKnown, SideKnown, HandKnown, SessionKnown,
       OpenIsFunded, TxKnown, Sent, Building, Late
<1>7. SessionKnown' /\ OpenIsFunded'
  BY <1>1, <1>3, <1>4, StoreTypes, SMT DEF FundingInv, LinkKnown, SideKnown, HandKnown, SessionKnown,
       OpenIsFunded, TxKnown, Sent, Building, Late
<1>8. LinkKnown'
  BY <1>1, <1>3, <1>4, StoreTypes, SMT DEF FundingInv, LinkKnown, SideKnown, HandKnown, SessionKnown,
       OpenIsFunded, TxKnown, Sent, Building, Late, Moved, Only, Handlers
<1>9. SideKnown'
  BY <1>1, <1>3, <1>4, StoreTypes, SMT DEF FundingInv, LinkKnown, SideKnown, HandKnown, SessionKnown,
       OpenIsFunded, TxKnown, Sent, Building, Late, money, bounds, Moved, Only, Handlers, OpenSteps,
       AnswerSteps
<1>10. \A g \in Handlers : HandKnown(g)'
  BY <1>1, <1>3, <1>4, StoreTypes, SMT DEF FundingInv, LinkKnown, SideKnown, HandKnown, SessionKnown,
       OpenIsFunded, TxKnown, Sent, Building, Late, Moved, Only
<1>11. UNCHANGED <<session, seen, restarts>>
  BY DEF LedgerUnknown, bounds
<1>12. SessionFrame(h) /\ BuildFrame(h)
  BY <1>1, <1>3, <1>4, StoreTypes, <1>11, TypeFacts, SMT DEF FundingInv, LinkKnown, SideKnown,
       HandKnown, SessionKnown, OpenIsFunded, TxKnown, Sent, Building, Late, money, bounds, Moved, Only,
       Handlers, Freeing, AnswerSteps, At, SessionFrame, BuildFrame
<1>13. StoreFrame(h) /\ FreeFrame(h)
  BY <1>1, <1>3, <1>4, StoreTypes, <1>11, TypeFacts, SMT DEF FundingInv, LinkKnown, SideKnown,
       HandKnown, SessionKnown, OpenIsFunded, TxKnown, Sent, Building, Late, money, bounds, Moved, Only,
       StoreFrame, FreeFrame, Clean
<1>. QED BY <1>1, <1>2, <1>5, <1>6, <1>7, <1>8, <1>9, <1>10, <1>11, <1>12, <1>13 DEF FundingInv, Frame,
              Moved

\* The wallet releases only what was definitely refused.
LEMMA ReleaseFailedKeeps ==
  ASSUME FundingInv, NEW h \in Handlers, ReleaseFailed(h)
  PROVE  FundingInv' /\ Frame(h)
<1>1. /\ Moved(h)
      /\ hand[h].pc = "release" /\ hand'[h].pc \in {"failed-phase", "release-ledger", "idle"}
  BY GotoMoves, TypeFacts, SMT DEF FundingInv, ReleaseFailed, At, Steps, SubmitSteps, Return
<1>2. FundingTypeOK'
  <2>1. "link" \in Handlers /\ {h} \subseteq Handlers
    BY TypeFacts DEF FundingInv
  <2>. QED BY <1>1, <2>1, SMT DEF FundingInv, FundingTypeOK, ReleaseFailed, MayRelease, ReleaseSpend,
                Moved, Only, HandRecords, SomeTx, bounds, WalletStates
<1>3. hand[h].tx \in Txs
  BY <1>1, HandTx, TypeFacts, SMT DEF FundingInv, Building, Late
<1>4. /\ \/ /\ hand'[h].pc = "release-ledger" /\ wallet[hand[h].tx] \in {"prepared", "rejected"}
            /\ wallet'[hand[h].tx] = "rejected" /\ live' = live \ {hand[h].tx}
            /\ \A u \in Txs : u # hand[h].tx => wallet'[u] = wallet[u]
         \/ UNCHANGED <<wallet, live>> /\ hand'[h].pc # "release-ledger"
      /\ UNCHANGED <<session, file, plan, pool, outbox, taken, opens>>
  BY <1>1, <1>3, GotoMoves, StoreTypes, TypeFacts, SMT DEF FundingInv, ReleaseFailed, MayRelease,
       ReleaseSpend, bounds, Steps, SubmitSteps, Return
<1>5. Made'
  BY <1>1, <1>3, <1>4, StoreTypes, MadeStays, SMT DEF FundingInv, Moved, Only, Handlers, bounds, TxKnown
<1>6. \A t \in Txs : TxKnown(t)'
  BY <1>1, <1>3, <1>4, StoreTypes, SMT DEF FundingInv, LinkKnown, SideKnown, HandKnown, SessionKnown,
       OpenIsFunded, TxKnown, Sent, Building, Late
<1>7. SessionKnown' /\ OpenIsFunded'
  BY <1>1, <1>3, <1>4, StoreTypes, SMT DEF FundingInv, LinkKnown, SideKnown, HandKnown, SessionKnown,
       OpenIsFunded, TxKnown, Sent, Building, Late
<1>8. LinkKnown'
  BY <1>1, <1>3, <1>4, StoreTypes, SMT DEF FundingInv, LinkKnown, SideKnown, HandKnown, SessionKnown,
       OpenIsFunded, TxKnown, Sent, Building, Late, Moved, Only, Handlers
<1>9. SideKnown'
  BY <1>1, <1>3, <1>4, StoreTypes, SMT DEF FundingInv, LinkKnown, SideKnown, HandKnown, SessionKnown,
       OpenIsFunded, TxKnown, Sent, Building, Late, money, bounds, Moved, Only, Handlers, OpenSteps,
       AnswerSteps
<1>10. \A g \in Handlers : HandKnown(g)'
  BY <1>1, <1>3, <1>4, StoreTypes, SMT DEF FundingInv, LinkKnown, SideKnown, HandKnown, SessionKnown,
       OpenIsFunded, TxKnown, Sent, Building, Late, Moved, Only
<1>11. UNCHANGED <<session, seen, restarts>>
  BY DEF ReleaseFailed, bounds
<1>12. SessionFrame(h) /\ BuildFrame(h)
  BY <1>1, <1>3, <1>4, StoreTypes, <1>11, TypeFacts, SMT DEF FundingInv, LinkKnown, SideKnown,
       HandKnown, SessionKnown, OpenIsFunded, TxKnown, Sent, Building, Late, money, bounds, Moved, Only,
       Handlers, Freeing, AnswerSteps, At, SessionFrame, BuildFrame
<1>13. StoreFrame(h) /\ FreeFrame(h)
  BY <1>1, <1>3, <1>4, StoreTypes, <1>11, TypeFacts, SMT DEF FundingInv, LinkKnown, SideKnown,
       HandKnown, SessionKnown, OpenIsFunded, TxKnown, Sent, Building, Late, money, bounds, Moved, Only,
       StoreFrame, FreeFrame, Clean
<1>. QED BY <1>1, <1>2, <1>5, <1>6, <1>7, <1>8, <1>9, <1>10, <1>11, <1>12, <1>13 DEF FundingInv, Frame,
              Moved

\* The ledger releases only what the wallet has released.
LEMMA ReleaseFailedPlanKeeps ==
  ASSUME FundingInv, NEW h \in Handlers, ReleaseFailedPlan(h)
  PROVE  FundingInv' /\ Frame(h)
<1>1. /\ Moved(h)
      /\ hand[h].pc = "release-ledger" /\ hand'[h].pc = "failed-phase"
  BY GotoMoves, TypeFacts, SMT DEF FundingInv, ReleaseFailedPlan, At, Steps, SubmitSteps
<1>2. FundingTypeOK'
  <2>1. "link" \in Handlers /\ {h} \subseteq Handlers
    BY TypeFacts DEF FundingInv
  <2>. QED BY <1>1, <2>1, SMTT(30) DEF FundingInv, FundingTypeOK, ReleaseFailedPlan, ReleasePlan, Moved,
                Only, HandRecords, bounds, PlanStates, PoolStates
<1>3. hand[h].tx \in Txs
  BY <1>1, HandTx, TypeFacts, SMT DEF FundingInv, Building, Late
<1>4. /\ \/ /\ plan[hand[h].tx] \in {"prepared", "unknown"}
               /\ ~(pool.state = "open" /\ pool.tx = hand[h].tx)
            /\ plan'[hand[h].tx] = "failed" /\ \A u \in Txs : u # hand[h].tx => plan'[u] = plan[u]
            /\ pool'.state = "funding-failed" /\ pool'.tx = pool.tx
         \/ /\ UNCHANGED <<plan, pool>>
            /\ plan[hand[h].tx] \in {"none", "failed", "observed"}
               \/ (pool.state = "open" /\ pool.tx = hand[h].tx)
      /\ UNCHANGED <<session, file, outbox, wallet, live, taken, opens>>
  BY <1>1, <1>3, GotoMoves, PlanIsReleased, StoreTypes, TypeFacts, SMT DEF FundingInv,
       ReleaseFailedPlan, money, bounds, Steps, SubmitSteps
<1>5. Made'
  BY <1>1, <1>3, <1>4, StoreTypes, MadeStays, SMT DEF FundingInv, Moved, Only, Handlers, bounds, TxKnown
<1>6. \A t \in Txs : TxKnown(t)'
  BY <1>1, <1>3, <1>4, StoreTypes, SMT DEF FundingInv, LinkKnown, SideKnown, HandKnown, SessionKnown,
       OpenIsFunded, TxKnown, Sent, Building, Late
<1>7. SessionKnown' /\ OpenIsFunded'
  BY <1>1, <1>3, <1>4, StoreTypes, SMT DEF FundingInv, LinkKnown, SideKnown, HandKnown, SessionKnown,
       OpenIsFunded, TxKnown, Sent, Building, Late
<1>8. LinkKnown'
  BY <1>1, <1>3, <1>4, StoreTypes, SMT DEF FundingInv, LinkKnown, SideKnown, HandKnown, SessionKnown,
       OpenIsFunded, TxKnown, Sent, Building, Late, Moved, Only, Handlers
<1>9. SideKnown'
  BY <1>1, <1>3, <1>4, StoreTypes, SMT DEF FundingInv, LinkKnown, SideKnown, HandKnown, SessionKnown,
       OpenIsFunded, TxKnown, Sent, Building, Late, money, bounds, Moved, Only, Handlers, OpenSteps,
       AnswerSteps
<1>10. \A g \in Handlers : HandKnown(g)'
  BY <1>1, <1>3, <1>4, StoreTypes, SMT DEF FundingInv, LinkKnown, SideKnown, HandKnown, SessionKnown,
       OpenIsFunded, TxKnown, Sent, Building, Late, Moved, Only
<1>11. UNCHANGED <<session, seen, restarts>>
  BY DEF ReleaseFailedPlan, bounds
<1>12. SessionFrame(h) /\ BuildFrame(h)
  BY <1>1, <1>3, <1>4, StoreTypes, <1>11, TypeFacts, SMT DEF FundingInv, LinkKnown, SideKnown,
       HandKnown, SessionKnown, OpenIsFunded, TxKnown, Sent, Building, Late, money, bounds, Moved, Only,
       Handlers, Freeing, AnswerSteps, At, SessionFrame, BuildFrame
<1>13. StoreFrame(h) /\ FreeFrame(h)
  BY <1>1, <1>3, <1>4, StoreTypes, <1>11, TypeFacts, SMT DEF FundingInv, LinkKnown, SideKnown,
       HandKnown, SessionKnown, OpenIsFunded, TxKnown, Sent, Building, Late, money, bounds, Moved, Only,
       StoreFrame, FreeFrame, Clean
<1>. QED BY <1>1, <1>2, <1>5, <1>6, <1>7, <1>8, <1>9, <1>10, <1>11, <1>12, <1>13 DEF FundingInv, Frame,
              Moved

\* The pool opens only over the confirmed transaction that is fixed.
LEMMA ObserveKeeps ==
  ASSUME FundingInv, NEW h \in Handlers, Observe(h)
  PROVE  FundingInv' /\ Frame(h)
<1>1. /\ Moved(h)
      /\ hand[h].pc = "observe" /\ hand'[h].pc \in {"kind4", "idle"}
  BY GotoMoves, TypeFacts, SMT DEF FundingInv, Observe, At, Steps, SubmitSteps, Return
<1>2. FundingTypeOK'
  <2>1. "link" \in Handlers /\ {h} \subseteq Handlers
    BY TypeFacts DEF FundingInv
  <2>. QED BY <1>1, <2>1, SMT DEF FundingInv, FundingTypeOK, Observe, Moved, Only, HandRecords, SomeTx,
                bounds, PlanStates, PoolStates
<1>3. hand[h].tx \in Txs
  BY <1>1, HandTx, TypeFacts, SMT DEF FundingInv, Building, Late
<1>4. /\ \/ /\ pool.tx = hand[h].tx /\ pool.state \in {"funding-pending", "open"}
            /\ plan'[hand[h].tx] = "observed" /\ \A u \in Txs : u # hand[h].tx => plan'[u] = plan[u]
            /\ pool'.state = "open" /\ pool'.tx = pool.tx
         \/ UNCHANGED <<plan, pool>> /\ hand'[h].pc = "idle"
      /\ UNCHANGED <<session, file, outbox, wallet, live, taken, opens>>
  BY <1>1, <1>3, GotoMoves, StoreTypes, TypeFacts, SMT DEF FundingInv, Observe, money, bounds, Steps,
       Return
<1>5. Made'
  BY <1>1, <1>3, <1>4, StoreTypes, MadeStays, SMT DEF FundingInv, Moved, Only, Handlers, bounds, TxKnown
<1>6. \A t \in Txs : TxKnown(t)'
  BY <1>1, <1>3, <1>4, StoreTypes, SMT DEF FundingInv, LinkKnown, SideKnown, HandKnown, SessionKnown,
       OpenIsFunded, TxKnown, Sent, Building, Late
<1>7. SessionKnown' /\ OpenIsFunded'
  BY <1>1, <1>3, <1>4, StoreTypes, SMT DEF FundingInv, LinkKnown, SideKnown, HandKnown, SessionKnown,
       OpenIsFunded, TxKnown, Sent, Building, Late
<1>8. LinkKnown'
  BY <1>1, <1>3, <1>4, StoreTypes, SMT DEF FundingInv, LinkKnown, SideKnown, HandKnown, SessionKnown,
       OpenIsFunded, TxKnown, Sent, Building, Late, Moved, Only, Handlers
<1>9. SideKnown'
  BY <1>1, <1>3, <1>4, StoreTypes, SMT DEF FundingInv, LinkKnown, SideKnown, HandKnown, SessionKnown,
       OpenIsFunded, TxKnown, Sent, Building, Late, money, bounds, Moved, Only, Handlers, OpenSteps,
       AnswerSteps
<1>10. \A g \in Handlers : HandKnown(g)'
  BY <1>1, <1>3, <1>4, StoreTypes, SMT DEF FundingInv, LinkKnown, SideKnown, HandKnown, SessionKnown,
       OpenIsFunded, TxKnown, Sent, Building, Late, Moved, Only
<1>11. UNCHANGED <<session, seen, restarts>>
  BY DEF Observe, bounds
<1>12. SessionFrame(h) /\ BuildFrame(h)
  BY <1>1, <1>3, <1>4, StoreTypes, <1>11, TypeFacts, SMT DEF FundingInv, LinkKnown, SideKnown,
       HandKnown, SessionKnown, OpenIsFunded, TxKnown, Sent, Building, Late, money, bounds, Moved, Only,
       Handlers, Freeing, AnswerSteps, At, SessionFrame, BuildFrame
<1>13. StoreFrame(h) /\ FreeFrame(h)
  BY <1>1, <1>3, <1>4, StoreTypes, <1>11, TypeFacts, SMT DEF FundingInv, LinkKnown, SideKnown,
       HandKnown, SessionKnown, OpenIsFunded, TxKnown, Sent, Building, Late, money, bounds, Moved, Only,
       StoreFrame, FreeFrame, Clean
<1>. QED BY <1>1, <1>2, <1>5, <1>6, <1>7, <1>8, <1>9, <1>10, <1>11, <1>12, <1>13 DEF FundingInv, Frame,
              Moved

\* A cancellation releases in the wallet only what nobody dispatched.
LEMMA FreeKeeps ==
  ASSUME FundingInv, NEW h \in Handlers, Free(h)
  PROVE  FundingInv' /\ Frame(h)
<1>1. /\ Moved(h)
      /\ hand[h].pc = "free" /\ hand'[h].pc \in {"free-ledger", "idle"}
  BY GotoMoves, TypeFacts, SMT DEF FundingInv, Free, At, Steps, CancelSteps, Return
<1>2. FundingTypeOK'
  <2>1. "link" \in Handlers /\ {h} \subseteq Handlers
    BY TypeFacts DEF FundingInv
  <2>. QED BY <1>1, <2>1, SMT DEF FundingInv, FundingTypeOK, Free, MayRelease, ReleaseSpend, Moved,
                Only, HandRecords, SomeTx, bounds, WalletStates
<1>3. hand[h].tx \in Txs
  BY <1>1, HandTx, TypeFacts, SMT DEF FundingInv, Building, Late
<1>4. /\ \/ /\ hand'[h].pc = "free-ledger" /\ wallet[hand[h].tx] \in {"prepared", "rejected"}
            /\ wallet'[hand[h].tx] = "rejected" /\ live' = live \ {hand[h].tx}
            /\ \A u \in Txs : u # hand[h].tx => wallet'[u] = wallet[u]
         \/ UNCHANGED <<wallet, live>> /\ hand'[h].pc # "free-ledger"
      /\ UNCHANGED <<session, file, plan, pool, outbox, taken, opens>>
  BY <1>1, <1>3, GotoMoves, StoreTypes, TypeFacts, SMT DEF FundingInv, Free, MayRelease, ReleaseSpend,
       bounds, Steps, CancelSteps, Return
<1>5. Made'
  BY <1>1, <1>3, <1>4, StoreTypes, MadeStays, SMT DEF FundingInv, Moved, Only, Handlers, bounds, TxKnown
<1>6. \A t \in Txs : TxKnown(t)'
  BY <1>1, <1>3, <1>4, StoreTypes, SMT DEF FundingInv, LinkKnown, SideKnown, HandKnown, SessionKnown,
       OpenIsFunded, TxKnown, Sent, Building, Late, Moved, Only, Handlers
<1>7. SessionKnown' /\ OpenIsFunded'
  BY <1>1, <1>3, <1>4, StoreTypes, SMT DEF FundingInv, LinkKnown, SideKnown, HandKnown, SessionKnown,
       OpenIsFunded, TxKnown, Sent, Building, Late
<1>8. LinkKnown'
  BY <1>1, <1>3, <1>4, StoreTypes, SMT DEF FundingInv, LinkKnown, SideKnown, HandKnown, SessionKnown,
       OpenIsFunded, TxKnown, Sent, Building, Late, Moved, Only, Handlers
<1>9. SideKnown'
  BY <1>1, <1>3, <1>4, StoreTypes, SMT DEF FundingInv, LinkKnown, SideKnown, HandKnown, SessionKnown,
       OpenIsFunded, TxKnown, Sent, Building, Late, money, bounds, Moved, Only, Handlers, OpenSteps,
       AnswerSteps
<1>10. \A g \in Handlers : HandKnown(g)'
  BY <1>1, <1>3, <1>4, StoreTypes, SMT DEF FundingInv, LinkKnown, SideKnown, HandKnown, SessionKnown,
       OpenIsFunded, TxKnown, Sent, Building, Late, Moved, Only
<1>11. UNCHANGED <<session, seen, restarts>>
  BY DEF Free, bounds
<1>12. SessionFrame(h) /\ BuildFrame(h)
  BY <1>1, <1>3, <1>4, StoreTypes, <1>11, TypeFacts, SMT DEF FundingInv, LinkKnown, SideKnown,
       HandKnown, SessionKnown, OpenIsFunded, TxKnown, Sent, Building, Late, money, bounds, Moved, Only,
       Handlers, Freeing, AnswerSteps, At, SessionFrame, BuildFrame
<1>13. StoreFrame(h) /\ FreeFrame(h)
  BY <1>1, <1>3, <1>4, StoreTypes, <1>11, TypeFacts, SMT DEF FundingInv, LinkKnown, SideKnown,
       HandKnown, SessionKnown, OpenIsFunded, TxKnown, Sent, Building, Late, money, bounds, Moved, Only,
       StoreFrame, FreeFrame, Clean
<1>. QED BY <1>1, <1>2, <1>5, <1>6, <1>7, <1>8, <1>9, <1>10, <1>11, <1>12, <1>13 DEF FundingInv, Frame,
              Moved

\* The ledger follows the wallet in a cancellation.
LEMMA FreeLedgerKeeps ==
  ASSUME FundingInv, NEW h \in Handlers, FreeLedger(h)
  PROVE  FundingInv' /\ Frame(h)
<1>1. /\ Moved(h)
      /\ hand[h].pc = "free-ledger" /\ hand'[h].pc \in {"finish", "idle"}
  BY GotoMoves, TypeFacts, SMT DEF FundingInv, FreeLedger, At, Steps, CancelSteps, Return
<1>2. FundingTypeOK'
  <2>1. "link" \in Handlers /\ {h} \subseteq Handlers
    BY TypeFacts DEF FundingInv
  <2>. QED BY <1>1, <2>1, SMT DEF FundingInv, FundingTypeOK, FreeLedger, ReleasePlan, Moved, Only,
                HandRecords, SomeTx, bounds, PlanStates, PoolStates
<1>3. hand[h].tx \in Txs
  BY <1>1, HandTx, TypeFacts, SMT DEF FundingInv, Building, Late
<1>4. /\ \/ hand'[h].pc = "idle" /\ UNCHANGED <<plan, pool>>
         \/ /\ plan[hand[h].tx] \in {"prepared", "unknown"}
               /\ ~(pool.state = "open" /\ pool.tx = hand[h].tx)
            /\ plan'[hand[h].tx] = "failed" /\ \A u \in Txs : u # hand[h].tx => plan'[u] = plan[u]
            /\ pool'.state = "funding-failed" /\ pool'.tx = pool.tx
         \/ /\ UNCHANGED <<plan, pool>>
            /\ plan[hand[h].tx] \in {"none", "failed", "observed"}
               \/ (pool.state = "open" /\ pool.tx = hand[h].tx)
      /\ UNCHANGED <<session, file, outbox, wallet, live, taken, opens>>
  BY <1>1, <1>3, GotoMoves, PlanIsReleased, StoreTypes, TypeFacts, SMT DEF FundingInv, FreeLedger,
       money, bounds, Steps, Return
<1>5. Made'
  BY <1>1, <1>3, <1>4, StoreTypes, MadeStays, SMT DEF FundingInv, Moved, Only, Handlers, bounds, TxKnown
<1>6. \A t \in Txs : TxKnown(t)'
  BY <1>1, <1>3, <1>4, StoreTypes, SMT DEF FundingInv, LinkKnown, SideKnown, HandKnown, SessionKnown,
       OpenIsFunded, TxKnown, Sent, Building, Late, Moved, Only, Handlers
<1>7. SessionKnown' /\ OpenIsFunded'
  BY <1>1, <1>3, <1>4, StoreTypes, SMT DEF FundingInv, LinkKnown, SideKnown, HandKnown, SessionKnown,
       OpenIsFunded, TxKnown, Sent, Building, Late
<1>8. LinkKnown'
  BY <1>1, <1>3, <1>4, StoreTypes, SMT DEF FundingInv, LinkKnown, SideKnown, HandKnown, SessionKnown,
       OpenIsFunded, TxKnown, Sent, Building, Late, Moved, Only, Handlers
<1>9. SideKnown'
  BY <1>1, <1>3, <1>4, StoreTypes, SMT DEF FundingInv, LinkKnown, SideKnown, HandKnown, SessionKnown,
       OpenIsFunded, TxKnown, Sent, Building, Late, money, bounds, Moved, Only, Handlers, OpenSteps,
       AnswerSteps
<1>10. \A g \in Handlers : HandKnown(g)'
  BY <1>1, <1>3, <1>4, StoreTypes, SMT DEF FundingInv, LinkKnown, SideKnown, HandKnown, SessionKnown,
       OpenIsFunded, TxKnown, Sent, Building, Late, Moved, Only
<1>11. UNCHANGED <<session, seen, restarts>>
  BY DEF FreeLedger, bounds
<1>12. SessionFrame(h) /\ BuildFrame(h)
  BY <1>1, <1>3, <1>4, StoreTypes, <1>11, TypeFacts, SMT DEF FundingInv, LinkKnown, SideKnown,
       HandKnown, SessionKnown, OpenIsFunded, TxKnown, Sent, Building, Late, money, bounds, Moved, Only,
       Handlers, Freeing, AnswerSteps, At, SessionFrame, BuildFrame
<1>13. StoreFrame(h) /\ FreeFrame(h)
  BY <1>1, <1>3, <1>4, StoreTypes, <1>11, TypeFacts, SMT DEF FundingInv, LinkKnown, SideKnown,
       HandKnown, SessionKnown, OpenIsFunded, TxKnown, Sent, Building, Late, money, bounds, Moved, Only,
       At, StoreFrame, FreeFrame, Clean
<1>. QED BY <1>1, <1>2, <1>5, <1>6, <1>7, <1>8, <1>9, <1>10, <1>11, <1>12, <1>13 DEF FundingInv, Frame,
              Moved

\* A transaction found by recovery is confirmed for the fixed one.
LEMMA LookUpKeeps ==
  ASSUME FundingInv, LookUp
  PROVE  FundingInv' /\ Frame("side")
<1>1. /\ Moved("side")
      /\ hand["side"].pc = "lookup" /\ hand'["side"].pc \in {"idle", "submit"}
  BY GotoMoves, TypeFacts, SMT DEF FundingInv, LookUp, At, Steps, SubmitSteps, Return
<1>2. FundingTypeOK'
  <2>1. "link" \in Handlers /\ {"side"} \subseteq Handlers
    BY TypeFacts DEF FundingInv
  <2>. QED BY <1>1, <2>1, SMT DEF FundingInv, FundingTypeOK, LookUp, Moved, Only, HandRecords, SomeTx,
                bounds, OutboxStates
<1>3. hand["side"].tx \in Txs
  BY <1>1, HandTx, TypeFacts, SMT DEF FundingInv, Building, Late
<1>4. /\ \/ hand'["side"].pc = "idle" /\ outbox' = outbox
         \/ /\ hand'["side"].pc = "submit"
               /\ (outbox[hand["side"].tx] = "confirmed" \/ hand["side"].tx \in taken)
            /\ outbox'[hand["side"].tx] = "confirmed"
            /\ \A u \in Txs : u # hand["side"].tx => outbox'[u] = outbox[u]
      /\ UNCHANGED <<session, file, plan, pool, wallet, live, taken, opens>>
  BY <1>1, <1>3, GotoMoves, StoreTypes, TypeFacts, SMT DEF FundingInv, LookUp, bounds, Steps,
       SubmitSteps, Return
<1>5. Made'
  BY <1>1, <1>3, <1>4, StoreTypes, MadeStays, SMT DEF FundingInv, Moved, Only, Handlers, bounds, TxKnown
<1>6. \A t \in Txs : TxKnown(t)'
  BY <1>1, <1>3, <1>4, StoreTypes, SMT DEF FundingInv, LinkKnown, SideKnown, HandKnown, SessionKnown,
       OpenIsFunded, TxKnown, Sent, Building, Late
<1>7. SessionKnown' /\ OpenIsFunded'
  BY <1>1, <1>3, <1>4, StoreTypes, SMT DEF FundingInv, LinkKnown, SideKnown, HandKnown, SessionKnown,
       OpenIsFunded, TxKnown, Sent, Building, Late
<1>8. LinkKnown'
  BY <1>1, <1>3, <1>4, StoreTypes, SMT DEF FundingInv, LinkKnown, SideKnown, HandKnown, SessionKnown,
       OpenIsFunded, TxKnown, Sent, Building, Late, Moved, Only, Handlers
<1>9. SideKnown'
  BY <1>1, <1>3, <1>4, StoreTypes, SMT DEF FundingInv, LinkKnown, SideKnown, HandKnown, SessionKnown,
       OpenIsFunded, TxKnown, Sent, Building, Late, money, bounds, Moved, Only, OpenSteps, AnswerSteps
<1>10. \A g \in Handlers : HandKnown(g)'
  BY <1>1, <1>3, <1>4, StoreTypes, SMT DEF FundingInv, LinkKnown, SideKnown, HandKnown, SessionKnown,
       OpenIsFunded, TxKnown, Sent, Building, Late, Moved, Only
<1>11. UNCHANGED <<session, seen, restarts>>
  BY DEF LookUp, bounds
<1>12. SessionFrame("side") /\ BuildFrame("side")
  BY <1>1, <1>3, <1>4, StoreTypes, <1>11, TypeFacts, SMT DEF FundingInv, LinkKnown, SideKnown,
       HandKnown, SessionKnown, OpenIsFunded, TxKnown, Sent, Building, Late, money, bounds, Moved, Only,
       Handlers, Freeing, AnswerSteps, At, SessionFrame, BuildFrame
<1>13. StoreFrame("side") /\ FreeFrame("side")
  BY <1>1, <1>3, <1>4, StoreTypes, <1>11, TypeFacts, SMT DEF FundingInv, LinkKnown, SideKnown,
       HandKnown, SessionKnown, OpenIsFunded, TxKnown, Sent, Building, Late, money, bounds, Moved, Only,
       StoreFrame, FreeFrame, Clean
<1>. QED BY <1>1, <1>2, <1>5, <1>6, <1>7, <1>8, <1>9, <1>10, <1>11, <1>12, <1>13 DEF FundingInv, Frame,
              Moved

\* An open command starts from the record and the evidence it read.
LEMMA OpenKeeps ==
  ASSUME FundingInv, Open
  PROVE  FundingInv' /\ Frame("link")
<1>1. /\ Moved("link") /\ hand["link"].pc = "idle"
      /\ hand'["link"].pc \in {"configure", "fund", "fail", "present", "send"}
  BY GotoMoves, TypeFacts, SMT DEF FundingInv, Open, At, Steps, OpenSteps
<1>2. opens < MaxOpens /\ opens' = opens + 1 /\ UNCHANGED <<session, file, money, restarts>>
  BY DEF Open
<1>3. seen' \subseteq Handlers
  BY TypeFacts, SMT DEF FundingInv, Open, Read
<1>4. FundingTypeOK'
  BY <1>1, <1>2, <1>3, OpensAssumption, SMT DEF FundingInv, FundingTypeOK, Moved, Only, HandRecords,
       money
<1>5. Made'
  <2>1. PICK k \in 0 .. opens : {u \in Txs : wallet[u] # "none"} = 1 .. k
    BY DEF FundingInv, Made
  <2>2. k \in 0 .. opens' /\ k < opens'
    BY <1>2, <2>1, SMT DEF FundingInv, FundingTypeOK
  <2>. QED BY <1>2, <2>1, <2>2 DEF Made, money
<1>6. \A t \in Txs : TxKnown(t)'
  BY <1>1, <1>2, SMT DEF FundingInv, TxKnown, money
<1>7. SessionKnown' /\ OpenIsFunded'
  BY <1>2, SMT DEF FundingInv, SessionKnown, OpenIsFunded, Sent, money
<1>8. LinkKnown' /\ SideKnown'
  BY <1>1, <1>2, SMT DEF FundingInv, LinkKnown, SideKnown, Sent, Building, money, Moved, Only, Handlers
<1>9. \A g \in Handlers : HandKnown(g)'
  BY <1>1, <1>2, SMT DEF FundingInv, HandKnown, Sent, Late, money, Moved, Only
<1>10. Frame("link")
  <2>1. seen' = seen \union {"link"} /\ UNCHANGED <<session, file, plan, wallet, restarts>>
    BY <1>2 DEF Open, Read, money
  <2>. QED BY <1>1, <2>1, SMT DEF Frame, Moved, At, Building, AnswerSteps, Freeing, SessionFrame,
                BuildFrame, StoreFrame, FreeFrame, Clean
<1>. QED BY <1>10, <1>4, <1>5, <1>6, <1>7, <1>8, <1>9 DEF FundingInv

\* A new transaction is one that the wallet has not made yet.
LEMMA FundNewKeeps ==
  ASSUME FundingInv, FundNew
  PROVE  FundingInv' /\ Frame("link")
<1>. DEFINE n == 1 + Cardinality({u \in Txs : wallet[u] # "none"})
<1>1. CASE session.phase # "quote-selected"
  <2>1. Moved("link") /\ hand["link"].pc = "fund" /\ hand'["link"].pc = "fail"
    BY <1>1, GotoMoves, TypeFacts, SMT DEF FundingInv, FundNew, At, Steps, OpenSteps
  <2>2. UNCHANGED <<session, file, money, bounds>> /\ seen' = seen \union {"link"}
    BY <1>1 DEF FundNew, money, Read
  <2>3. Journal("link")
    BY <2>1, <2>2, NewRecords, TypeFacts, SMT DEF FundingInv, Journal, Moved
  <2>4. HandKnown("link")' /\ LinkKnown' /\ SessionKnown' /\ OpenIsFunded'
    BY <2>1, <2>2, SMT DEF FundingInv, HandKnown, LinkKnown, SessionKnown, OpenIsFunded, Sent, Late,
         Building, money
  <2>5. Frame("link")
    BY <2>1, <2>2, SMT DEF Frame, Moved, At, Building, AnswerSteps, Freeing, SessionFrame, BuildFrame,
         StoreFrame, FreeFrame, Clean, money, bounds
  <2>. QED BY <2>1, <2>3, <2>4, <2>5, JournalKeeps, SMT DEF Handlers
<1>2. CASE session.phase = "quote-selected"
  <2>1. PICK k \in 0 .. opens :
          {u \in Txs : wallet[u] # "none"} = 1 .. k /\ k < opens
    BY SMT DEF FundingInv, Made, FundNew, At
  <2>2. k \in Nat /\ Cardinality(1 .. k) = k
    BY <2>1, FS_Interval, SMT DEF FundingInv, FundingTypeOK
  <2>3. n = k + 1 /\ n \in Txs /\ wallet[n] = "none"
    <3>1. n = 1 + k
      BY <2>1, <2>2
    <3>. HIDE DEF n
    <3>2. opens \in Nat /\ MaxOpens \in Nat /\ opens <= MaxOpens
      BY OpensAssumption, SMT DEF FundingInv, FundingTypeOK
    <3>3. n \in Txs /\ n \notin 1 .. k
      BY <2>1, <2>2, <3>1, <3>2, SMT DEF Txs
    <3>. QED BY <2>1, <2>2, <3>1, <3>3, SMT
  <2>. HIDE DEF n
  <2>4. /\ hand["link"].pc = "fund" /\ file.funding = 0
        /\ hand' = [hand EXCEPT !["link"] = [pc |-> "reserve", tx |-> n, res |-> "none"]]
        /\ wallet' = [wallet EXCEPT ![n] = "prepared"] /\ live' = live \union {n}
        /\ seen' = seen \union {"link"}
        /\ UNCHANGED <<session, file, plan, pool, outbox, taken, opens, restarts>>
    BY <1>2, SMT DEF FundNew, At, Read, bounds, n
  <2>5. /\ Only("link") /\ hand'["link"].pc = "reserve" /\ hand'["link"].tx = n
        /\ wallet'[n] = "prepared" /\ \A u \in Txs : u # n => wallet'[u] = wallet[u]
        /\ wallet' \in [Txs -> WalletStates]
    <3>1. [pc |-> "reserve", tx |-> n, res |-> "none"] \in HandRecords
      BY <2>3, SMT DEF HandRecords, SomeTx, Steps, OpenSteps
    <3>2. hand \in [Handlers -> HandRecords]
      BY SMT DEF FundingInv, FundingTypeOK, HandRecords, SomeTx
    <3>3. "prepared" \in WalletStates
      BY DEF WalletStates
    <3>. QED BY <2>3, <2>4, <3>1, <3>2, <3>3, StoreTypes, TypeFacts, SMT DEF FundingInv, Only
  <2>6. FundingTypeOK'
    <3>1. seen' \subseteq Handlers
      BY <2>4, TypeFacts, SMT DEF FundingInv
    <3>. QED BY <2>3, <2>4, <2>5, <3>1, SMT DEF FundingInv, FundingTypeOK, Only, HandRecords, SomeTx
  <2>7. Made'
    <3>1. {u \in Txs : wallet'[u] # "none"} = {u \in Txs : wallet[u] # "none"} \union {n}
      <4>. "prepared" # "none"
        OBVIOUS
      <4>. QED BY <2>3, <2>5, Zenon
    <3>2. (1 .. k) \union {n} = 1 .. n
      BY <2>2, <2>3, SMT
    <3>3. n \in 0 .. opens'
      <4>. opens \in Nat
        BY SMT DEF FundingInv, FundingTypeOK
      <4>. QED BY <2>1, <2>2, <2>3, <2>4, SMT
    <3>. QED BY <2>1, <2>5, <3>1, <3>2, <3>3, SMT DEF Made
  <2>8. outbox[n] = "none" /\ plan[n] = "none" /\ n \notin taken /\ file.funding # n
    BY <2>3, SMT DEF FundingInv, TxKnown
  <2>9. \A t \in Txs : TxKnown(t)'
    BY <2>3, <2>4, <2>5, <2>8, SMT DEF FundingInv, TxKnown
  <2>10. SessionKnown' /\ OpenIsFunded'
    BY <2>4, SMT DEF FundingInv, SessionKnown, OpenIsFunded, Sent
  <2>11. LinkKnown' /\ SideKnown'
    BY <2>3, <2>4, <2>5, <2>8, StoreTypes, SMT DEF FundingInv, LinkKnown, SideKnown, Sent, Building, Only
  <2>12. \A g \in Handlers : HandKnown(g)'
    BY <2>3, <2>4, <2>5, <2>8, StoreTypes, SMT DEF FundingInv, HandKnown, Sent, Late, Only, Handlers
  <2>13. Frame("link")
    <3>1. \A u \in Txs : Clean(u) => Clean(u)' \/ u = n
      BY <2>3, <2>4, <2>5, SMT DEF Clean
    <3>. QED BY <1>2, <2>4, <2>5, <3>1, SMT DEF Frame, At, Building, AnswerSteps, Freeing, SessionFrame,
                  BuildFrame, StoreFrame, FreeFrame
  <2>. QED BY <2>13, <2>6, <2>7, <2>9, <2>10, <2>11, <2>12 DEF FundingInv
<1>. QED BY <1>1, <1>2

\* A fixed transaction is used again only while it is reserved.
LEMMA FundAgainKeeps ==
  ASSUME FundingInv, FundAgain
  PROVE  FundingInv' /\ Frame("link")
<1>. DEFINE t == file.funding
<1>1. t \in Txs
  BY StoreTypes, SMT DEF FundingInv, FundAgain
<1>2. /\ Only("link") /\ hand["link"].pc = "fund"
      /\ hand'["link"].pc \in {"fail", "funded-again", "sign"}
  <2>1. CASE session.tx \in {0, t}
    BY <1>1, <2>1, TypeFacts, SMT DEF FundingInv, FundingTypeOK, FundAgain, At, Only, HandRecords,
         Steps, OpenSteps
  <2>2. CASE session.tx \notin {0, t}
    BY <2>2, GotoMoves, TypeFacts, SMT DEF FundingInv, FundAgain, At, Moved, Steps, OpenSteps
  <2>. QED BY <2>1, <2>2
<1>3. /\ outbox' \in [Txs -> OutboxStates]
      /\ outbox'[t] = outbox[t] \/ (outbox[t] = "none" /\ outbox'[t] = "prepared")
      /\ \A u \in Txs : u # t => outbox'[u] = outbox[u]
  <2>1. "prepared" \in OutboxStates
    BY DEF OutboxStates
  <2>. QED BY <1>1, <2>1, StoreTypes, SMT DEF FundingInv, FundAgain
<1>4. seen' \subseteq Handlers
  BY TypeFacts, SMT DEF FundingInv, FundAgain, Read
<1>5. UNCHANGED <<session, file, plan, pool, wallet, live, taken, opens, restarts>>
  BY DEF FundAgain, bounds
<1>6. FundingTypeOK'
  BY <1>2, <1>3, <1>4, <1>5, SMT DEF FundingInv, FundingTypeOK, Only, HandRecords, SomeTx
<1>7. Made'
  BY <1>2, <1>5, MadeStays, SMT DEF FundingInv
<1>8. \A u \in Txs : TxKnown(u)'
  BY <1>1, <1>2, <1>3, <1>5, SMT DEF FundingInv, TxKnown
<1>9. SessionKnown' /\ OpenIsFunded'
  BY <1>1, <1>3, <1>5, SMT DEF FundingInv, SessionKnown, OpenIsFunded, Sent
<1>10. LinkKnown' /\ SideKnown'
  BY <1>1, <1>2, <1>3, <1>5, StoreTypes, SMT DEF FundingInv, LinkKnown, SideKnown, Sent, Building, Only,
       Handlers
<1>11. \A g \in Handlers : HandKnown(g)'
  BY <1>1, <1>2, <1>3, <1>5, StoreTypes, SMT DEF FundingInv, HandKnown, Sent, Late, Only, Handlers
<1>12. Frame("link")
  <2>1. seen' = seen \union {"link"}
    BY DEF FundAgain, Read
  <2>. QED BY <1>2, <1>5, <2>1, SMT DEF Frame, At, Building, AnswerSteps, Freeing, SessionFrame,
                BuildFrame, StoreFrame, FreeFrame, Clean
<1>. QED BY <1>12, <1>6, <1>7, <1>8, <1>9, <1>10, <1>11 DEF FundingInv

\* Only what was not taken before, and is not released, is taken.
LEMMA DispatchKeeps ==
  ASSUME FundingInv, NEW h \in Handlers, Dispatch(h)
  PROVE  FundingInv' /\ Frame(h)
<1>. DEFINE t == hand[h].tx
<1>1. h = "link" /\ hand[h].pc = "dispatch" /\ t \in Txs
  BY HandTx, SMT DEF FundingInv, Dispatch, At, SideKnown, Handlers
<1>2. /\ Only(h) /\ hand'[h].pc = "mark-outbox" /\ hand'[h].tx = t
      /\ wallet' \in [Txs -> WalletStates] /\ \A u \in Txs : u # t => wallet'[u] = wallet[u]
      /\ \/ /\ hand'[h].res = "failed" /\ wallet'[t] = "rejected" /\ taken' = taken
            /\ t \in live
         \/ hand'[h].res = "unknown" /\ wallet'[t] = wallet[t] /\ taken' = taken
         \/ /\ hand'[h].res \in {"confirmed", "unknown"} /\ wallet'[t] \in {"pending", "unknown"}
            /\ t \in live /\ wallet[t] # "rejected" /\ taken' = taken \union {t}
         \/ /\ hand'[h].res = "unknown" /\ wallet'[t] = "unknown" /\ taken' = taken
            /\ t \in live /\ wallet[t] # "rejected"
  <2>1. \A res \in {"confirmed", "failed", "unknown"} :
            [pc |-> "mark-outbox", tx |-> t, res |-> res] \in HandRecords
    BY <1>1, SMT DEF HandRecords, SomeTx, Steps, SubmitSteps, OutboxStates
  <2>2. hand \in [Handlers -> HandRecords]
    BY SMT DEF FundingInv, FundingTypeOK, HandRecords, SomeTx
  <2>3. {"pending", "unknown", "rejected"} \subseteq WalletStates
    BY DEF WalletStates
  <2>. QED BY <1>1, <2>1, <2>2, <2>3, StoreTypes, SMT DEF FundingInv, Dispatch, Only
<1>3. UNCHANGED <<session, seen, file, plan, pool, outbox, live, opens, restarts>>
  BY DEF Dispatch, bounds
<1>4. taken' \subseteq Txs
  BY <1>1, <1>2, StoreTypes, SMT DEF FundingInv
<1>5. FundingTypeOK'
  BY <1>2, <1>3, <1>4, SMT DEF FundingInv, FundingTypeOK, Only, HandRecords, SomeTx
<1>6. Made'
  <2>1. t \in live => wallet[t] # "none"
    BY <1>1, SMT DEF FundingInv, TxKnown
  <2>. QED BY <1>1, <1>2, <1>3, <2>1, MadeStays, SMT DEF FundingInv
<1>7. \A u \in Txs : TxKnown(u)'
  BY <1>1, <1>2, <1>3, SMT DEF FundingInv, TxKnown, LinkKnown
<1>8. SessionKnown' /\ OpenIsFunded'
  BY <1>1, <1>2, <1>3, SMT DEF FundingInv, SessionKnown, OpenIsFunded, Sent
<1>9. LinkKnown' /\ SideKnown'
  BY <1>1, <1>2, <1>3, StoreTypes, SMT DEF FundingInv, LinkKnown, SideKnown, Sent, Building, Only,
       Handlers
<1>10. \A g \in Handlers : HandKnown(g)'
  BY <1>1, <1>2, <1>3, StoreTypes, SMT DEF FundingInv, HandKnown, Sent, Late, Only, Handlers
<1>11. \A u \in Txs : Clean(u) => Clean(u)'
  BY <1>1, <1>2, <1>3, SMT DEF FundingInv, TxKnown, Clean
<1>12. Frame(h)
  BY <1>1, <1>2, <1>3, <1>11, SMT DEF Frame, At, Building, AnswerSteps, Freeing, SessionFrame,
       BuildFrame, StoreFrame, FreeFrame
<1>. QED BY <1>12, <1>5, <1>6, <1>7, <1>8, <1>9, <1>10 DEF FundingInv

\* A restart forgets the handlers and confirms only what a node has.
LEMMA RestartKeeps ==
  ASSUME FundingInv, Restart
  PROVE  FundingInv'
<1>1. PICK found \in SUBSET taken :
        outbox' = [t \in Txs |-> IF t \in found /\ outbox[t] \in {"prepared", "unknown"}
                                 THEN "confirmed" ELSE outbox[t]]
  BY DEF Restart
<1>2. /\ hand' = [h \in Handlers |-> Idle] /\ seen' = {} /\ live' = {}
      /\ restarts < MaxRestarts /\ restarts' = restarts + 1
      /\ UNCHANGED <<session, file, plan, pool, wallet, taken, opens>>
  BY DEF Restart
<1>3. \A t \in Txs : \/ outbox'[t] = outbox[t]
                     \/ outbox'[t] = "confirmed" /\ t \in taken /\ outbox[t] \in {"prepared", "unknown"}
  BY <1>1, SMT
<1>4. outbox' \in [Txs -> OutboxStates]
  <2>1. "confirmed" \in OutboxStates
    BY DEF OutboxStates
  <2>. QED BY <1>1, <2>1, StoreTypes, SMT DEF FundingInv
<1>5. \A g \in Handlers : hand'[g].pc = "idle"
  BY <1>2, SMT DEF Idle
<1>6. FundingTypeOK'
  <2>1. Idle \in HandRecords
    BY SMT DEF Idle, HandRecords, SomeTx, Steps
  <2>2. hand' \in [Handlers -> HandRecords] /\ seen' \subseteq Handlers /\ live' \subseteq Txs
    BY <1>2, <2>1
  <2>3. restarts' \in 0 .. MaxRestarts
    BY <1>2, RestartsAssumption, SMT DEF FundingInv, FundingTypeOK
  <2>. QED BY <1>2, <1>4, <2>2, <2>3, SMT DEF FundingInv, FundingTypeOK, HandRecords, SomeTx
<1>7. Made'
  BY <1>2, <1>5, MadeStays, TypeFacts, SMT DEF FundingInv
<1>8. \A t \in Txs : TxKnown(t)'
  BY <1>2, <1>3, SMT DEF FundingInv, TxKnown
<1>9. SessionKnown' /\ OpenIsFunded'
  BY <1>2, <1>3, StoreTypes, SMT DEF FundingInv, SessionKnown, OpenIsFunded, Sent
<1>10. LinkKnown' /\ SideKnown'
  BY <1>5, TypeFacts, SMT DEF FundingInv, LinkKnown, SideKnown, Building, OpenSteps, AnswerSteps
<1>11. \A g \in Handlers : HandKnown(g)'
  BY <1>5, SMT DEF HandKnown, Late
<1>. QED BY <1>6, <1>7, <1>8, <1>9, <1>10, <1>11 DEF FundingInv

-----------------------------------------------------------------------------
(* The invariant and what follows from it.                                 *)

\* The stores are empty and both handlers idle at the start.
LEMMA InitFunding == Init => FundingInv
<1>. SUFFICES ASSUME Init PROVE FundingInv
  OBVIOUS
<1>1. \A h \in Handlers : hand[h] = Idle
  BY SMT DEF Init
<1>2. FundingTypeOK
  BY OpensAssumption, RestartsAssumption, SMT DEF Init, FundingTypeOK, Idle, Phases, PlanStates,
       PoolStates, OutboxStates, WalletStates, Steps
<1>3. Made
  <2>1. {u \in Txs : wallet[u] # "none"} = 1 .. 0
    BY SMT DEF Init
  <2>2. 0 \in 0 .. opens
    BY SMT DEF Init
  <2>. QED BY <1>1, <2>1, <2>2, TypeFacts, <1>2, SMT DEF Made, Idle
<1>4. \A t \in Txs : TxKnown(t)
  BY SMT DEF Init, TxKnown, Txs
<1>5. SessionKnown /\ OpenIsFunded
  BY SMT DEF Init, SessionKnown, OpenIsFunded
<1>6. LinkKnown /\ SideKnown
  BY <1>1, SMT DEF LinkKnown, SideKnown, Idle, Building, OpenSteps, AnswerSteps, Handlers
<1>7. \A h \in Handlers : HandKnown(h)
  BY <1>1, SMT DEF HandKnown, Idle, Late
<1>. QED BY <1>2, <1>3, <1>4, <1>5, <1>6, <1>7 DEF FundingInv

\* A step keeps the invariant and, but for a restart, is one of a handler.
LEMMA StepKeeps ==
  ASSUME FundingInv, Next
  PROVE  FundingInv' /\ (Restart \/ \E h \in Handlers : Frame(h))
<1>. "link" \in Handlers /\ "side" \in Handlers
  BY TypeFacts DEF FundingInv
<1>1. CASE Open
  BY <1>1, OpenKeeps
<1>2. CASE OpenStep
  BY <1>2, OpenRefusedKeeps, ConfigureKeeps, ConfiguredKeeps, FundNewKeeps, FundAgainKeeps,
     FundedAgainKeeps, ReserveKeeps, AnchorKeeps, AnchoredKeeps, PutOutboxKeeps, PreparedKeeps,
     SignKeeps, WriteKind2Keeps, SignedKeeps, PresentKeeps, SendKeeps, UndoKeeps, UndoLedgerKeeps,
     FailKeeps, MarkFailedKeeps, Zenon DEF OpenStep
<1>3. CASE Respond \/ AnswerStep
  BY <1>3, RespondKeeps, DeliveredKeeps, WriteKind3Keeps, AnsweredKeeps, AcceptKeeps, Zenon
     DEF AnswerStep
<1>4. ASSUME NEW h \in Handlers, SubmitStep(h) PROVE FundingInv' /\ Frame(h)
  BY <1>4, SubmitKeeps, DispatchKeeps, MarkOutboxKeeps, ReconcileKeeps, LedgerUnknownKeeps,
     UnknownPhaseKeeps, ReleaseFailedKeeps, ReleaseFailedPlanKeeps, FailedPhaseKeeps, ObserveKeeps,
     WriteKind4Keeps, ProvenKeeps, FundedKeeps, Zenon DEF SubmitStep
<1>5. ASSUME NEW h \in Handlers, CancelStep(h) \/ Cancel(h) PROVE FundingInv' /\ Frame(h)
  BY <1>5, CancelKeeps, WithdrawKeeps, IntendKeeps, CheckKeeps, CheckLedgerKeeps, FreeKeeps,
     FreeLedgerKeeps, FinishCancelKeeps, Zenon DEF CancelStep
<1>6. CASE Restore \/ LookUp \/ Restart
  BY <1>6, RestoreKeeps, LookUpKeeps, RestartKeeps
<1>. QED BY <1>1, <1>2, <1>3, <1>4, <1>5, <1>6, Zenon DEF Next, Step

\* Every step and every stutter keeps the invariant.
LEMMA NextFunding == FundingInv /\ [Next]_vars => FundingInv'
<1>. SUFFICES ASSUME FundingInv, UNCHANGED vars PROVE FundingInv'
  BY StepKeeps
<1>1. FundingTypeOK' /\ Made' /\ SessionKnown' /\ OpenIsFunded'
  BY SMT DEF vars, FundingInv, FundingTypeOK, Made, SessionKnown, OpenIsFunded, Sent
<1>2. \A t \in Txs : TxKnown(t)'
  BY SMT DEF vars, FundingInv, TxKnown
<1>3. LinkKnown' /\ SideKnown' /\ \A h \in Handlers : HandKnown(h)'
  BY SMT DEF vars, FundingInv, LinkKnown, SideKnown, HandKnown, Sent
<1>. QED BY <1>1, <1>2, <1>3 DEF FundingInv

\* The wallet, the ledger of the pool, the outbox and the network agree about
\* every funding transaction, whoever is opening, submitting, cancelling or
\* restarting (BuyerFunding's opening, submission and recovery).
THEOREM FundingInvariant == Spec => []FundingInv
BY InitFunding, NextFunding, PTL DEF Spec

\* A funding transaction whose coins the ledger or the wallet has released is
\* in no block: none is sent after its release, none released after it was sent
\* and taken.
THEOREM ReleasedIsUntaken == Spec => []ReleasedUntaken
<1>1. FundingInv => ReleasedUntaken
  BY SMT DEF FundingInv, TxKnown, ReleasedUntaken
<1>. QED BY <1>1, FundingInvariant, PTL

\* A pool is marked open only over the transaction a node has, and the seller's
\* proof of it is on file after that only.
THEOREM OpenPoolsAreFunded == Spec => []OpenIsFunded
<1>1. FundingInv => OpenIsFunded
  BY DEF FundingInv
<1>. QED BY <1>1, FundingInvariant, PTL

-----------------------------------------------------------------------------
(* Cancellation.                                                           *)

\* Outside the selected phase, what is freed stays freed.
LEMMA FreedStays ==
  ASSUME FundingInv, SelectedKnown, NEW h \in Handlers, Frame(h),
         session.phase # "quote-selected", Freed
  PROVE  Freed'
<1>1. file'.funding = file.funding
  BY SMT DEF Frame, StoreFrame, SelectedKnown, Only, At, Building, Handlers, FundingInv, SideKnown,
       OpenSteps
<1>2. CASE file.funding = 0
  BY <1>1, <1>2 DEF Freed
<1>3. CASE file.funding # 0 /\ Clean(file.funding)
  BY <1>1, <1>3, StoreTypes, SMT DEF Frame, StoreFrame, BuildFrame, SelectedKnown, FundingInv,
       SideKnown, Freed, At, Handlers, Building, OpenSteps
<1>4. CASE /\ hand["link"].pc \in {"anchored", "outbox", "prepared", "undo", "undo-ledger"}
           /\ hand["link"].tx = file.funding
  <2>1. CASE h # "link"
    BY <1>1, <1>4, <2>1, SMT DEF Frame, Only, Freed, Handlers
  <2>2. CASE h = "link" /\ hand["link"].pc = "undo-ledger"
    BY <1>1, <1>4, <2>2, SMT DEF Frame, BuildFrame, Freed, Clean, At, FundingInv
  <2>3. CASE h = "link" /\ hand["link"].pc # "undo-ledger"
    BY <1>1, <1>4, <2>3, SMT DEF Frame, BuildFrame, SelectedKnown, Freed, At, Building
  <2>. QED BY <2>1, <2>2, <2>3
<1>. QED BY <1>2, <1>3, <1>4 DEF Freed

\* An opening loses the session as soon as that is not selected any more.
LEMMA SelectedStays ==
  ASSUME FundingInv, SelectedKnown, NEW h \in Handlers, Frame(h)
  PROVE  SelectedKnown'
<1>1. CASE h # "link"
  <2>1. /\ hand'["link"] = hand["link"] /\ file'.funding = file.funding
        /\ "kind3" \in file'.names => "kind3" \in file.names
    BY <1>1, SMT DEF Frame, Only, StoreFrame, Handlers, FundingInv, SideKnown, At, OpenSteps, AnswerSteps
  <2>. QED BY <1>1, <2>1, SMT DEF Frame, SessionFrame, SelectedKnown, Building, AnswerSteps
<1>2. CASE h = "link"
  <2>1. hand'["link"].pc \in Building => ("link" \in seen' <=> session'.phase = "quote-selected")
    BY <1>2, SMT DEF Frame, SessionFrame, BuildFrame, SelectedKnown, Building, At
  <2>2. hand'["link"].pc \in {"reserve", "anchor"} => file'.funding = 0
    BY <1>2, SMT DEF Frame, StoreFrame, BuildFrame, SelectedKnown, Building, At
  <2>3. session'.phase = "quote-selected" =>
          "kind3" \notin file'.names /\ hand'["link"].pc \notin AnswerSteps
    BY <1>2, SMT DEF Frame, SessionFrame, StoreFrame, SelectedKnown, AnswerSteps, At
  <2>4. session'.phase = "quote-selected" =>
          \/ file'.funding = 0
          \/ "funding" \in session'.listed
          \/ hand'["link"].pc = "anchored"
    BY <1>2, SMT DEF Frame, SessionFrame, BuildFrame, StoreFrame, SelectedKnown, At, Building
  <2>. QED BY <2>1, <2>2, <2>3, <2>4 DEF SelectedKnown
<1>. QED BY <1>1, <1>2

\* Without a crash, what an opening or a cancellation leaves is cleaned up.
LEMMA CancelStays ==
  ASSUME FundingInv, FundingInv', SelectedKnown, CancelKnown, NEW h \in Handlers, Frame(h)
  PROVE  CancelKnown'
<1>1. session.phase # "quote-selected" => session'.phase # "quote-selected"
  BY SMT DEF Frame, SessionFrame
<1>2. file.funding # 0 => file'.funding = file.funding
  BY SMT DEF Frame, StoreFrame
<1>3. (session.phase # "quote-selected" /\ Freed) => Freed'
  BY FreedStays
<1>4. ASSUME NEW t \in Txs
      PROVE  \/ t = file'.funding
             \/ Clean(t)'
             \/ /\ hand'["link"].pc \in {"reserve", "anchor", "undo", "undo-ledger"}
                /\ hand'["link"].tx = t
  <2>1. CASE t = file.funding
    BY <1>2, <2>1, StoreTypes, SMT DEF FundingInv
  <2>2. CASE Clean(t)
    BY <2>2, SMT DEF Frame, StoreFrame, BuildFrame, At, Building, Handlers, FundingInv, SideKnown,
         OpenSteps
  <2>3. CASE /\ hand["link"].pc \in {"reserve", "anchor", "undo", "undo-ledger"}
             /\ hand["link"].tx = t
    <3>1. CASE h # "link"
      BY <2>3, <3>1, SMT DEF Frame, Only, Handlers
    <3>2. CASE h = "link" /\ hand["link"].pc = "undo-ledger"
      BY <2>3, <3>2, SMT DEF Frame, BuildFrame, At, Clean
    <3>3. CASE h = "link" /\ hand["link"].pc # "undo-ledger"
      BY <2>3, <3>3, SMT DEF Frame, BuildFrame, At, Building, FundingInv, LinkKnown
    <3>. QED BY <3>1, <3>2, <3>3
  <2>. QED BY <2>1, <2>2, <2>3 DEF CancelKnown
<1>5. session'.phase = "cancelled" => Freed'
  <2>1. CASE session.phase = "cancelled"
    BY <1>3, <2>1, SMT DEF CancelKnown
  <2>2. CASE At(h, "finish")
    BY <1>3, <2>2, SMT DEF CancelKnown, At, Freeing
  <2>3. CASE At(h, "withdraw") /\ h \in seen
    <3>1. file'.funding = file.funding
      BY <2>3, SMT DEF Frame, StoreFrame, At
    <3>2. CASE file.funding = 0
      BY <3>1, <3>2 DEF Freed
    <3>3. CASE file.funding # 0
      <4>1. hand["link"].pc = "anchored" /\ hand["link"].tx = file.funding
        BY <2>3, <3>3, SMT DEF CancelKnown, SelectedKnown, FundingInv, LinkKnown
      <4>2. hand'["link"] = hand["link"]
        BY <2>3, <4>1, SMT DEF Frame, Only, Handlers, At
      <4>. QED BY <3>1, <4>1, <4>2, SMT DEF Freed
    <3>. QED BY <3>2, <3>3
  <2>. QED BY <2>1, <2>2, <2>3, SMT DEF Frame, SessionFrame
<1>6. ASSUME NEW g \in Handlers, hand'[g].pc = "withdraw", g \in seen'
      PROVE  session'.phase = "quote-selected" /\ "funding" \notin session'.listed
  <2>1. CASE g = h
    BY <1>6, <2>1, SMT DEF Frame, SessionFrame
  <2>2. CASE g # h
    BY <1>6, <2>2, SMT DEF Frame, SessionFrame, Only, CancelKnown, At
  <2>. QED BY <2>1, <2>2
<1>7. ASSUME NEW g \in Handlers, hand'[g].pc \in Freeing
      PROVE  session'.phase # "quote-selected"
  BY <1>1, <1>7, SMT DEF Frame, SessionFrame, Only, CancelKnown
<1>8. ASSUME NEW g \in Handlers, hand'[g].pc = "finish"
      PROVE  Freed'
  <2>1. CASE g # h
    <3>1. Freed /\ session.phase # "quote-selected"
      BY <1>8, <2>1, SMT DEF Frame, Only, CancelKnown, At, Freeing
    <3>. QED BY <1>3, <3>1
  <2>2. CASE g = h
    <3>1. file'.funding = file.funding
      BY <1>8, <2>2, SMT DEF Frame, StoreFrame
    <3>2. CASE file.funding = 0
      BY <3>1, <3>2 DEF Freed
    <3>3. CASE At(h, "free-ledger") /\ hand'[h].tx = hand[h].tx /\ Clean(hand[h].tx)'
      <4>1. CASE file.funding = hand[h].tx
        BY <3>1, <3>3, <4>1, SMT DEF Freed, Clean
      <4>2. CASE Freed
        BY <1>3, <3>3, <4>2, SMT DEF CancelKnown, At, Freeing
      <4>. QED BY <3>3, <4>1, <4>2, SMT DEF CancelKnown, At
    <3>. QED BY <1>8, <2>2, <3>2, <3>3, SMT DEF Frame, FreeFrame
  <2>. QED BY <2>1, <2>2
<1>9. ASSUME NEW g \in Handlers, hand'[g].pc \in {"free", "free-ledger"}
      PROVE  file'.funding = hand'[g].tx \/ Freed'
  <2>1. CASE hand[g].pc \in {"free", "free-ledger"} /\ hand'[g].tx = hand[g].tx
    <3>1. CASE file.funding = hand[g].tx
      BY <1>2, <2>1, <3>1, SMT DEF FundingInv, HandKnown
    <3>2. CASE Freed
      BY <1>3, <2>1, <3>2, SMT DEF CancelKnown, Freeing
    <3>. QED BY <2>1, <3>1, <3>2, SMT DEF CancelKnown
  <2>2. CASE g = h /\ file.funding \in {0, hand'[h].tx}
    <3>1. file'.funding = file.funding
      BY <1>9, <2>2, SMT DEF Frame, StoreFrame
    <3>. QED BY <2>2, <3>1 DEF Freed
  <2>. QED BY <1>9, <2>1, <2>2, SMT DEF Frame, FreeFrame, Only
<1>. QED BY <1>4, <1>5, <1>6, <1>7, <1>8, <1>9, SMT DEF CancelKnown, At

\* Nothing is selected, reserved or cancelled at the start.
LEMMA InitCancel == Init => CancelInv
<1>. SUFFICES ASSUME Init PROVE SelectedKnown /\ CancelKnown
  BY DEF CancelInv
<1>1. \A h \in Handlers : hand[h] = Idle
  BY SMT DEF Init
<1>2. SelectedKnown
  BY <1>1, SMT DEF Init, SelectedKnown, Idle, Handlers, Building, AnswerSteps
<1>3. \A t \in Txs : Clean(t)
  BY SMT DEF Init, Clean
<1>4. \A h \in Handlers : hand[h].pc = "idle"
  BY <1>1 DEF Idle
<1>5. CancelKnown
  BY <1>3, <1>4, SMT DEF Init, CancelKnown, At, Freeing
<1>. QED BY <1>2, <1>5

\* Every step that is no restart keeps it.
LEMMA NextCancel == FundingInv /\ FundingInv' /\ CancelInv /\ [Next]_vars => CancelInv'
<1>. SUFFICES ASSUME FundingInv, FundingInv', CancelInv, [Next]_vars, restarts' = 0
              PROVE  SelectedKnown' /\ CancelKnown'
  BY DEF CancelInv
<1>1. CASE UNCHANGED vars
  <2>1. SelectedKnown /\ CancelKnown
    BY <1>1 DEF CancelInv, vars
  <2>2. SelectedKnown'
    BY <1>1, <2>1, SMT DEF vars, SelectedKnown
  <2>3. CancelKnown'
    BY <1>1, <2>1, SMT DEF vars, CancelKnown, Freed, Clean, At
  <2>. QED BY <2>2, <2>3
<1>2. CASE Restart
  BY <1>2, SMT DEF Restart, FundingInv, FundingTypeOK
<1>3. ASSUME NEW h \in Handlers, Frame(h) PROVE SelectedKnown' /\ CancelKnown'
  BY <1>3, SelectedStays, CancelStays DEF CancelInv, Frame
<1>. QED BY <1>1, <1>2, <1>3, StepKeeps

\* A cancelled session has nothing reserved, whatever ran beside it.
THEOREM CancelledIsFreed == Spec => []CancelledFreed
<1>1. FundingInv /\ CancelInv => CancelledFreed
  <2>. SUFFICES ASSUME FundingInv, CancelInv, session.phase = "cancelled", restarts = 0,
                       \A h \in Handlers : At(h, "idle"), NEW t \in Txs
                PROVE  Clean(t)
    BY DEF CancelledFreed, Clean
  <2>1. hand["link"].pc = "idle"
    BY TypeFacts DEF FundingInv, At
  <2>2. Freed /\ (t = file.funding \/ Clean(t))
    BY <2>1, SMT DEF CancelInv, CancelKnown
  <2>. QED BY <2>1, <2>2, StoreTypes, SMT DEF Freed, FundingInv
<1>2. Spec => []CancelInv
  BY InitCancel, NextCancel, FundingInvariant, PTL DEF Spec
<1>. QED BY <1>1, <1>2, FundingInvariant, PTL
=============================================================================
