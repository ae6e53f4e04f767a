------------------------- MODULE BitfsPaymentsProofs -------------------------
(***************************************************************************)
(* Proofs about BitfsPayments, for any number of requests, losses and      *)
(* crashes: that the two sides of a pool agree on the payments, that a     *)
(* close in the network covers all of them, and that the pool is spent in  *)
(* one way only.                                                           *)
(*                                                                         *)
(* PoolInv says of each side what its evidence and its phase promise, and  *)
(* what every effect its running handler has still to do needs; of every   *)
(* frame in flight it says what its receiver may rely on.  The effects of  *)
(* a handler come in the order of their stages, whichever handler it is,   *)
(* so each effect is proved once and not once for every place in a plan.   *)
(***************************************************************************)
EXTENDS BitfsPayments, FiniteSetTheorems, TLAPS

Kinds == {"kind2", "kind3", "kind4", "kind5", "kind6", "kind7", "kind8", "kind12", "kind13", "binding", "paid",
          "arbitrated", "digest7", "signature7", "digest8", "signature8", "digest12", "signature12"}
Ops == {"put", "file", "list", "phase", "send", "assert", "observe", "broadcast", "exchange", "settle", "fail",
        "await"}
BuyerPhaseNames == {"funded", "request-prepared", "content-committing", "close-required", "close-requested",
                   "close-unknown", "completed"}
SellerPhaseNames == {"opening-presigned", "funded", "delivery-prepared", "payment-signing", "paid", "close-unknown",
                    "closed", "arbitration-prepared", "arbitration-payment-unknown"}
PoolPhases == BuyerPhaseNames \union SellerPhaseNames \union {"none"}
Artifacts == [kind : Kinds, auth : Nat, sequence : Nat]
Effects == [op : Ops, artifact : Artifacts, phase : PoolPhases, pending : Nat]
Sessions == [phase : PoolPhases, pending : Nat, file : SUBSET Artifacts, listed : SUBSET Artifacts]
Todos == [todo : Seq(Effects), linked : BOOLEAN]

PoolTypes ==
  /\ buyer \in Sessions /\ IsFiniteSet(buyer.file)
  /\ seller \in Sessions /\ IsFiniteSet(seller.file) /\ IsFiniteSet(seller.listed)
  /\ running \in [Sides -> Todos]
  /\ up \in BOOLEAN
  /\ toSeller \in Seq(Artifacts)
  /\ toBuyer \in Seq(Artifacts)
  /\ chain \in {"none", "close", "arbitrated"}
  /\ losses \in Nat
  /\ crashed \in [Sides -> Nat]

(* The order of the effects in any handler.                                *)
PutStage(k) ==
  IF k = "kind6" THEN 4 ELSE IF k = "digest7" THEN 6 ELSE IF k = "signature7" THEN 8
  ELSE IF k = "paid" THEN 10 ELSE IF k \in {"binding", "kind12"} THEN 20 ELSE IF k = "digest12" THEN 22
  ELSE IF k = "signature12" THEN 24 ELSE IF k = "kind13" THEN 32 ELSE IF k = "digest8" THEN 46
  ELSE IF k = "signature8" THEN 48 ELSE IF k = "arbitrated" THEN 50 ELSE 2
FileStage(k) == IF k = "kind7" THEN 10 ELSE IF k = "kind12" THEN 26 ELSE 38
PhaseStage(p) ==
  IF p \in {"request-prepared", "payment-signing"} THEN 4 ELSE IF p = "paid" THEN 12
  ELSE IF p = "close-required" THEN 18 ELSE IF p = "close-requested" THEN 30 ELSE IF p = "close-unknown" THEN 34
  ELSE IF p = "arbitration-prepared" THEN 42 ELSE 16
SendStage(k) == IF k = "kind7" THEN 14 ELSE IF k = "kind4" THEN 56 ELSE 60
AwaitStage(k) ==
  IF k = "kind5" THEN 3 ELSE IF k = "kind7" THEN 5 ELSE IF k = "digest7" THEN 7 ELSE IF k = "kind12" THEN 21
  ELSE IF k = "digest12" THEN 23 ELSE 47
CallStage(op) ==
  IF op \in {"observe", "broadcast"} THEN 36 ELSE IF op = "exchange" THEN 44 ELSE IF op = "settle" THEN 52 ELSE 80
Stage(e) ==
  IF e.op = "put" THEN PutStage(e.artifact.kind)
  ELSE IF e.op = "file" THEN FileStage(e.artifact.kind)
  ELSE IF e.op = "list" THEN FileStage(e.artifact.kind) + 2
  ELSE IF e.op = "phase" THEN PhaseStage(e.phase)
  ELSE IF e.op = "send" THEN SendStage(e.artifact.kind)
  ELSE IF e.op = "await" THEN AwaitStage(e.artifact.kind)
  ELSE CallStage(e.op)

Before(d, e) == d.op = "assert" \/ e.op = "assert" \/ Stage(d) < Stage(e)
Sorted(s) == \A i, j \in 1 .. Len(s) : i < j => Before(s[i], s[j])
Ahead(s) == {s[i] : i \in 1 .. Len(s)}

Many(evidence, kind) == Cardinality(Of(evidence, kind))
Numbered(evidence, kind) == {x.sequence : x \in Of(evidence, kind)} = 1 .. Many(evidence, kind)
Kind5Of(x) == Artifact("kind5", x.auth, x.sequence)
Kind7Of(x) == Artifact("kind7", x.auth, x.sequence)

EndPhases == {"close-required", "close-requested", "close-unknown", "completed"}
Ending(b) == b.phase \in EndPhases
Unlisted(b) == Of(b.file, "kind7") \ b.listed
CloseOf(b) == Artifact("kind13", 0, Many(b.listed, "kind7"))

(* The buyer's evidence; n is what the seller has countersigned.           *)
BuyerFiles(b, n) ==
  /\ b.listed \subseteq b.file
  /\ \A x \in Of(b.file, "kind5") : x.auth \in 1 .. Many(b.file, "kind5")
  /\ \A x, y \in Of(b.file, "kind5") : x.auth = y.auth => x = y
  /\ \A k \in Of(b.file, "kind7") : Kind5Of(k) \in b.file
  /\ Numbered(b.file, "kind7")
  /\ Many(b.file, "kind7") <= n + 1

BuyerRecord(b, c) ==
  /\ b.phase = "funded" => b.pending = 0 /\ Unlisted(b) = {}
  /\ b.pending # 0 =>
       /\ b.phase = "request-prepared"
       /\ \E x \in Of(b.file, "kind5") :
            /\ x.auth = b.pending
            /\ Kind7Of(x) \in b.file \/ (x.sequence = Many(b.file, "kind7") + 1 /\ Unlisted(b) = {})
  /\ \A x \in Of(b.file, "kind12") : \E y \in Of(b.file, "binding") : y.sequence = x.sequence
  /\ \A x \in Of(b.file, "kind13") : Ending(b) /\ x = CloseOf(b)
  /\ b.phase = "completed" => c = "close" /\ CloseOf(b) \in b.file

(* What each effect that is ahead of the buyer may rely on.                *)
BuyerPuts(b, E, e) ==
  /\ e.artifact.kind \in {"kind5", "digest7", "signature7", "binding", "digest12", "signature12", "kind13"}
  /\ e.artifact.kind = "kind5" =>
       /\ b.phase = "funded" /\ e.artifact.auth = Many(b.file, "kind5") + 1
       /\ e.artifact.sequence = Many(b.file, "kind7") + 1
  /\ e.artifact.kind = "kind13" => Ending(b) /\ e.artifact = CloseOf(b)
BuyerFilesOne(b, n, E, e) ==
  /\ e.artifact.kind \in {"kind7", "kind12"}
  /\ e.artifact.kind = "kind7" =>
       /\ e.artifact.auth = b.pending /\ b.pending # 0 /\ Kind5Of(e.artifact) \in b.file
       /\ e.artifact.sequence = Many(b.file, "kind7") + 1 /\ e.artifact.sequence <= n + 1
       /\ Unlisted(b) = {} /\ Effect("list", e.artifact) \in E
  /\ e.artifact.kind = "kind12" =>
       \/ \E y \in Of(b.file, "binding") : y.sequence = e.artifact.sequence
       \/ Put(Artifact("binding", 0, e.artifact.sequence)) \in E
BuyerLists(b, E, e) ==
  /\ e.artifact.kind \in {"kind7", "kind12"}
  /\ e.artifact \in b.file \/ Effect("file", e.artifact) \in E
  /\ e.artifact.kind = "kind7" => e.artifact.auth = b.pending /\ b.pending # 0
BuyerPhases(b, E, e) ==
  /\ e.phase \in {"request-prepared", "funded", "content-committing", "close-required", "close-requested", "close-unknown"}
  /\ e.phase = "request-prepared" =>
       /\ b.phase = "funded" /\ e.pending # 0
       /\ LET x == Artifact("kind5", e.pending, Many(b.file, "kind7") + 1) IN x \in b.file \/ Put(x) \in E
  /\ e.phase # "request-prepared" => e.pending = 0
  /\ e.phase \notin EndPhases => ~Ending(b)
  /\ e.phase = "funded" => \A k \in Unlisted(b) : Effect("list", k) \in E
BuyerSends(b, E, e) ==
  LET x == e.artifact IN
  /\ x.kind \in {"kind4", "kind5", "kind7", "kind12"}
  /\ x.kind = "kind5" => x \in b.file \/ Put(x) \in E
  /\ x.kind = "kind7" => x \in b.file \/ Effect("file", x) \in E
  /\ x.kind = "kind12" => Ending(b) \/ SetPhase("close-requested", 0) \in E
BuyerAhead(b, n, E) ==
  \A e \in E :
    /\ e.op \in {"put", "file", "list", "phase", "send", "assert", "observe"}
    /\ e.op = "put" => BuyerPuts(b, E, e)
    /\ e.op = "file" => BuyerFilesOne(b, n, E, e)
    /\ e.op = "list" => BuyerLists(b, E, e)
    /\ e.op = "phase" => BuyerPhases(b, E, e)
    /\ e.op = "send" => BuyerSends(b, E, e)
    /\ e.op = "observe" => Ending(b) /\ (CloseOf(b) \in b.file \/ Put(CloseOf(b)) \in E)
BuyerOK(b, n, c, E) == BuyerFiles(b, n) /\ BuyerRecord(b, c) /\ BuyerAhead(b, n, E)

(* The seller; b is the buyer's session.                                   *)
OpenPhases == {"opening-presigned", "funded", "delivery-prepared", "payment-signing", "paid"}
Asked(b, n, x) == Kind5Of(x) \in b.file /\ x.sequence <= n + 1

Evidence(s, E) == s.file \union {e.artifact : e \in {f \in E : f.op = "put"}}
Closes(s, n, E) == \E x \in Evidence(s, E) : x.kind = "kind12" /\ x.sequence >= n
WillTell(E) == \E e \in E : e.op = "phase" /\ e.phase = "close-unknown"
Tells(E) == WillTell(E) /\ \A e \in E : e.op # "await"
Arbitrates(s, E) == Of(s.file, "kind8") # {} \/ \E e \in E : e.op = "file" /\ e.artifact.kind = "kind8"

SellerFiles(s, n, b) ==
  /\ \A x \in Of(s.file, "kind6") : Asked(b, n, x)
  /\ \A x \in Of(s.listed, "paid") : Kind7Of(x) \in b.file
  /\ Numbered(s.listed, "paid")
  /\ \A x, y \in Of(s.file, "kind12") : x = y
  /\ \A x \in Of(s.file, "kind13") : \E y \in Of(s.file, "kind12") : y.sequence = x.sequence

SellerChain(s, n, c) ==
  c = "close" => s.phase \notin OpenPhases /\ \E x \in Of(s.file, "kind12") : x.sequence >= n

SellerPuts(s, n, E, b, e) ==
  LET x == e.artifact IN
  /\ x.kind \in {"kind4", "kind5", "kind6", "kind7", "digest7", "signature7", "paid", "kind12", "digest12",
                 "signature12", "kind13", "digest8", "signature8", "arbitrated"}
  /\ x.kind = "kind6" => Asked(b, n, x)
  /\ x.kind = "paid" => /\ s.phase \in OpenPhases /\ Kind7Of(x) \in b.file /\ x.sequence = n + 1
                        /\ \A f \in E : f.op # "broadcast"
  /\ x.kind = "kind12" => Of(s.file, "kind12") \subseteq {x}
  /\ x.kind = "kind13" => \E y \in Evidence(s, E) : y.kind = "kind12" /\ y.sequence = x.sequence
SellerPhases(s, E, e) ==
  /\ e.phase \in OpenPhases \union {"close-unknown", "arbitration-prepared"}
  /\ e.phase \in OpenPhases => s.phase \in OpenPhases
SellerSends(n, b, e) ==
  LET x == e.artifact IN
  /\ x.kind \in {"kind3", "kind6", "kind13"}
  /\ x.kind = "kind6" => Asked(b, n, x)
  /\ x.kind = "kind13" => Ending(b) /\ x.auth = 0
SellerAwaits(E, e) ==
  /\ e.artifact.kind \in {"kind5", "kind7", "digest7", "kind12", "digest12", "digest8"}
  /\ \A f \in E : f.op \in {"file", "list"} => Stage(f) < Stage(e)
SellerAhead(s, n, E, b) ==
  \A e \in E :
    /\ e.op \in {"put", "file", "list", "phase", "send", "broadcast", "exchange", "settle", "fail", "await"}
    /\ e.op = "await" => SellerAwaits(E, e)
    /\ e.op = "put" => SellerPuts(s, n, E, b, e)
    /\ e.op \in {"file", "list"} => e.artifact.kind = "kind8"
    /\ e.op = "phase" => SellerPhases(s, E, e)
    /\ e.op = "send" => SellerSends(n, b, e)
    /\ e.op = "broadcast" => Closes(s, n, E) /\ (s.phase \notin OpenPhases \/ WillTell(E))

(* Without a crash of the seller: a close that could be broadcast is, and  *)
(* nothing is arbitrated beside it.                                        *)
SellerSettles(s, n, E) ==
  /\ \A x \in Of(s.file, "kind13") : x.sequence < n \/ s.phase \in {"close-unknown", "closed"} \/ Tells(E)
  /\ \A e \in E : e.op = "put" /\ e.artifact.kind = "kind13" =>
       e.artifact.sequence < n \/ s.phase = "closed" \/ WillTell(E)
  /\ Arbitrates(s, E) =>
       /\ \A x \in Of(s.file, "kind13") : x.sequence < n
       /\ \A e \in E : ~(e.op = "put" /\ e.artifact.kind = "kind13")
       /\ \A x \in Of(s.file, "kind8") : x \in s.listed \/ Effect("list", x) \in E
       /\ \A e \in E : e.op = "file" => Effect("list", e.artifact) \in E
  /\ Of(s.file, "arbitrated") # {} => Arbitrates(s, E)
  /\ \A e \in E : \/ e.op \in {"exchange", "settle"}
                  \/ e.op = "phase" /\ e.phase = "arbitration-prepared"
                  \/ e.op = "put" /\ e.artifact.kind = "arbitrated"
                  \/ e.op = "await" /\ e.artifact.kind = "digest8"
                  => Arbitrates(s, E)

SellerOK(s, n, c, E, b, crashes) ==
  /\ SellerFiles(s, n, b) /\ SellerChain(s, n, c) /\ SellerAhead(s, n, E, b)
  /\ crashes = 0 => SellerSettles(s, n, E)

FramesOK(b, n, S, B) ==
  /\ \A x \in S : /\ x.kind \in {"kind5", "kind7"} => x \in b.file
                  /\ x.kind = "kind12" => Ending(b)
  /\ \A x \in B : /\ x.kind = "kind6" => Asked(b, n, x)
                  /\ x.kind = "kind13" => Ending(b) /\ x.auth = 0

BuyerTodo == running["buyer"].todo
SellerTodo == running["seller"].todo
PoolInv ==
  /\ PoolTypes
  /\ Sorted(BuyerTodo) /\ Sorted(SellerTodo)
  /\ BuyerOK(buyer, Countersigned, chain, Ahead(BuyerTodo))
  /\ SellerOK(seller, Countersigned, chain, Ahead(SellerTodo), buyer, crashed["seller"])
  /\ FramesOK(buyer, Countersigned, Ahead(toSeller), Ahead(toBuyer))

-----------------------------------------------------------------------------
(* Sequences of effects.                                                   *)

LEMMA HeadAndTail ==
  ASSUME NEW T, NEW s \in Seq(T), s # <<>>
  PROVE  /\ Head(s) \in T /\ Tail(s) \in Seq(T)
         /\ Ahead(s) = {Head(s)} \union Ahead(Tail(s))
         /\ Len(s) \in Nat \ {0} /\ Len(Tail(s)) = Len(s) - 1
         /\ \A i \in 1 .. Len(Tail(s)) : Tail(s)[i] = s[i + 1]
  <1>1. Head(s) \in T /\ Tail(s) \in Seq(T) /\ Len(s) \in Nat \ {0} /\ Len(Tail(s)) = Len(s) - 1
    OBVIOUS
  <1>2. \A i \in 1 .. Len(Tail(s)) : Tail(s)[i] = s[i + 1]
    BY <1>1
  <1>3. Head(s) = s[1]
    OBVIOUS
  <1>4. \A e \in Ahead(s) : e = Head(s) \/ e \in Ahead(Tail(s))
    <2> SUFFICES ASSUME NEW i \in 1 .. Len(s), i # 1
                 PROVE  s[i] \in Ahead(Tail(s))
      BY <1>3 DEF Ahead
    <2>1. i - 1 \in 1 .. Len(Tail(s)) /\ Tail(s)[i - 1] = s[i]
      BY <1>1, <1>2
    <2> QED BY <2>1 DEF Ahead
  <1>5. \A e \in Ahead(Tail(s)) : e \in Ahead(s)
    <2> SUFFICES ASSUME NEW i \in 1 .. Len(Tail(s))
                 PROVE  Tail(s)[i] \in Ahead(s)
      BY DEF Ahead
    <2>1. i + 1 \in 1 .. Len(s) /\ Tail(s)[i] = s[i + 1]
      BY <1>1, <1>2
    <2> QED BY <2>1 DEF Ahead
  <1>6. Head(s) \in Ahead(s)
    BY <1>1, <1>3 DEF Ahead
  <1> QED BY <1>1, <1>2, <1>4, <1>5, <1>6

(* In a plan in order the first effect comes before all the others.         *)
LEMMA HeadFirst ==
  ASSUME NEW s \in Seq(Effects), s # <<>>, Sorted(s)
  PROVE  /\ Sorted(Tail(s))
         /\ \A e \in Ahead(Tail(s)) : Before(Head(s), e)
  <1>1. /\ Head(s) = s[1] /\ Len(s) \in Nat \ {0} /\ Len(Tail(s)) = Len(s) - 1
        /\ \A i \in 1 .. Len(Tail(s)) : Tail(s)[i] = s[i + 1]
    BY HeadAndTail
  <1>2. Sorted(Tail(s))
    <2> SUFFICES ASSUME NEW i \in 1 .. Len(Tail(s)), NEW j \in 1 .. Len(Tail(s)), i < j
                 PROVE  Before(Tail(s)[i], Tail(s)[j])
      BY DEF Sorted
    <2>1. i + 1 \in 1 .. Len(s) /\ j + 1 \in 1 .. Len(s) /\ i + 1 < j + 1
      BY <1>1
    <2> QED BY <1>1, <2>1 DEF Sorted
  <1>3. ASSUME NEW i \in 1 .. Len(Tail(s))
        PROVE  Before(Head(s), Tail(s)[i])
    <2>1. 1 \in 1 .. Len(s) /\ i + 1 \in 1 .. Len(s) /\ 1 < i + 1
      BY <1>1
    <2> QED BY <1>1, <2>1 DEF Sorted
  <1> QED BY <1>2, <1>3 DEF Ahead

(* A handler with nothing to do is in order.                                *)
LEMMA NothingAhead ==
  /\ <<>> \in Seq(Effects) /\ Sorted(<<>>) /\ Ahead(<<>>) = {}
  BY DEF Sorted, Ahead

(* What is ahead in a list of effects is an effect.                         *)
LEMMA TodoTypes ==
  ASSUME NEW s \in Seq(Effects)
  PROVE  \A e \in Ahead(s) : e \in Effects
  BY DEF Ahead

(* A stretch of effects whose stages are between two bounds.               *)
Within(s, lo, hi) ==
  /\ s \in Seq(Effects) /\ Sorted(s)
  /\ \A e \in Ahead(s) : e.op = "assert" \/ (lo <= Stage(e) /\ Stage(e) <= hi)

(* Every effect has a stage.                                                *)
LEMMA StageIsNat ==
  ASSUME NEW e \in Effects PROVE Stage(e) \in 2 .. 80
  <1>1. PutStage(e.artifact.kind) \in 2 .. 80
    BY DEF PutStage
  <1>2. FileStage(e.artifact.kind) \in 2 .. 78
    BY DEF FileStage
  <1>3. PhaseStage(e.phase) \in 2 .. 80
    BY DEF PhaseStage
  <1>4. SendStage(e.artifact.kind) \in 2 .. 80
    BY DEF SendStage
  <1>5. CallStage(e.op) \in 2 .. 80
    BY DEF CallStage
  <1>6. AwaitStage(e.artifact.kind) \in 2 .. 80
    BY DEF AwaitStage
  <1> QED BY <1>1, <1>2, <1>3, <1>4, <1>5, <1>6 DEF Stage

(* No effects are within any stages.                                        *)
LEMMA NoneWithin ==
  ASSUME NEW lo \in Nat, NEW hi \in Nat
  PROVE  Within(<<>>, lo, hi) /\ Ahead(<<>>) = {}
  BY NothingAhead DEF Within

(* One effect is within the stages around its own.                          *)
LEMMA OneWithin ==
  ASSUME NEW e \in Effects, NEW lo \in Nat, NEW hi \in Nat,
         e.op = "assert" \/ (lo <= Stage(e) /\ Stage(e) <= hi)
  PROVE  Within(<<e>>, lo, hi) /\ Ahead(<<e>>) = {e}
  <1>1. <<e>> \in Seq(Effects) /\ Len(<<e>>) = 1 /\ <<e>>[1] = e
    OBVIOUS
  <1>2. Ahead(<<e>>) = {e}
    BY <1>1 DEF Ahead
  <1>3. Sorted(<<e>>)
    BY <1>1 DEF Sorted
  <1> QED BY <1>1, <1>2, <1>3 DEF Within

(* Two effects in order are within the stages around both.                  *)
LEMMA TwoWithin ==
  ASSUME NEW d \in Effects, NEW e \in Effects, NEW lo \in Nat, NEW hi \in Nat,
         d.op = "assert" \/ (lo <= Stage(d) /\ Stage(d) <= hi),
         e.op = "assert" \/ (lo <= Stage(e) /\ Stage(e) <= hi),
         Before(d, e)
  PROVE  Within(<<d, e>>, lo, hi) /\ Ahead(<<d, e>>) = {d, e}
  <1>1. <<d, e>> \in Seq(Effects) /\ Len(<<d, e>>) = 2 /\ <<d, e>>[1] = d /\ <<d, e>>[2] = e
    OBVIOUS
  <1>2. Ahead(<<d, e>>) = {d, e}
    BY <1>1 DEF Ahead
  <1>3. Sorted(<<d, e>>)
    <2>1. ASSUME NEW i \in 1 .. 2, NEW j \in 1 .. 2, i < j PROVE i = 1 /\ j = 2
      BY <2>1
    <2> QED BY <1>1, <2>1 DEF Sorted
  <1> QED BY <1>1, <1>2, <1>3 DEF Within

(* Two plans one after the other, the second in later stages.               *)
LEMMA JoinWithin ==
  ASSUME NEW s, NEW t, NEW lo \in Nat, NEW m \in Nat, NEW n \in Nat, NEW hi \in Nat,
         Within(s, lo, m), Within(t, n, hi), lo <= m, m < n, n <= hi
  PROVE  Within(s \o t, lo, hi) /\ Ahead(s \o t) = Ahead(s) \union Ahead(t)
  <1> DEFINE u == s \o t
  <1>1. /\ s \in Seq(Effects) /\ t \in Seq(Effects) /\ u \in Seq(Effects)
        /\ Len(s) \in Nat /\ Len(t) \in Nat /\ Len(u) = Len(s) + Len(t)
        /\ \A i \in 1 .. Len(u) : u[i] = IF i <= Len(s) THEN s[i] ELSE t[i - Len(s)]
    BY DEF Within
  <1>2. \A e \in Ahead(u) : e \in Ahead(s) \/ e \in Ahead(t)
    <2> SUFFICES ASSUME NEW i \in 1 .. Len(u) PROVE u[i] \in Ahead(s) \/ u[i] \in Ahead(t)
      BY DEF Ahead
    <2>1. CASE i <= Len(s)
      BY <1>1, <2>1 DEF Ahead
    <2>2. CASE ~(i <= Len(s))
      <3>1. i - Len(s) \in 1 .. Len(t) /\ u[i] = t[i - Len(s)]
        BY <1>1, <2>2
      <3> QED BY <3>1 DEF Ahead
    <2> QED BY <2>1, <2>2
  <1>3. \A e \in Ahead(s) : e \in Ahead(u)
    <2> SUFFICES ASSUME NEW i \in 1 .. Len(s) PROVE s[i] \in Ahead(u)
      BY DEF Ahead
    <2>1. i \in 1 .. Len(u) /\ u[i] = s[i]
      BY <1>1
    <2> QED BY <2>1 DEF Ahead
  <1>4. \A e \in Ahead(t) : e \in Ahead(u)
    <2> SUFFICES ASSUME NEW i \in 1 .. Len(t) PROVE t[i] \in Ahead(u)
      BY DEF Ahead
    <2>1. i + Len(s) \in 1 .. Len(u) /\ ~(i + Len(s) <= Len(s)) /\ (i + Len(s)) - Len(s) = i
      BY <1>1
    <2>2. u[i + Len(s)] = t[i]
      BY <1>1, <2>1
    <2> QED BY <2>1, <2>2 DEF Ahead
  <1>5. \A e \in Ahead(s), f \in Ahead(t) : Before(e, f)
    <2> SUFFICES ASSUME NEW e \in Ahead(s), NEW f \in Ahead(t), e.op # "assert", f.op # "assert"
                 PROVE  Stage(e) < Stage(f)
      BY DEF Before
    <2>1. Stage(e) \in Nat /\ Stage(f) \in Nat
      <3>1. e \in Effects /\ f \in Effects
        BY <1>1, TodoTypes
      <3> QED BY <3>1, StageIsNat
    <2> QED BY <2>1 DEF Within
  <1>6. Sorted(u)
    <2> SUFFICES ASSUME NEW i \in 1 .. Len(u), NEW j \in 1 .. Len(u), i < j
                 PROVE  Before(u[i], u[j])
      BY DEF Sorted
    <2>1. CASE j <= Len(s)
      <3>1. i \in 1 .. Len(s) /\ j \in 1 .. Len(s) /\ u[i] = s[i] /\ u[j] = s[j]
        BY <1>1, <2>1
      <3> QED BY <3>1 DEF Within, Sorted
    <2>2. CASE ~(j <= Len(s)) /\ i <= Len(s)
      <3>1. i \in 1 .. Len(s) /\ j - Len(s) \in 1 .. Len(t) /\ u[i] = s[i] /\ u[j] = t[j - Len(s)]
        BY <1>1, <2>2
      <3>2. u[i] \in Ahead(s) /\ u[j] \in Ahead(t)
        BY <3>1 DEF Ahead
      <3> QED BY <1>5, <3>2
    <2>3. CASE ~(i <= Len(s))
      <3>1. /\ i - Len(s) \in 1 .. Len(t) /\ j - Len(s) \in 1 .. Len(t) /\ i - Len(s) < j - Len(s)
            /\ u[i] = t[i - Len(s)] /\ u[j] = t[j - Len(s)]
        BY <1>1, <2>3
      <3> QED BY <3>1 DEF Within, Sorted
    <2> QED BY <2>1, <2>2, <2>3
  <1>7. ASSUME NEW e \in Ahead(u), e.op # "assert" PROVE lo <= Stage(e) /\ Stage(e) <= hi
    <2>1. Stage(e) \in Nat
      <3>1. e \in Effects
        BY <1>1, TodoTypes
      <3> QED BY <3>1, StageIsNat
    <2>2. (lo <= Stage(e) /\ Stage(e) <= m) \/ (n <= Stage(e) /\ Stage(e) <= hi)
      BY <1>2, <1>7 DEF Within
    <2> QED BY <2>1, <2>2
  <1> QED BY <1>1, <1>2, <1>3, <1>4, <1>6, <1>7 DEF Within

(* A plan that a condition may leave out.                                   *)
LEMMA WhenWithin ==
  ASSUME NEW c, NEW s, NEW lo \in Nat, NEW hi \in Nat, Within(s, lo, hi)
  PROVE  Within(When(c, s), lo, hi) /\ Ahead(When(c, s)) = IF c THEN Ahead(s) ELSE {}
  BY NoneWithin DEF When

(* A plan within some stages is a plan.                                     *)
LEMMA WithinAll ==
  ASSUME NEW s, NEW lo, NEW hi, Within(s, lo, hi)
  PROVE  Within(s, 2, 80)
  <1>1. \A e \in Ahead(s) : e \in Effects
    BY TodoTypes DEF Within
  <1>2. \A e \in Ahead(s) : 2 <= Stage(e) /\ Stage(e) <= 80
    BY <1>1, StageIsNat
  <1> QED BY <1>2 DEF Within

-----------------------------------------------------------------------------
(* Evidence and effects.                                                   *)

LEMMA ManyIsNat ==
  ASSUME NEW F, IsFiniteSet(F), NEW k
  PROVE  IsFiniteSet(Of(F, k)) /\ Many(F, k) \in Nat
  <1>1. Of(F, k) \subseteq F
    BY DEF Of
  <1>2. IsFiniteSet(Of(F, k))
    BY <1>1, FS_Subset
  <1> QED BY <1>2, FS_CardinalityType DEF Many

(* Evidence of another kind changes nothing of a kind.                      *)
LEMMA OfOther ==
  ASSUME NEW F, NEW x, NEW k, x.kind # k \/ x \in F
  PROVE  Of(F \union {x}, k) = Of(F, k) /\ Many(F \union {x}, k) = Many(F, k)
  BY DEF Of, Many

(* New evidence adds one of its kind.                                       *)
LEMMA OfNew ==
  ASSUME NEW F, IsFiniteSet(F), NEW x, x \notin F
  PROVE  /\ Of(F \union {x}, x.kind) = Of(F, x.kind) \union {x}
         /\ Many(F \union {x}, x.kind) = Many(F, x.kind) + 1
  <1>1. Of(F \union {x}, x.kind) = Of(F, x.kind) \union {x} /\ x \notin Of(F, x.kind)
    BY DEF Of
  <1> QED BY <1>1, ManyIsNat, FS_AddElement DEF Many

(* Evidence numbered one after another stays so with the next number.       *)
LEMMA NumberedNext ==
  ASSUME NEW F, IsFiniteSet(F), NEW x, x \notin F, Numbered(F, x.kind), x.sequence = Many(F, x.kind) + 1
  PROVE  Numbered(F \union {x}, x.kind)
  <1>1. Many(F, x.kind) \in Nat
    BY ManyIsNat
  <1>2. {y.sequence : y \in Of(F \union {x}, x.kind)} = {y.sequence : y \in Of(F, x.kind)} \union {x.sequence}
    BY OfNew
  <1>3. 1 .. (Many(F, x.kind) + 1) = (1 .. Many(F, x.kind)) \union {Many(F, x.kind) + 1}
    BY <1>1
  <1>4. {y.sequence : y \in Of(F \union {x}, x.kind)} = 1 .. (Many(F, x.kind) + 1)
    BY <1>2, <1>3 DEF Numbered
  <1> QED BY <1>4, OfNew DEF Numbered


(* The fields of an artifact are its arguments.                             *)
LEMMA ArtifactShape ==
  ASSUME NEW k \in Kinds, NEW a \in Nat, NEW s \in Nat
  PROVE  /\ Artifact(k, a, s) \in Artifacts
         /\ Artifact(k, a, s).kind = k /\ Artifact(k, a, s).auth = a /\ Artifact(k, a, s).sequence = s
  BY DEF Artifact, Artifacts

(* An artifact is its kind, request and payment; those of the same request  *)
(* are artifacts too.                                                       *)
LEMMA ArtifactIs ==
  ASSUME NEW x \in Artifacts
  PROVE  /\ x = Artifact(x.kind, x.auth, x.sequence)
         /\ x.kind \in Kinds /\ x.auth \in Nat /\ x.sequence \in Nat
         /\ Kind5Of(x) \in Artifacts /\ Kind5Of(x).kind = "kind5" /\ Kind5Of(x).auth = x.auth
         /\ Kind5Of(x).sequence = x.sequence
         /\ Kind7Of(x) \in Artifacts /\ Kind7Of(x).kind = "kind7" /\ Kind7Of(x).auth = x.auth
         /\ Kind7Of(x).sequence = x.sequence
  BY DEF Artifact, Artifacts, Kind5Of, Kind7Of, Kinds

(* The fields of an effect on an artifact.                                  *)
LEMMA EffectShape ==
  ASSUME NEW x \in Artifacts, NEW op \in Ops
  PROVE  Effect(op, x) \in Effects /\ Effect(op, x).op = op /\ Effect(op, x).artifact = x
  BY DEF Effect, Effects, PoolPhases

(* The fields of a phase effect.                                            *)
LEMMA PhaseShape ==
  ASSUME NEW p \in PoolPhases, NEW a \in Nat
  PROVE  /\ SetPhase(p, a) \in Effects /\ SetPhase(p, a).op = "phase"
         /\ SetPhase(p, a).phase = p /\ SetPhase(p, a).pending = a
  BY DEF SetPhase, Kind2, Artifact, Artifacts, Effects, Kinds, Ops

(* A call is an effect.                                                     *)
LEMMA CallShape ==
  ASSUME NEW op \in Ops
  PROVE  Call(op) \in Effects /\ Call(op).op = op
  BY DEF Call, Effect, Kind2, Artifact, Artifacts, Effects, Kinds, PoolPhases

(* The stages of the effects a plan is made of.                             *)
LEMMA StageValues ==
  ASSUME NEW x \in Artifacts, NEW p \in PoolPhases, NEW a \in Nat
  PROVE  /\ Stage(Put(x)) = PutStage(x.kind)
         /\ Stage(Effect("file", x)) = FileStage(x.kind)
         /\ Stage(Effect("list", x)) = FileStage(x.kind) + 2
         /\ Stage(SendFrame(x)) = SendStage(x.kind)
         /\ Stage(Await(x)) = AwaitStage(x.kind)
         /\ Stage(SetPhase(p, a)) = PhaseStage(p)
  BY EffectShape, PhaseShape DEF Stage, Put, SendFrame, Await, Ops

(* A write, field by field.                                                *)
LEMMA WroteFields ==
  ASSUME NEW b \in Sessions, NEW e \in Effects, e.op \in {"put", "file", "list", "phase"}
  PROVE  /\ Wrote(b, e) \in Sessions
         /\ e.op = "phase" => /\ Wrote(b, e).phase = e.phase /\ Wrote(b, e).pending = e.pending
                              /\ Wrote(b, e).file = b.file /\ Wrote(b, e).listed = b.listed
         /\ e.op # "phase" => Wrote(b, e).phase = b.phase /\ Wrote(b, e).pending = b.pending
         /\ e.op = "put" => /\ Wrote(b, e).file = b.file \union {e.artifact}
                            /\ Wrote(b, e).listed = b.listed \union {e.artifact}
         /\ e.op = "file" => Wrote(b, e).file = b.file \union {e.artifact} /\ Wrote(b, e).listed = b.listed
         /\ e.op = "list" => Wrote(b, e).file = b.file /\ Wrote(b, e).listed = b.listed \union {e.artifact}
  BY DEF Wrote, Sessions, Effects

(* Writing adds to the evidence and leaves it finite.                       *)
LEMMA WroteFinite ==
  ASSUME NEW b \in Sessions, NEW e \in Effects, e.op \in {"put", "file", "list", "phase"}
  PROVE  /\ IsFiniteSet(b.file) => IsFiniteSet(Wrote(b, e).file)
         /\ IsFiniteSet(b.listed) => IsFiniteSet(Wrote(b, e).listed)
         /\ b.file \subseteq Wrote(b, e).file
  <1>1. Wrote(b, e).file \in {b.file, b.file \union {e.artifact}}
    BY WroteFields
  <1>2. Wrote(b, e).listed \in {b.listed, b.listed \union {e.artifact}}
    BY WroteFields
  <1> QED BY <1>1, <1>2, FS_AddElement

-----------------------------------------------------------------------------
(* The buyer: what the seller does, and a handler that stops.              *)

LEMMA BuyerStays ==
  ASSUME NEW b \in Sessions, IsFiniteSet(b.file), NEW n \in Nat, NEW m \in Nat, NEW c, NEW d, NEW E,
         BuyerOK(b, n, c, E), n <= m, c = "close" => d = "close", \A e \in E : e \in Effects
  PROVE  BuyerOK(b, m, d, E)
  <1>1. Many(b.file, "kind7") \in Nat
    BY ManyIsNat
  <1>2. BuyerFiles(b, m)
    BY <1>1 DEF BuyerOK, BuyerFiles
  <1>3. BuyerRecord(b, d)
    BY DEF BuyerOK, BuyerRecord
  <1>4. ASSUME NEW e \in E, e.op = "file" PROVE BuyerFilesOne(b, m, E, e)
    <2>1. BuyerFilesOne(b, n, E, e)
      BY <1>4 DEF BuyerOK, BuyerAhead
    <2>2. e.artifact.sequence \in Nat
      BY ArtifactIs DEF Effects
    <2> QED BY <2>1, <2>2 DEF BuyerFilesOne
  <1>5. BuyerAhead(b, m, E)
    BY <1>4 DEF BuyerOK, BuyerAhead
  <1> QED BY <1>2, <1>3, <1>5 DEF BuyerOK

(* A buyer whose handler stops is as it should be: nothing it has still to  *)
(* do was needed.                                                           *)
LEMMA BuyerRests ==
  ASSUME NEW b, NEW n, NEW c, NEW E, BuyerOK(b, n, c, E)
  PROVE  BuyerOK(b, n, c, {})
  BY DEF BuyerOK, BuyerAhead

(* An effect that changes no count of payments, no phase and nothing that  *)
(* is unlisted leaves what the next effects rely on.                       *)
LEMMA BuyerAheadMoves ==
  ASSUME NEW b, NEW d, NEW n, NEW e, NEW T, BuyerAhead(b, n, {e} \union T),
         d.phase = b.phase, d.pending = b.pending, b.file \subseteq d.file,
         Many(d.file, "kind7") = Many(b.file, "kind7"), Many(d.listed, "kind7") = Many(b.listed, "kind7"),
         Unlisted(d) = Unlisted(b),
         e.op \in {"put", "file"} => e.artifact \in d.file,
         e.op = "list" => e.artifact.kind # "kind7",
         e.op # "phase",
         Many(d.file, "kind5") = Many(b.file, "kind5") \/ \A f \in T : ~(f.op = "put" /\ f.artifact.kind = "kind5")
  PROVE  BuyerAhead(d, n, T)
  <1> DEFINE E == {e} \union T
  <1>1. ASSUME NEW x PROVE /\ Put(x) \in E => x \in d.file \/ Put(x) \in T
                           /\ Effect("file", x) \in E => x \in d.file \/ Effect("file", x) \in T
                           /\ x.kind = "kind7" /\ Effect("list", x) \in E => Effect("list", x) \in T
    BY DEF Put, Effect
  <1>2. \A p, a : SetPhase(p, a) \in E => SetPhase(p, a) \in T
    BY DEF SetPhase
  <1>3. (Ending(d) <=> Ending(b)) /\ CloseOf(d) = CloseOf(b)
    BY DEF Ending, CloseOf
  <1> SUFFICES ASSUME NEW f \in T
               PROVE  /\ f.op \in {"put", "file", "list", "phase", "send", "assert", "observe"}
                      /\ f.op = "put" => BuyerPuts(d, T, f)
                      /\ f.op = "file" => BuyerFilesOne(d, n, T, f)
                      /\ f.op = "list" => BuyerLists(d, T, f)
                      /\ f.op = "phase" => BuyerPhases(d, T, f)
                      /\ f.op = "send" => BuyerSends(d, T, f)
                      /\ f.op = "observe" => Ending(d) /\ (CloseOf(d) \in d.file \/ Put(CloseOf(d)) \in T)
    BY DEF BuyerAhead
  <1>4. /\ f.op \in {"put", "file", "list", "phase", "send", "assert", "observe"}
        /\ f.op = "put" => BuyerPuts(b, E, f)
        /\ f.op = "file" => BuyerFilesOne(b, n, E, f)
        /\ f.op = "list" => BuyerLists(b, E, f)
        /\ f.op = "phase" => BuyerPhases(b, E, f)
        /\ f.op = "send" => BuyerSends(b, E, f)
        /\ f.op = "observe" => Ending(b) /\ (CloseOf(b) \in b.file \/ Put(CloseOf(b)) \in E)
    BY DEF BuyerAhead
  <1>5. f.op = "put" => BuyerPuts(d, T, f)
    BY <1>3, <1>4 DEF BuyerPuts
  <1>6. ASSUME f.op = "file" PROVE BuyerFilesOne(d, n, T, f)
    <2>1. BuyerFilesOne(b, n, E, f)
      BY <1>4, <1>6
    <2>2. f.artifact.kind = "kind7" /\ Effect("list", f.artifact) \in E => Effect("list", f.artifact) \in T
      BY <1>1
    <2>3. f.artifact.kind = "kind12" =>
            \/ \E y \in Of(d.file, "binding") : y.sequence = f.artifact.sequence
            \/ Put(Artifact("binding", 0, f.artifact.sequence)) \in T
      <3> DEFINE y == Artifact("binding", 0, f.artifact.sequence)
      <3>1. y.kind = "binding" /\ y.sequence = f.artifact.sequence
        BY DEF Artifact
      <3>2. Put(y) \in E => y \in d.file \/ Put(y) \in T
        BY <1>1
      <3> QED BY <2>1, <3>1, <3>2 DEF BuyerFilesOne, Of
    <2> QED BY <2>1, <2>2, <2>3 DEF BuyerFilesOne
  <1>7. f.op = "list" => BuyerLists(d, T, f)
    BY <1>1, <1>4 DEF BuyerLists
  <1>8. ASSUME f.op = "phase" PROVE BuyerPhases(d, T, f)
    <2>1. BuyerPhases(b, E, f)
      BY <1>4, <1>8
    <2>2. ASSUME f.phase = "funded", NEW k \in Unlisted(d) PROVE Effect("list", k) \in T
      <3>1. k.kind = "kind7" /\ Effect("list", k) \in E
        BY <2>1, <2>2 DEF BuyerPhases, Unlisted, Of
      <3> QED BY <1>1, <3>1
    <2>3. ASSUME f.phase = "request-prepared"
          PROVE  /\ d.phase = "funded" /\ f.pending # 0
                 /\ LET x == Artifact("kind5", f.pending, Many(d.file, "kind7") + 1) IN x \in d.file \/ Put(x) \in T
      <3> DEFINE x == Artifact("kind5", f.pending, Many(d.file, "kind7") + 1)
      <3>1. b.phase = "funded" /\ f.pending # 0 /\ (x \in b.file \/ Put(x) \in E)
        BY <2>1, <2>3 DEF BuyerPhases
      <3>2. x \in d.file \/ Put(x) \in T
        BY <1>1, <3>1
      <3> QED BY <3>1, <3>2
    <2> QED BY <1>3, <2>1, <2>2, <2>3 DEF BuyerPhases
  <1>9. ASSUME f.op = "send" PROVE BuyerSends(d, T, f)
    BY <1>1, <1>2, <1>3, <1>4, <1>9 DEF BuyerSends
  <1>10. f.op = "observe" => Ending(d) /\ (CloseOf(d) \in d.file \/ Put(CloseOf(d)) \in T)
    BY <1>1, <1>3, <1>4
  <1> QED BY <1>4, <1>5, <1>6, <1>7, <1>8, <1>9, <1>10

(* The buyer writes: evidence that is no request and no payment.           *)
LEMMA BuyerWritesOther ==
  ASSUME NEW b \in Sessions, IsFiniteSet(b.file), NEW n \in Nat, NEW c, NEW e \in Effects, NEW T,
         BuyerOK(b, n, c, {e} \union T), \A f \in T : f \in Effects /\ Before(e, f),
         e.op \in {"put", "file", "list"}, e.artifact.kind \notin {"kind5", "kind7"}
  PROVE  BuyerOK(Wrote(b, e), n, c, T) /\ (Ending(b) => Ending(Wrote(b, e)))
  <1> DEFINE d == Wrote(b, e)  E == {e} \union T  x == e.artifact
  <1>1. /\ d \in Sessions /\ d.phase = b.phase /\ d.pending = b.pending /\ b.file \subseteq d.file
        /\ d.file \in {b.file, b.file \union {x}} /\ d.listed \in {b.listed, b.listed \union {x}}
        /\ e.op \in {"put", "file"} => x \in d.file
        /\ e.op = "file" => d.listed = b.listed
        /\ e.op = "list" => d.file = b.file
    BY WroteFields
  <1>2. x \in Artifacts
    BY DEF Effects
  <1>3. \A k \in {"kind5", "kind7"} : Of(d.file, k) = Of(b.file, k) /\ Of(d.listed, k) = Of(b.listed, k)
    BY <1>1 DEF Of
  <1>4. /\ Many(d.file, "kind5") = Many(b.file, "kind5") /\ Many(d.file, "kind7") = Many(b.file, "kind7")
        /\ Many(d.listed, "kind7") = Many(b.listed, "kind7") /\ Unlisted(d) = Unlisted(b)
    <2>1. Unlisted(d) = Unlisted(b)
      BY <1>1, <1>3 DEF Unlisted, Of
    <2> QED BY <1>3, <2>1 DEF Many
  <1>5. BuyerAhead(d, n, T)
    <2>1. BuyerAhead(b, n, E)
      BY DEF BuyerOK
    <2> QED BY <1>1, <1>4, <2>1, BuyerAheadMoves
  <1>6. (Ending(d) <=> Ending(b)) /\ CloseOf(d) = CloseOf(b)
    BY <1>1, <1>4 DEF Ending, CloseOf
  <1>7. e.op = "list" => x \in b.file
    <2> SUFFICES ASSUME e.op = "list", x \notin b.file PROVE FALSE
      OBVIOUS
    <2>1. Effect("file", x) \in E /\ x.kind = "kind12"
      BY DEF BuyerOK, BuyerAhead, BuyerLists
    <2>2. Effect("file", x).op = "file" /\ Stage(Effect("file", x)) = 26 /\ Stage(e) = 28
      BY <1>2, <2>1, EffectShape, StageValues DEF Stage, FileStage, Ops
    <2>3. Effect("file", x) \in T
      BY <2>1, <2>2
    <2> QED BY <2>2, <2>3 DEF Before
  <1>8. BuyerFiles(d, n)
    <2>1. d.listed \subseteq d.file
      BY <1>1, <1>7, WroteFields DEF BuyerOK, BuyerFiles
    <2>2. BuyerFiles(b, n)
      BY DEF BuyerOK
    <2>3. Numbered(d.file, "kind7")
      BY <1>3, <1>4, <2>2 DEF BuyerFiles, Numbered
    <2>4. \A k \in Of(d.file, "kind7") : Kind5Of(k) \in d.file
      BY <1>1, <1>3, <2>2 DEF BuyerFiles
    <2> QED BY <1>3, <1>4, <2>1, <2>2, <2>3, <2>4 DEF BuyerFiles
  <1>9. \A y \in Of(d.file, "kind12") : \E z \in Of(d.file, "binding") : z.sequence = y.sequence
    <2> SUFFICES ASSUME NEW y \in Of(d.file, "kind12"), y \notin b.file
                 PROVE  \E z \in Of(d.file, "binding") : z.sequence = y.sequence
      BY <1>1 DEF BuyerOK, BuyerRecord, Of
    <2>1. y = x /\ e.op \in {"put", "file"} /\ x.kind = "kind12"
      BY <1>1 DEF Of
    <2>2. e.op = "file"
      BY <2>1 DEF BuyerOK, BuyerAhead, BuyerPuts
    <2>3. \/ \E z \in Of(b.file, "binding") : z.sequence = x.sequence
          \/ Put(Artifact("binding", 0, x.sequence)) \in E
      BY <2>1, <2>2 DEF BuyerOK, BuyerAhead, BuyerFilesOne
    <2>4. Put(Artifact("binding", 0, x.sequence)) \notin E
      <3> DEFINE y2 == Artifact("binding", 0, x.sequence)
      <3>1. y2 \in Artifacts /\ y2.kind = "binding"
        BY <1>2, ArtifactIs, ArtifactShape DEF Kinds
      <3>2. Put(y2).op = "put" /\ Stage(Put(y2)) = 20 /\ Stage(e) = 26
        BY <2>1, <2>2, <3>1, EffectShape, StageValues DEF Stage, FileStage, PutStage, Ops, Put
      <3> QED BY <2>2, <3>2 DEF Before
    <2> QED BY <1>1, <2>1, <2>3, <2>4 DEF Of
  <1>10. \A y \in Of(d.file, "kind13") : Ending(d) /\ y = CloseOf(d)
    <2> SUFFICES ASSUME NEW y \in Of(d.file, "kind13"), y \notin b.file
                 PROVE  Ending(d) /\ y = CloseOf(d)
      BY <1>1, <1>6 DEF BuyerOK, BuyerRecord, Of
    <2>1. y = x /\ e.op \in {"put", "file"} /\ x.kind = "kind13"
      BY <1>1 DEF Of
    <2> QED BY <1>6, <2>1 DEF BuyerOK, BuyerAhead, BuyerPuts, BuyerFilesOne
  <1>11. d.phase = "funded" => d.pending = 0 /\ Unlisted(d) = {}
    BY <1>1, <1>4 DEF BuyerOK, BuyerRecord
  <1>12. d.pending # 0 =>
           /\ d.phase = "request-prepared"
           /\ \E y \in Of(d.file, "kind5") :
                /\ y.auth = d.pending
                /\ Kind7Of(y) \in d.file \/ (y.sequence = Many(d.file, "kind7") + 1 /\ Unlisted(d) = {})
    BY <1>1, <1>3, <1>4 DEF BuyerOK, BuyerRecord
  <1>13. d.phase = "completed" => c = "close" /\ CloseOf(d) \in d.file
    BY <1>1, <1>6 DEF BuyerOK, BuyerRecord
  <1> QED BY <1>5, <1>6, <1>8, <1>9, <1>10, <1>11, <1>12, <1>13 DEF BuyerOK, BuyerRecord

(* ... a request ...                                                       *)
LEMMA BuyerWritesRequest ==
  ASSUME NEW b \in Sessions, IsFiniteSet(b.file), NEW n \in Nat, NEW c, NEW e \in Effects, NEW T,
         BuyerOK(b, n, c, {e} \union T), \A f \in T : f \in Effects /\ Before(e, f),
         e.op = "put", e.artifact.kind = "kind5"
  PROVE  BuyerOK(Wrote(b, e), n, c, T) /\ (Ending(b) => Ending(Wrote(b, e)))
  <1> DEFINE d == Wrote(b, e)  E == {e} \union T  x == e.artifact
  <1>1. /\ d \in Sessions /\ d.phase = b.phase /\ d.pending = b.pending /\ b.file \subseteq d.file
        /\ d.file = b.file \union {x} /\ d.listed = b.listed \union {x}
    BY WroteFields
  <1>2. /\ b.phase = "funded" /\ x.auth = Many(b.file, "kind5") + 1 /\ x.sequence = Many(b.file, "kind7") + 1
    BY DEF BuyerOK, BuyerAhead, BuyerPuts
  <1>3. Many(b.file, "kind5") \in Nat /\ Many(b.file, "kind7") \in Nat
    BY ManyIsNat
  <1>4. x \notin b.file
    BY <1>2, <1>3 DEF BuyerOK, BuyerFiles, Of
  <1>5. \A k : k # "kind5" => Of(d.file, k) = Of(b.file, k) /\ Of(d.listed, k) = Of(b.listed, k)
    BY <1>1 DEF Of
  <1>6. /\ Many(d.file, "kind7") = Many(b.file, "kind7")
        /\ Many(d.listed, "kind7") = Many(b.listed, "kind7") /\ Unlisted(d) = Unlisted(b)
    <2>1. Unlisted(d) = Unlisted(b)
      BY <1>1, <1>5 DEF Unlisted, Of
    <2> QED BY <1>5, <2>1 DEF Many
  <1>7. Of(d.file, "kind5") = Of(b.file, "kind5") \union {x} /\ Many(d.file, "kind5") = Many(b.file, "kind5") + 1
    <2>1. /\ Of(b.file \union {x}, x.kind) = Of(b.file, x.kind) \union {x}
          /\ Many(b.file \union {x}, x.kind) = Many(b.file, x.kind) + 1
      BY <1>4, OfNew
    <2> QED BY <1>1, <2>1
  <1>8. \A f \in T : ~(f.op = "put" /\ f.artifact.kind = "kind5")
    <2> SUFFICES ASSUME NEW f \in T, f.op = "put", f.artifact.kind = "kind5" PROVE FALSE
      OBVIOUS
    <2>1. Stage(e) = 2 /\ Stage(f) = 2
      BY DEF Stage, PutStage
    <2> QED BY <2>1 DEF Before
  <1>9. BuyerAhead(d, n, T)
    <2>1. BuyerAhead(b, n, E)
      BY DEF BuyerOK
    <2> QED BY <1>1, <1>6, <1>8, <2>1, BuyerAheadMoves
  <1>10. (Ending(d) <=> Ending(b)) /\ CloseOf(d) = CloseOf(b)
    BY <1>1, <1>6 DEF Ending, CloseOf
  <1>11. BuyerFiles(d, n)
    <2>1. BuyerFiles(b, n)
      BY DEF BuyerOK
    <2>2. d.listed \subseteq d.file
      BY <1>1, <2>1 DEF BuyerFiles
    <2>3. Numbered(d.file, "kind7")
      BY <1>5, <1>6, <2>1 DEF BuyerFiles, Numbered
    <2>4. \A k \in Of(d.file, "kind7") : Kind5Of(k) \in d.file
      BY <1>1, <1>5, <2>1 DEF BuyerFiles
    <2>5. \A y \in Of(d.file, "kind5") : y.auth \in 1 .. Many(d.file, "kind5")
      BY <1>2, <1>3, <1>7, <2>1 DEF BuyerFiles
    <2>6. \A y, z \in Of(d.file, "kind5") : y.auth = z.auth => y = z
      <3>1. \A y \in Of(b.file, "kind5") : y.auth # x.auth
        BY <1>2, <1>3, <2>1 DEF BuyerFiles
      <3> QED BY <1>7, <2>1, <3>1 DEF BuyerFiles
    <2> QED BY <1>6, <2>1, <2>2, <2>3, <2>4, <2>5, <2>6 DEF BuyerFiles
  <1>12. BuyerRecord(d, c)
    <2>1. BuyerRecord(b, c)
      BY DEF BuyerOK
    <2>2. d.pending = 0
      BY <1>1, <1>2, <2>1 DEF BuyerRecord
    <2>3. \A y \in Of(d.file, "kind12") : \E z \in Of(d.file, "binding") : z.sequence = y.sequence
      BY <1>5, <2>1 DEF BuyerRecord
    <2>4. \A y \in Of(d.file, "kind13") : Ending(d) /\ y = CloseOf(d)
      BY <1>5, <1>10, <2>1 DEF BuyerRecord
    <2> QED BY <1>1, <1>2, <1>6, <2>1, <2>2, <2>3, <2>4 DEF BuyerRecord
  <1> QED BY <1>9, <1>10, <1>11, <1>12 DEF BuyerOK

(* ... a payment, as a file ...                                            *)
LEMMA BuyerFilesPayment ==
  ASSUME NEW b \in Sessions, IsFiniteSet(b.file), NEW n \in Nat, NEW c, NEW e \in Effects, NEW T,
         BuyerOK(b, n, c, {e} \union T), \A f \in T : f \in Effects /\ Before(e, f),
         e.op = "file", e.artifact.kind = "kind7"
  PROVE  BuyerOK(Wrote(b, e), n, c, T) /\ (Ending(b) => Ending(Wrote(b, e)))
  <1> DEFINE d == Wrote(b, e)  E == {e} \union T  x == e.artifact
  <1>1. /\ d \in Sessions /\ d.phase = b.phase /\ d.pending = b.pending /\ b.file \subseteq d.file
        /\ d.file = b.file \union {x} /\ d.listed = b.listed
    BY WroteFields
  <1>2. /\ x.auth = b.pending /\ b.pending # 0 /\ Kind5Of(x) \in b.file
        /\ x.sequence = Many(b.file, "kind7") + 1 /\ x.sequence <= n + 1
        /\ Unlisted(b) = {} /\ Effect("list", x) \in E
    BY DEF BuyerOK, BuyerAhead, BuyerFilesOne
  <1>3. x \in Artifacts /\ Many(b.file, "kind7") \in Nat
    BY ManyIsNat DEF Effects
  <1>4. x \notin b.file
    <2> SUFFICES ASSUME x \in b.file PROVE FALSE
      OBVIOUS
    <2>1. x.sequence \in 1 .. Many(b.file, "kind7")
      BY DEF BuyerOK, BuyerFiles, Numbered, Of
    <2> QED BY <1>2, <1>3, <2>1
  <1>5. \A k : k # "kind7" => Of(d.file, k) = Of(b.file, k) /\ Many(d.file, k) = Many(b.file, k)
    BY <1>1 DEF Of, Many
  <1>6. Of(d.file, "kind7") = Of(b.file, "kind7") \union {x} /\ Many(d.file, "kind7") = Many(b.file, "kind7") + 1
    <2>1. /\ Of(b.file \union {x}, x.kind) = Of(b.file, x.kind) \union {x}
          /\ Many(b.file \union {x}, x.kind) = Many(b.file, x.kind) + 1
      BY <1>4, OfNew
    <2> QED BY <1>1, <2>1
  <1>7. Unlisted(d) = {x} /\ Effect("list", x) \in T
    <2>1. x \notin b.listed
      BY <1>4 DEF BuyerOK, BuyerFiles
    <2>2. Effect("list", x) # e
      BY <1>3, EffectShape DEF Ops
    <2>3. Unlisted(d) = {x}
      BY <1>1, <1>2, <1>6, <2>1 DEF Unlisted
    <2> QED BY <1>2, <2>2, <2>3
  <1>8. b.phase = "request-prepared" /\ ~Ending(b) /\ ~Ending(d)
    BY <1>1, <1>2 DEF BuyerOK, BuyerRecord, Ending, EndPhases
  <1>9. BuyerFiles(d, n)
    <2>1. BuyerFiles(b, n)
      BY DEF BuyerOK
    <2>2. d.listed \subseteq d.file
      BY <1>1, <2>1 DEF BuyerFiles
    <2>3. Numbered(d.file, "kind7")
      <3>1. Numbered(b.file \union {x}, x.kind)
        BY <1>2, <1>4, <2>1, NumberedNext DEF BuyerFiles
      <3> QED BY <1>1, <3>1
    <2>4. \A k \in Of(d.file, "kind7") : Kind5Of(k) \in d.file
      BY <1>1, <1>2, <1>6, <2>1 DEF BuyerFiles
    <2>5. /\ \A y \in Of(d.file, "kind5") : y.auth \in 1 .. Many(d.file, "kind5")
          /\ \A y, z \in Of(d.file, "kind5") : y.auth = z.auth => y = z
      BY <1>5, <2>1 DEF BuyerFiles
    <2> QED BY <1>2, <1>6, <2>2, <2>3, <2>4, <2>5 DEF BuyerFiles
  <1>10. BuyerRecord(d, c)
    <2>1. BuyerRecord(b, c)
      BY DEF BuyerOK
    <2>2. \E y \in Of(d.file, "kind5") : y.auth = d.pending /\ Kind7Of(y) \in d.file
      <3> DEFINE y == Kind5Of(x)
      <3>1. y \in Of(d.file, "kind5") /\ y.auth = d.pending
        BY <1>1, <1>2, <1>3, ArtifactIs DEF Of
      <3>2. Kind7Of(y) = x
        BY <1>3, ArtifactIs DEF Kind7Of
      <3> QED BY <1>1, <3>1, <3>2
    <2>3. \A y \in Of(d.file, "kind12") : \E z \in Of(d.file, "binding") : z.sequence = y.sequence
      BY <1>5, <2>1 DEF BuyerRecord
    <2>4. Of(d.file, "kind13") = {}
      BY <1>5, <1>8, <2>1 DEF BuyerRecord
    <2> QED BY <1>1, <1>8, <2>2, <2>3, <2>4 DEF BuyerRecord
  <1>11. BuyerAhead(d, n, T)
    <2> SUFFICES ASSUME NEW f \in T
                 PROVE  /\ f.op \in {"put", "file", "list", "phase", "send", "assert", "observe"}
                        /\ f.op = "put" => BuyerPuts(d, T, f)
                        /\ f.op = "file" => BuyerFilesOne(d, n, T, f)
                        /\ f.op = "list" => BuyerLists(d, T, f)
                        /\ f.op = "phase" => BuyerPhases(d, T, f)
                        /\ f.op = "send" => BuyerSends(d, T, f)
                        /\ f.op = "observe" => Ending(d) /\ (CloseOf(d) \in d.file \/ Put(CloseOf(d)) \in T)
      BY DEF BuyerAhead
    <2>1. /\ f.op \in {"put", "file", "list", "phase", "send", "assert", "observe"}
          /\ f.op = "put" => BuyerPuts(b, E, f)
          /\ f.op = "file" => BuyerFilesOne(b, n, E, f)
          /\ f.op = "list" => BuyerLists(b, E, f)
          /\ f.op = "phase" => BuyerPhases(b, E, f)
          /\ f.op = "send" => BuyerSends(b, E, f)
          /\ f.op = "observe" => Ending(b)
      BY DEF BuyerOK, BuyerAhead
    <2>2. f.op = "put" => BuyerPuts(d, T, f)
      BY <1>8, <2>1 DEF BuyerPuts
    <2>3. ASSUME NEW y PROVE /\ Put(y) \in E => Put(y) \in T
                             /\ Effect("file", y) \in E => y \in d.file \/ Effect("file", y) \in T
      BY <1>1 DEF Put, Effect
    <2>4. ASSUME f.op = "file" PROVE BuyerFilesOne(d, n, T, f)
      <3>1. f.artifact.kind # "kind7"
        <4> SUFFICES ASSUME f.artifact.kind = "kind7" PROVE FALSE
          OBVIOUS
        <4>1. Stage(e) = 10 /\ Stage(f) = 10
          BY <2>4 DEF Stage, FileStage
        <4> QED BY <2>4, <4>1 DEF Before
      <3>2. /\ f.artifact.kind = "kind12"
            /\ \/ \E y \in Of(b.file, "binding") : y.sequence = f.artifact.sequence
               \/ Put(Artifact("binding", 0, f.artifact.sequence)) \in T
        BY <2>1, <2>3, <2>4, <3>1 DEF BuyerFilesOne
      <3> QED BY <1>5, <3>2 DEF BuyerFilesOne
    <2>5. f.op = "list" => BuyerLists(d, T, f)
      BY <1>1, <2>1, <2>3 DEF BuyerLists
    <2>6. f.op = "phase" => BuyerPhases(d, T, f)
      BY <1>7, <1>8, <2>1 DEF BuyerPhases
    <2>7. SetPhase("close-requested", 0) \in E => SetPhase("close-requested", 0) \in T
      BY DEF SetPhase
    <2>8. f.op = "send" => BuyerSends(d, T, f)
      BY <1>1, <1>8, <2>1, <2>3, <2>7 DEF BuyerSends
    <2> QED BY <1>8, <2>1, <2>2, <2>4, <2>5, <2>6, <2>8
  <1> QED BY <1>8, <1>9, <1>10, <1>11 DEF BuyerOK

(* ... its listing ...                                                     *)
LEMMA BuyerListsPayment ==
  ASSUME NEW b \in Sessions, IsFiniteSet(b.file), NEW n \in Nat, NEW c, NEW e \in Effects, NEW T,
         BuyerOK(b, n, c, {e} \union T), \A f \in T : f \in Effects /\ Before(e, f),
         e.op = "list", e.artifact.kind = "kind7"
  PROVE  BuyerOK(Wrote(b, e), n, c, T) /\ (Ending(b) => Ending(Wrote(b, e)))
  <1> DEFINE d == Wrote(b, e)  E == {e} \union T  x == e.artifact
  <1>1. /\ d \in Sessions /\ d.phase = b.phase /\ d.pending = b.pending
        /\ d.file = b.file /\ d.listed = b.listed \union {x}
    BY WroteFields
  <1>2. x.auth = b.pending /\ b.pending # 0 /\ (x \in b.file \/ Effect("file", x) \in E)
    BY DEF BuyerOK, BuyerAhead, BuyerLists
  <1>3. x \in Artifacts
    BY DEF Effects
  <1>4. x \in b.file
    <2>1. Effect("file", x).op = "file" /\ Stage(Effect("file", x)) = 10 /\ Stage(e) = 12
      BY <1>3, EffectShape, StageValues DEF Stage, FileStage, Ops
    <2> QED BY <1>2, <2>1 DEF Before
  <1>5. b.phase = "request-prepared" /\ ~Ending(b) /\ ~Ending(d)
    BY <1>1, <1>2 DEF BuyerOK, BuyerRecord, Ending, EndPhases
  <1>6. Unlisted(d) = Unlisted(b) \ {x}
    BY <1>1 DEF Unlisted
  <1>7. BuyerFiles(d, n)
    BY <1>1, <1>4 DEF BuyerOK, BuyerFiles
  <1>8. BuyerRecord(d, c)
    <2>1. BuyerRecord(b, c)
      BY DEF BuyerOK
    <2>2. Of(d.file, "kind13") = {}
      BY <1>1, <1>5, <2>1 DEF BuyerRecord
    <2>3. Unlisted(b) = {} => Unlisted(d) = {}
      BY <1>6
    <2>4. d.pending # 0 =>
           /\ d.phase = "request-prepared"
           /\ \E y \in Of(d.file, "kind5") :
                /\ y.auth = d.pending
                /\ Kind7Of(y) \in d.file \/ (y.sequence = Many(d.file, "kind7") + 1 /\ Unlisted(d) = {})
      BY <1>1, <2>1, <2>3 DEF BuyerRecord
    <2> QED BY <1>1, <1>5, <2>1, <2>2, <2>4 DEF BuyerRecord
  <1>9. BuyerAhead(d, n, T)
    <2> SUFFICES ASSUME NEW f \in T
                 PROVE  /\ f.op \in {"put", "file", "list", "phase", "send", "assert", "observe"}
                        /\ f.op = "put" => BuyerPuts(d, T, f)
                        /\ f.op = "file" => BuyerFilesOne(d, n, T, f)
                        /\ f.op = "list" => BuyerLists(d, T, f)
                        /\ f.op = "phase" => BuyerPhases(d, T, f)
                        /\ f.op = "send" => BuyerSends(d, T, f)
                        /\ f.op = "observe" => Ending(d) /\ (CloseOf(d) \in d.file \/ Put(CloseOf(d)) \in T)
      BY DEF BuyerAhead
    <2>1. /\ f.op \in {"put", "file", "list", "phase", "send", "assert", "observe"}
          /\ f.op = "put" => BuyerPuts(b, E, f)
          /\ f.op = "file" => BuyerFilesOne(b, n, E, f)
          /\ f.op = "list" => BuyerLists(b, E, f)
          /\ f.op = "phase" => BuyerPhases(b, E, f)
          /\ f.op = "send" => BuyerSends(b, E, f)
          /\ f.op = "observe" => Ending(b)
      BY DEF BuyerOK, BuyerAhead
    <2>2. f.op = "put" => BuyerPuts(d, T, f)
      BY <1>5, <2>1 DEF BuyerPuts
    <2>3. ASSUME NEW y PROVE /\ Put(y) \in E => Put(y) \in T
                             /\ Effect("file", y) \in E => Effect("file", y) \in T
                             /\ y # x /\ Effect("list", y) \in E => Effect("list", y) \in T
      BY DEF Put, Effect
    <2>4. ASSUME f.op = "file" PROVE BuyerFilesOne(d, n, T, f)
      <3>1. f.artifact.kind # "kind7"
        <4> SUFFICES ASSUME f.artifact.kind = "kind7" PROVE FALSE
          OBVIOUS
        <4>1. Stage(e) = 12 /\ Stage(f) = 10
          BY <2>4 DEF Stage, FileStage
        <4> QED BY <2>4, <4>1 DEF Before
      <3> QED BY <1>1, <2>1, <2>3, <2>4, <3>1 DEF BuyerFilesOne
    <2>5. f.op = "list" => BuyerLists(d, T, f)
      BY <1>1, <2>1, <2>3 DEF BuyerLists
    <2>6. ASSUME f.op = "phase" PROVE BuyerPhases(d, T, f)
      <3>1. ASSUME f.phase = "funded", NEW k \in Unlisted(d) PROVE Effect("list", k) \in T
        BY <1>6, <2>1, <2>3, <2>6, <3>1 DEF BuyerPhases
      <3> QED BY <1>1, <1>5, <2>1, <2>6, <3>1 DEF BuyerPhases
    <2>7. SetPhase("close-requested", 0) \in E => SetPhase("close-requested", 0) \in T
      BY DEF SetPhase
    <2>8. f.op = "send" => BuyerSends(d, T, f)
      BY <1>1, <1>5, <2>1, <2>3, <2>7 DEF BuyerSends
    <2> QED BY <1>5, <2>1, <2>2, <2>4, <2>5, <2>6, <2>8
  <1> QED BY <1>5, <1>7, <1>8, <1>9 DEF BuyerOK

(* ... and a phase.                                                        *)
LEMMA BuyerWritesPhase ==
  ASSUME NEW b \in Sessions, IsFiniteSet(b.file), NEW n \in Nat, NEW c, NEW e \in Effects, NEW T,
         BuyerOK(b, n, c, {e} \union T), \A f \in T : f \in Effects /\ Before(e, f),
         e.op = "phase"
  PROVE  BuyerOK(Wrote(b, e), n, c, T) /\ (Ending(b) => Ending(Wrote(b, e)))
  <1> DEFINE d == Wrote(b, e)  E == {e} \union T
  <1>1. d \in Sessions /\ d.phase = e.phase /\ d.pending = e.pending /\ d.file = b.file /\ d.listed = b.listed
    BY WroteFields
  <1>2. BuyerPhases(b, E, e)
    BY DEF BuyerOK, BuyerAhead
  <1>3. /\ \A k : Of(d.file, k) = Of(b.file, k) /\ Many(d.file, k) = Many(b.file, k)
        /\ Unlisted(d) = Unlisted(b) /\ CloseOf(d) = CloseOf(b)
    BY <1>1 DEF Many, Of, Unlisted, CloseOf
  <1>4. Ending(b) => Ending(d)
    BY <1>1, <1>2 DEF BuyerPhases, Ending
  <1>5. BuyerFiles(d, n)
    BY <1>1 DEF BuyerOK, BuyerFiles
  <1>6. \A x \in Unlisted(b) : Effect("list", x) \in E => Effect("list", x) \in T
    BY EffectShape DEF Effect
  <1>7. e.phase = "funded" => Unlisted(d) = {}
    <2> SUFFICES ASSUME e.phase = "funded", NEW x \in Unlisted(d) PROVE FALSE
      OBVIOUS
    <2>1. Effect("list", x) \in T /\ x \in Artifacts /\ x.kind = "kind7"
      BY <1>2, <1>3, <1>6 DEF BuyerPhases, Unlisted, Of, Sessions
    <2>2. Effect("list", x).op = "list" /\ Stage(Effect("list", x)) = 12 /\ Stage(e) = 16
      BY <2>1, EffectShape, StageValues DEF Stage, FileStage, PhaseStage, Ops
    <2> QED BY <2>1, <2>2 DEF Before
  <1>8. BuyerRecord(d, c)
    <2>1. BuyerRecord(b, c)
      BY DEF BuyerOK
    <2>2. e.phase # "completed"
      BY <1>2 DEF BuyerPhases
    <2>3. ASSUME d.pending # 0
          PROVE  /\ d.phase = "request-prepared"
                 /\ \E x \in Of(d.file, "kind5") :
                      /\ x.auth = d.pending
                      /\ Kind7Of(x) \in d.file \/ (x.sequence = Many(d.file, "kind7") + 1 /\ Unlisted(d) = {})
      <3> DEFINE x == Artifact("kind5", e.pending, Many(b.file, "kind7") + 1)
      <3>1. /\ e.phase = "request-prepared" /\ b.phase = "funded" /\ (x \in b.file \/ Put(x) \in E)
            /\ Unlisted(d) = {}
        BY <1>1, <1>2, <1>3, <2>1, <2>3 DEF BuyerPhases, BuyerRecord
      <3>2. x \in Artifacts /\ x.kind = "kind5" /\ x.auth = d.pending /\ x.sequence = Many(d.file, "kind7") + 1
        <4>1. e.pending \in Nat /\ Many(b.file, "kind7") + 1 \in Nat /\ "kind5" \in Kinds
          BY ManyIsNat DEF Effects, Kinds
        <4> QED BY <1>1, <1>3, <4>1, ArtifactShape
      <3>3. Put(x) \notin E
        <4>1. Put(x).op = "put" /\ Stage(Put(x)) = 2 /\ Stage(e) = 4
          BY <3>1, <3>2, EffectShape, StageValues DEF Put, Stage, PutStage, PhaseStage, Ops
        <4> QED BY <4>1 DEF Before
      <3>4. x \in Of(d.file, "kind5")
        BY <1>1, <3>1, <3>2, <3>3 DEF Of
      <3> QED BY <1>1, <3>1, <3>2, <3>4
    <2>4. d.phase = "funded" => d.pending = 0
      BY <1>1, <1>2 DEF BuyerPhases
    <2>5. \A x \in Of(d.file, "kind13") : Ending(d) /\ x = CloseOf(d)
      BY <1>3, <1>4, <2>1 DEF BuyerRecord
    <2>6. \A x \in Of(d.file, "kind12") : \E y \in Of(d.file, "binding") : y.sequence = x.sequence
      BY <1>3, <2>1 DEF BuyerRecord
    <2> QED BY <1>1, <1>7, <2>2, <2>3, <2>4, <2>5, <2>6 DEF BuyerRecord
  <1>9. BuyerAhead(d, n, T)
    <2> SUFFICES ASSUME NEW f \in T
                 PROVE  /\ f.op \in {"put", "file", "list", "phase", "send", "assert", "observe"}
                        /\ f.op = "put" => BuyerPuts(d, T, f)
                        /\ f.op = "file" => BuyerFilesOne(d, n, T, f)
                        /\ f.op = "list" => BuyerLists(d, T, f)
                        /\ f.op = "phase" => BuyerPhases(d, T, f)
                        /\ f.op = "send" => BuyerSends(d, T, f)
                        /\ f.op = "observe" => Ending(d) /\ (CloseOf(d) \in d.file \/ Put(CloseOf(d)) \in T)
      BY DEF BuyerAhead
    <2>1. /\ f.op \in {"put", "file", "list", "phase", "send", "assert", "observe"}
          /\ f.op = "put" => BuyerPuts(b, E, f)
          /\ f.op = "file" => BuyerFilesOne(b, n, E, f)
          /\ f.op = "list" => BuyerLists(b, E, f)
          /\ f.op = "phase" => BuyerPhases(b, E, f)
          /\ f.op = "send" => BuyerSends(b, E, f)
          /\ f.op = "observe" => Ending(b) /\ (CloseOf(b) \in b.file \/ Put(CloseOf(b)) \in E)
      BY DEF BuyerOK, BuyerAhead
    <2>2. ASSUME NEW y PROVE /\ Put(y) \in E => Put(y) \in T
                             /\ Effect("file", y) \in E => Effect("file", y) \in T
                             /\ Effect("list", y) \in E => Effect("list", y) \in T
      BY DEF Put, Effect
    <2>3. Before(e, f) /\ f.op # "assert" => Stage(e) < Stage(f)
      BY DEF Before
    <2>4. Stage(e) \in Nat /\ Stage(e) >= 4 /\ (e.phase # "request-prepared" => Stage(e) >= 16)
      BY <1>2 DEF BuyerPhases, Stage, PhaseStage
    <2>5. f.op = "put" => BuyerPuts(d, T, f)
      <3>1. f.op = "put" /\ f.artifact.kind = "kind5" => Stage(f) = 2
        BY DEF Stage, PutStage
      <3> QED BY <1>3, <1>4, <2>1, <2>3, <2>4, <3>1 DEF BuyerPuts
    <2>6. f.op \in {"file", "list"} /\ f.artifact.kind = "kind7" => FALSE
      <3> SUFFICES ASSUME f.op \in {"file", "list"}, f.artifact.kind = "kind7" PROVE FALSE
        OBVIOUS
      <3>1. Stage(f) \in {10, 12}
        BY DEF Stage, FileStage
      <3>2. e.phase = "request-prepared"
        BY <2>3, <2>4, <3>1
      <3>3. b.pending = 0 /\ b.pending # 0
        BY <1>2, <2>1, <3>2 DEF BuyerPhases, BuyerOK, BuyerRecord, BuyerFilesOne, BuyerLists
      <3> QED BY <3>3
    <2>7. f.op = "file" => BuyerFilesOne(d, n, T, f)
      BY <1>3, <2>1, <2>2, <2>6 DEF BuyerFilesOne
    <2>8. f.op = "list" => BuyerLists(d, T, f)
      BY <1>1, <2>1, <2>2, <2>6 DEF BuyerLists
    <2>9. ASSUME f.op = "phase" PROVE BuyerPhases(d, T, f)
      <3>1. f.phase # "request-prepared"
        <4> SUFFICES ASSUME f.phase = "request-prepared" PROVE FALSE
          OBVIOUS
        <4>1. Stage(f) = 4
          BY <2>9 DEF Stage, PhaseStage
        <4> QED BY <2>3, <2>4, <2>9, <4>1 DEF Before
      <3>2. f.phase \notin EndPhases => ~Ending(d)
        <4> SUFFICES ASSUME f.phase \in {"funded", "content-committing"} PROVE e.phase \notin EndPhases
          BY <1>1, <2>1, <2>9, <3>1 DEF Ending, EndPhases, BuyerPhases
        <4>1. Stage(f) = 16
          BY <2>9 DEF Stage, PhaseStage
        <4>2. e.phase \in EndPhases => Stage(e) >= 18
          BY <1>2 DEF BuyerPhases, Stage, PhaseStage, EndPhases
        <4> QED BY <2>3, <2>4, <2>9, <4>1, <4>2 DEF Before
      <3>3. f.phase = "funded" => \A k \in Unlisted(d) : Effect("list", k) \in T
        BY <1>3, <2>1, <2>2, <2>9 DEF BuyerPhases
      <3> QED BY <2>1, <2>9, <3>1, <3>2, <3>3 DEF BuyerPhases
    <2>10. f.op = "send" => BuyerSends(d, T, f)
      <3>1. SetPhase("close-requested", 0) \in E => Ending(d) \/ SetPhase("close-requested", 0) \in T
        BY <1>1 DEF SetPhase, Ending, EndPhases
      <3> QED BY <1>1, <1>4, <2>1, <2>2, <3>1 DEF BuyerSends
    <2>11. f.op = "observe" => Ending(d) /\ (CloseOf(d) \in d.file \/ Put(CloseOf(d)) \in T)
      BY <1>1, <1>3, <1>4, <2>1, <2>2
    <2> QED BY <2>1, <2>5, <2>7, <2>8, <2>9, <2>10, <2>11
  <1> QED BY <1>4, <1>5, <1>8, <1>9 DEF BuyerOK

(* Whatever the buyer writes next, it is as it should be.                   *)
LEMMA BuyerWrites ==
  ASSUME NEW b \in Sessions, IsFiniteSet(b.file), NEW n \in Nat, NEW c, NEW e \in Effects, NEW T,
         BuyerOK(b, n, c, {e} \union T), \A f \in T : f \in Effects /\ Before(e, f),
         e.op \in {"put", "file", "list", "phase"}
  PROVE  BuyerOK(Wrote(b, e), n, c, T) /\ (Ending(b) => Ending(Wrote(b, e)))
  <1>1. CASE e.op = "phase"
    BY <1>1, BuyerWritesPhase
  <1>2. CASE e.op # "phase" /\ e.artifact.kind \notin {"kind5", "kind7"}
    BY <1>2, BuyerWritesOther
  <1>3. CASE e.op = "put" /\ e.artifact.kind = "kind5"
    BY <1>3, BuyerWritesRequest
  <1>4. CASE e.op = "file" /\ e.artifact.kind = "kind7"
    BY <1>4, BuyerFilesPayment
  <1>5. CASE e.op = "list" /\ e.artifact.kind = "kind7"
    BY <1>5, BuyerListsPayment
  <1>6. /\ ~(e.op = "put" /\ e.artifact.kind = "kind7")
        /\ ~(e.op \in {"file", "list"} /\ e.artifact.kind = "kind5")
    BY DEF BuyerOK, BuyerAhead, BuyerPuts, BuyerFilesOne, BuyerLists
  <1> QED BY <1>1, <1>2, <1>3, <1>4, <1>5, <1>6

(* An effect that is no write, and the answer of the network.              *)
LEMMA BuyerPasses ==
  ASSUME NEW b, NEW n, NEW c, NEW e, NEW T, BuyerOK(b, n, c, {e} \union T),
         e.op \in {"assert", "send", "observe"}
  PROVE  BuyerOK(b, n, c, T)
  <1>1. BuyerAhead(b, n, {e} \union T)
    BY DEF BuyerOK
  <1>2. e.op \notin {"put", "file", "list", "phase"}
    OBVIOUS
  <1>3. BuyerAhead(b, n, T)
    BY <1>1, <1>2, BuyerAheadMoves
  <1> QED BY <1>3 DEF BuyerOK

(* A buyer that observes its close in the network has completed.            *)
LEMMA BuyerObserves ==
  ASSUME NEW b \in Sessions, NEW n, NEW e \in Effects, NEW T, BuyerOK(b, n, "close", {e} \union T),
         \A f \in T : f \in Effects /\ Before(e, f), e.op = "observe"
  PROVE  BuyerOK([b EXCEPT !.phase = "completed"], n, "close", T)
  <1> DEFINE d == [b EXCEPT !.phase = "completed"]  E == {e} \union T
  <1>1. d.phase = "completed" /\ d.pending = b.pending /\ d.file = b.file /\ d.listed = b.listed
    BY DEF Sessions
  <1>2. Ending(b) /\ Ending(d) /\ (CloseOf(b) \in b.file \/ Put(CloseOf(b)) \in E)
    BY <1>1 DEF BuyerOK, BuyerAhead, Ending, EndPhases
  <1>3. Put(CloseOf(b)) \notin E
    <2>1. Stage(e) = 36 /\ Put(CloseOf(b)).op = "put" /\ Stage(Put(CloseOf(b))) = 32
      BY DEF Stage, CallStage, PutStage, Put, Effect, CloseOf, Artifact
    <2> QED BY <2>1 DEF Before
  <1>4. \A f \in T : f.op \in {"send", "assert"}
    <2> SUFFICES ASSUME NEW f \in T, f.op \notin {"send", "assert"} PROVE FALSE
      OBVIOUS
    <2>1. f.op \in {"put", "file", "list", "phase", "observe"}
      BY DEF BuyerOK, BuyerAhead
    <2>2. f.op = "file" \/ f.op = "list" => f.artifact.kind \in {"kind7", "kind12"}
      BY DEF BuyerOK, BuyerAhead, BuyerFilesOne, BuyerLists
    <2>3. f.op = "put" => f.artifact.kind \in {"kind5", "digest7", "signature7", "binding", "digest12", "signature12", "kind13"}
      BY DEF BuyerOK, BuyerAhead, BuyerPuts
    <2>4. Stage(e) = 36
      BY DEF Stage, CallStage
    <2>5. Stage(f) <= 36
      <3>1. f.op = "put" => Stage(f) <= 36
        BY <2>3 DEF Stage, PutStage
      <3>2. f.op = "file" \/ f.op = "list" => Stage(f) <= 36
        BY <2>2 DEF Stage, FileStage
      <3>3. f.op = "phase" => Stage(f) <= 36
        <4>1. f.op = "phase" => f.phase \in {"request-prepared", "funded", "content-committing", "close-required",
                                             "close-requested", "close-unknown"}
          BY DEF BuyerOK, BuyerAhead, BuyerPhases
        <4> QED BY <4>1 DEF Stage, PhaseStage
      <3>4. f.op = "observe" => Stage(f) <= 36
        BY DEF Stage, CallStage
      <3> QED BY <2>1, <3>1, <3>2, <3>3, <3>4
    <2>6. Stage(f) \in Nat
      BY StageIsNat
    <2> QED BY <2>1, <2>4, <2>5, <2>6 DEF Before
  <1>5. \A k : Of(d.file, k) = Of(b.file, k)
    BY <1>1
  <1>6. CloseOf(d) = CloseOf(b) /\ Unlisted(d) = Unlisted(b)
    BY <1>1 DEF CloseOf, Unlisted
  <1>7. BuyerFiles(d, n)
    BY <1>1 DEF BuyerOK, BuyerFiles
  <1>8. b.pending = 0
    BY <1>2 DEF BuyerOK, BuyerRecord, Ending, EndPhases
  <1>9. BuyerRecord(d, "close")
    BY <1>1, <1>2, <1>3, <1>6, <1>8 DEF BuyerOK, BuyerRecord
  <1>10. BuyerAhead(d, n, T)
    <2> SUFFICES ASSUME NEW f \in T, f.op = "send" PROVE BuyerSends(d, T, f)
      BY <1>4 DEF BuyerAhead
    <2>1. BuyerSends(b, E, f)
      BY DEF BuyerOK, BuyerAhead
    <2>2. \A y : /\ Put(y) \in E => Put(y) \in T
                 /\ Effect("file", y) \in E => Effect("file", y) \in T
      BY DEF Put, Effect
    <2> QED BY <1>1, <1>2, <2>1, <2>2 DEF BuyerSends
  <1> QED BY <1>7, <1>9, <1>10 DEF BuyerOK

-----------------------------------------------------------------------------
(* What the buyer's handlers start.                                        *)

(* Effects that name their artifact or phase, with their stages.           *)
LEMMA EffectOf ==
  ASSUME NEW x \in Artifacts
  PROVE  /\ Put(x) \in Effects /\ Put(x).op = "put" /\ Put(x).artifact = x
         /\ SendFrame(x) \in Effects /\ SendFrame(x).op = "send" /\ SendFrame(x).artifact = x
         /\ Effect("file", x) \in Effects /\ Effect("file", x).op = "file" /\ Effect("file", x).artifact = x
         /\ Effect("list", x) \in Effects /\ Effect("list", x).op = "list" /\ Effect("list", x).artifact = x
         /\ Stage(Put(x)) = PutStage(x.kind) /\ Stage(SendFrame(x)) = SendStage(x.kind)
         /\ Stage(Effect("file", x)) = FileStage(x.kind) /\ Stage(Effect("list", x)) = FileStage(x.kind) + 2
  BY EffectShape, StageValues DEF Put, SendFrame, Ops, PoolPhases

(* The fields and the stage of a phase effect.                              *)
LEMMA PhaseOf ==
  ASSUME NEW p \in PoolPhases, NEW a \in Nat
  PROVE  /\ SetPhase(p, a) \in Effects /\ SetPhase(p, a).op = "phase"
         /\ SetPhase(p, a).phase = p /\ SetPhase(p, a).pending = a /\ Stage(SetPhase(p, a)) = PhaseStage(p)
  BY PhaseShape DEF Stage

(* The fields and the stage of an answer that is awaited.                  *)
LEMMA AwaitOf ==
  ASSUME NEW x \in Artifacts
  PROVE  /\ Await(x) \in Effects /\ Await(x).op = "await" /\ Await(x).artifact = x
         /\ Stage(Await(x)) = AwaitStage(x.kind)
  <1>1. 0 \in Nat /\ "none" \in PoolPhases
    BY DEF PoolPhases
  <1> QED BY <1>1, EffectShape, StageValues DEF Await, Ops

(* The context check is an effect.                                          *)
LEMMA AssertOf ==
  Call("assert") \in Effects /\ Call("assert").op = "assert"
  BY CallShape DEF Ops

(* With no payment unlisted, as many are listed as filed.                   *)
LEMMA ListedPayments ==
  ASSUME NEW b, b.listed \subseteq b.file, Unlisted(b) = {}
  PROVE  Many(b.listed, "kind7") = Many(b.file, "kind7")
  <1>1. Of(b.listed, "kind7") = Of(b.file, "kind7")
    BY DEF Unlisted, Of
  <1> QED BY <1>1 DEF Many

(* What is listed of a finite evidence is finite.                           *)
LEMMA ListedFinite ==
  ASSUME NEW b, IsFiniteSet(b.file), b.listed \subseteq b.file
  PROVE  IsFiniteSet(b.listed) /\ Many(b.listed, "kind7") \in Nat
  BY FS_Subset, ManyIsNat

(* dispatchRequest.                                                        *)
LEMMA RequestPlan ==
  ASSUME buyer \in Sessions, IsFiniteSet(buyer.file), NEW n \in Nat, NEW c, BuyerOK(buyer, n, c, {}),
         buyer.phase = "funded", buyer.pending = 0,
         NEW a, a = 1 + Many(buyer.file, "kind5"),
         NEW x, x = Artifact("kind5", a, 1 + SignedPayments)
  PROVE  LET plan == <<Put(x), SetPhase("request-prepared", a), Call("assert"), SendFrame(x)>>
         IN  Within(plan, 2, 80) /\ BuyerOK(buyer, n, c, Ahead(plan))
  <1> DEFINE e1 == Put(x)  e2 == SetPhase("request-prepared", a)  e3 == Call("assert")  e4 == SendFrame(x)
             plan == <<e1, e2, e3, e4>>
  <1>1. /\ buyer.listed \subseteq buyer.file /\ Unlisted(buyer) = {} /\ ~Ending(buyer)
    BY DEF BuyerOK, BuyerFiles, BuyerRecord, Ending, EndPhases
  <1>2. /\ Many(buyer.listed, "kind7") = Many(buyer.file, "kind7")
        /\ Many(buyer.file, "kind7") \in Nat /\ Many(buyer.file, "kind5") \in Nat
    BY <1>1, ListedPayments, ManyIsNat
  <1>3. SignedPayments = Many(buyer.file, "kind7")
    BY <1>2 DEF SignedPayments, Many
  <1>4. /\ a \in Nat /\ a # 0 /\ 1 + SignedPayments \in Nat
        /\ a = Many(buyer.file, "kind5") + 1 /\ 1 + SignedPayments = Many(buyer.file, "kind7") + 1
    BY <1>2, <1>3
  <1>5. /\ x \in Artifacts /\ x.kind = "kind5" /\ x.auth = a /\ x.sequence = Many(buyer.file, "kind7") + 1
    <2>1. "kind5" \in Kinds
      BY DEF Kinds
    <2> QED BY <1>4, <2>1, ArtifactShape
  <1>6. /\ e1 \in Effects /\ e1.op = "put" /\ e1.artifact = x /\ Stage(e1) = 2
        /\ e4 \in Effects /\ e4.op = "send" /\ e4.artifact = x /\ Stage(e4) = 60
    BY <1>5, EffectOf DEF PutStage, SendStage
  <1>7. /\ e2 \in Effects /\ e2.op = "phase" /\ e2.phase = "request-prepared" /\ e2.pending = a /\ Stage(e2) = 4
    BY <1>4, PhaseOf DEF PhaseStage, PoolPhases, BuyerPhaseNames
  <1>8. e3 \in Effects /\ e3.op = "assert"
    BY AssertOf
  <1> HIDE DEF e1, e2, e3, e4
  <1>9. Within(<<e1, e2>>, 2, 4) /\ Ahead(<<e1, e2>>) = {e1, e2}
    BY <1>6, <1>7, TwoWithin DEF Before
  <1>10. Within(<<e3, e4>>, 60, 80) /\ Ahead(<<e3, e4>>) = {e3, e4}
    BY <1>6, <1>8, TwoWithin DEF Before
  <1>11. Within(plan, 2, 80) /\ Ahead(plan) = {e1, e2, e3, e4}
    <2>1. plan = <<e1, e2>> \o <<e3, e4>>
      BY <1>6, <1>7, <1>8
    <2>2. /\ Within(<<e1, e2>> \o <<e3, e4>>, 2, 80)
          /\ Ahead(<<e1, e2>> \o <<e3, e4>>) = Ahead(<<e1, e2>>) \union Ahead(<<e3, e4>>)
      BY <1>9, <1>10, JoinWithin
    <2> QED BY <1>9, <1>10, <2>1, <2>2
  <1>12. BuyerAhead(buyer, n, {e1, e2, e3, e4})
    <2> DEFINE E == {e1, e2, e3, e4}
    <2>1. BuyerPuts(buyer, E, e1)
      BY <1>4, <1>5, <1>6 DEF BuyerPuts
    <2>2. Put(x) \in E
      BY DEF e1
    <2>3. x = Artifact("kind5", a, Many(buyer.file, "kind7") + 1)
      BY <1>4
    <2>4. BuyerPhases(buyer, E, e2)
      BY <1>1, <1>4, <1>7, <2>2, <2>3 DEF BuyerPhases
    <2>5. BuyerSends(buyer, E, e4)
      BY <1>5, <1>6, <2>2 DEF BuyerSends
    <2> QED BY <1>6, <1>7, <1>8, <2>1, <2>4, <2>5 DEF BuyerAhead
  <1> QED BY <1>11, <1>12 DEF BuyerOK, e1, e2, e3, e4

(* prepareAndSendClose, after the phase that tells of it if there is one.  *)
ClosePlan == When(buyer.phase = "funded", <<SetPhase("close-required", buyer.pending)>>) \o PrepareAndSendClose

(* The effects of a close, and their stages.                                *)
LEMMA ClosePlanStages ==
  ASSUME buyer \in Sessions, IsFiniteSet(buyer.file), buyer.listed \subseteq buyer.file
  PROVE  LET x == IF HasKind12 THEN SavedKind12 ELSE Artifact("kind12", 0, SignedPayments) IN
         /\ x \in Artifacts /\ x.kind = "kind12"
         /\ HasKind12 => x \in buyer.file
         /\ ~HasKind12 => x.sequence = SignedPayments
         /\ Within(PrepareAndSendClose, 20, 60)
         /\ Within(ClosePlan, 18, 60)
         /\ Ahead(ClosePlan) =
              (IF buyer.phase = "funded" THEN {SetPhase("close-required", buyer.pending)} ELSE {})
              \union Ahead(PrepareAndSendClose)
         /\ Ahead(PrepareAndSendClose) =
              (IF Of(buyer.file, "binding") = {} THEN {Put(Binding)} ELSE {})
              \union (IF ~HasKind12 /\ ~Holds(buyer.file, "signature12", 0)
                      THEN {Put(Artifact("digest12", 0, 0)), Call("assert"), Put(Artifact("signature12", 0, 0))} ELSE {})
              \union (IF ~HasKind12 THEN {Call("assert"), Effect("file", x)} ELSE {})
              \union (IF x \notin buyer.listed THEN {Effect("list", x)} ELSE {})
              \union (IF buyer.phase \notin {"close-requested", "close-unknown", "completed"}
                      THEN {SetPhase("close-requested", 0)} ELSE {})
              \union {Call("assert"), SendFrame(x)}
  <1> DEFINE x == IF HasKind12 THEN SavedKind12 ELSE Artifact("kind12", 0, SignedPayments)
             c1 == Of(buyer.file, "binding") = {}
             c2 == ~HasKind12 /\ ~Holds(buyer.file, "signature12", 0)
             c3 == ~HasKind12
             c4 == x \notin buyer.listed
             c5 == buyer.phase \notin {"close-requested", "close-unknown", "completed"}
             d1 == Put(Binding)
             d2 == Put(Artifact("digest12", 0, 0))
             s2 == Put(Artifact("signature12", 0, 0))
             a0 == Call("assert")
             f3 == Effect("file", x)
             l4 == Effect("list", x)
             p5 == SetPhase("close-requested", 0)
             s6 == SendFrame(x)
             p0 == SetPhase("close-required", buyer.pending)
  <1>1. SignedPayments \in Nat
    BY ListedFinite DEF SignedPayments, Many
  <1>2. "kind12" \in Kinds /\ "binding" \in Kinds /\ "digest12" \in Kinds /\ "signature12" \in Kinds
    BY DEF Kinds
  <1>3. /\ x \in Artifacts /\ x.kind = "kind12"
        /\ HasKind12 => x \in buyer.file
        /\ ~HasKind12 => x.sequence = SignedPayments
    <2>1. CASE HasKind12
      <3>1. SavedKind12 \in buyer.file /\ SavedKind12.kind = "kind12"
        BY <2>1 DEF HasKind12, SavedKind12, Of
      <3> QED BY <2>1, <3>1 DEF Sessions
    <2>2. CASE ~HasKind12
      BY <1>1, <1>2, <2>2, ArtifactShape
    <2> QED BY <2>1, <2>2
  <1>4. /\ d1 \in Effects /\ d1.op = "put" /\ Stage(d1) = 20
    <2>1. Binding \in Artifacts /\ Binding.kind = "binding"
      BY <1>1, <1>2, ArtifactShape DEF Binding
    <2> QED BY <2>1, EffectOf DEF PutStage
  <1>5. /\ d2 \in Effects /\ d2.op = "put" /\ Stage(d2) = 22
        /\ s2 \in Effects /\ s2.op = "put" /\ Stage(s2) = 24
    <2>1. /\ Artifact("digest12", 0, 0) \in Artifacts /\ Artifact("digest12", 0, 0).kind = "digest12"
          /\ Artifact("signature12", 0, 0) \in Artifacts /\ Artifact("signature12", 0, 0).kind = "signature12"
      BY <1>2, ArtifactShape
    <2> QED BY <2>1, EffectOf DEF PutStage
  <1>6. a0 \in Effects /\ a0.op = "assert"
    BY AssertOf
  <1>7. /\ f3 \in Effects /\ f3.op = "file" /\ Stage(f3) = 26
        /\ l4 \in Effects /\ l4.op = "list" /\ Stage(l4) = 28
        /\ s6 \in Effects /\ s6.op = "send" /\ Stage(s6) = 60
    BY <1>3, EffectOf DEF FileStage, SendStage
  <1>8. /\ p5 \in Effects /\ p5.op = "phase" /\ Stage(p5) = 30
        /\ p0 \in Effects /\ p0.op = "phase" /\ Stage(p0) = 18
    <2>1. "close-requested" \in PoolPhases /\ "close-required" \in PoolPhases /\ buyer.pending \in Nat
      BY DEF PoolPhases, BuyerPhaseNames, Sessions
    <2> QED BY <2>1, PhaseOf DEF PhaseStage
  <1>9. PrepareAndSendClose =
          ((((When(c1, <<d1>>) \o When(c2, <<d2, a0, s2>>)) \o When(c3, <<a0, f3>>)) \o When(c4, <<l4>>))
           \o When(c5, <<p5>>)) \o <<a0, s6>>
    BY DEF PrepareAndSendClose
  <1>10. ClosePlan = When(buyer.phase = "funded", <<p0>>) \o PrepareAndSendClose
    BY DEF ClosePlan
  <1> HIDE DEF x, c1, c2, c3, c4, c5, d1, d2, s2, a0, f3, l4, p5, s6, p0
  <1>11. Within(When(c1, <<d1>>), 20, 20) /\ Ahead(When(c1, <<d1>>)) = IF c1 THEN {d1} ELSE {}
    <2>1. Within(<<d1>>, 20, 20) /\ Ahead(<<d1>>) = {d1}
      BY <1>4, OneWithin
    <2> QED BY <2>1, WhenWithin
  <1>12. Within(When(c2, <<d2, a0, s2>>), 22, 24)
         /\ Ahead(When(c2, <<d2, a0, s2>>)) = IF c2 THEN {d2, a0, s2} ELSE {}
    <2>1. Within(<<d2, a0>>, 22, 22) /\ Ahead(<<d2, a0>>) = {d2, a0}
      BY <1>5, <1>6, TwoWithin DEF Before
    <2>2. Within(<<s2>>, 24, 24) /\ Ahead(<<s2>>) = {s2}
      BY <1>5, OneWithin
    <2>3. /\ Within(<<d2, a0>> \o <<s2>>, 22, 24)
          /\ Ahead(<<d2, a0>> \o <<s2>>) = Ahead(<<d2, a0>>) \union Ahead(<<s2>>)
      BY <2>1, <2>2, JoinWithin
    <2>4. <<d2, a0, s2>> = <<d2, a0>> \o <<s2>>
      BY <1>5, <1>6
    <2>5. Within(<<d2, a0, s2>>, 22, 24) /\ Ahead(<<d2, a0, s2>>) = {d2, a0, s2}
      BY <2>1, <2>2, <2>3, <2>4
    <2> QED BY <2>5, WhenWithin
  <1>13. Within(When(c3, <<a0, f3>>), 26, 26) /\ Ahead(When(c3, <<a0, f3>>)) = IF c3 THEN {a0, f3} ELSE {}
    <2>1. Within(<<a0, f3>>, 26, 26) /\ Ahead(<<a0, f3>>) = {a0, f3}
      BY <1>6, <1>7, TwoWithin DEF Before
    <2> QED BY <2>1, WhenWithin
  <1>14. Within(When(c4, <<l4>>), 28, 28) /\ Ahead(When(c4, <<l4>>)) = IF c4 THEN {l4} ELSE {}
    <2>1. Within(<<l4>>, 28, 28) /\ Ahead(<<l4>>) = {l4}
      BY <1>7, OneWithin
    <2> QED BY <2>1, WhenWithin
  <1>15. Within(When(c5, <<p5>>), 30, 30) /\ Ahead(When(c5, <<p5>>)) = IF c5 THEN {p5} ELSE {}
    <2>1. Within(<<p5>>, 30, 30) /\ Ahead(<<p5>>) = {p5}
      BY <1>8, OneWithin
    <2> QED BY <2>1, WhenWithin
  <1>16. Within(<<a0, s6>>, 60, 60) /\ Ahead(<<a0, s6>>) = {a0, s6}
    BY <1>6, <1>7, TwoWithin DEF Before
  <1>17. Within(When(buyer.phase = "funded", <<p0>>), 18, 18)
         /\ Ahead(When(buyer.phase = "funded", <<p0>>)) = IF buyer.phase = "funded" THEN {p0} ELSE {}
    <2>1. Within(<<p0>>, 18, 18) /\ Ahead(<<p0>>) = {p0}
      BY <1>8, OneWithin
    <2> QED BY <2>1, WhenWithin
  <1> DEFINE q1 == When(c1, <<d1>>)
             q2 == q1 \o When(c2, <<d2, a0, s2>>)
             q3 == q2 \o When(c3, <<a0, f3>>)
             q4 == q3 \o When(c4, <<l4>>)
             q5 == q4 \o When(c5, <<p5>>)
             q6 == q5 \o <<a0, s6>>
             q7 == When(buyer.phase = "funded", <<p0>>) \o q6
  <1>18. Within(q2, 20, 24) /\ Ahead(q2) = Ahead(q1) \union Ahead(When(c2, <<d2, a0, s2>>))
    BY <1>11, <1>12, JoinWithin
  <1> HIDE DEF q2
  <1>19. Within(q3, 20, 26) /\ Ahead(q3) = Ahead(q2) \union Ahead(When(c3, <<a0, f3>>))
    BY <1>18, <1>13, JoinWithin
  <1> HIDE DEF q3
  <1>20. Within(q4, 20, 28) /\ Ahead(q4) = Ahead(q3) \union Ahead(When(c4, <<l4>>))
    BY <1>19, <1>14, JoinWithin
  <1> HIDE DEF q4
  <1>21. Within(q5, 20, 30) /\ Ahead(q5) = Ahead(q4) \union Ahead(When(c5, <<p5>>))
    BY <1>20, <1>15, JoinWithin
  <1> HIDE DEF q5
  <1>22. Within(q6, 20, 60) /\ Ahead(q6) = Ahead(q5) \union {a0, s6}
    BY <1>21, <1>16, JoinWithin
  <1> HIDE DEF q6
  <1>23. Within(q7, 18, 60) /\ Ahead(q7) = Ahead(When(buyer.phase = "funded", <<p0>>)) \union Ahead(q6)
    BY <1>22, <1>17, JoinWithin
  <1>24. PrepareAndSendClose = q6 /\ ClosePlan = q7
    BY <1>9, <1>10 DEF q6, q5, q4, q3, q2
  <1> HIDE DEF q7, q1
  <1>25. Ahead(q6) = (IF c1 THEN {d1} ELSE {}) \union (IF c2 THEN {d2, a0, s2} ELSE {})
                     \union (IF c3 THEN {a0, f3} ELSE {}) \union (IF c4 THEN {l4} ELSE {})
                     \union (IF c5 THEN {p5} ELSE {}) \union {a0, s6}
    BY <1>18, <1>19, <1>20, <1>21, <1>22, <1>11, <1>12, <1>13, <1>14, <1>15 DEF q1
  <1>26. Ahead(q7) = (IF buyer.phase = "funded" THEN {p0} ELSE {}) \union Ahead(q6)
    BY <1>23, <1>17
  <1> QED BY <1>3, <1>22, <1>23, <1>24, <1>25, <1>26 DEF x, c1, c2, c3, c4, c5, d1, d2, s2, a0, f3, l4, p5, s6, p0

(* closePool leaves the buyer as it should be, at whatever effect it stops. *)
LEMMA ClosePlanOK ==
  ASSUME buyer \in Sessions, IsFiniteSet(buyer.file), NEW n \in Nat, NEW c, BuyerOK(buyer, n, c, {}),
         ~CloseRefused
  PROVE  /\ Within(PrepareAndSendClose, 20, 60) /\ Within(ClosePlan, 18, 60)
         /\ BuyerOK(buyer, n, c, Ahead(ClosePlan))
         /\ Ending(buyer) => BuyerOK(buyer, n, c, Ahead(PrepareAndSendClose))
  <1> DEFINE x == IF HasKind12 THEN SavedKind12 ELSE Artifact("kind12", 0, SignedPayments)
             E == Ahead(PrepareAndSendClose)
             F == Ahead(ClosePlan)
             d1 == Put(Binding)
             d2 == Put(Artifact("digest12", 0, 0))
             s2 == Put(Artifact("signature12", 0, 0))
             a0 == Call("assert")
             f3 == Effect("file", x)
             l4 == Effect("list", x)
             p5 == SetPhase("close-requested", 0)
             s6 == SendFrame(x)
             p0 == SetPhase("close-required", buyer.pending)
  <1>1. buyer.listed \subseteq buyer.file
    BY DEF BuyerOK, BuyerFiles
  <1>2. /\ x \in Artifacts /\ x.kind = "kind12"
        /\ HasKind12 => x \in buyer.file
        /\ ~HasKind12 => x.sequence = SignedPayments
        /\ Within(PrepareAndSendClose, 20, 60) /\ Within(ClosePlan, 18, 60)
        /\ F = (IF buyer.phase = "funded" THEN {p0} ELSE {}) \union E
        /\ \A e \in E : e \in {d1, d2, s2, a0, f3, l4, p5, s6}
        /\ (Of(buyer.file, "binding") = {} => d1 \in E) /\ (f3 \in E => ~HasKind12)
        /\ (~HasKind12 => f3 \in E)
        /\ (buyer.phase \notin {"close-requested", "close-unknown", "completed"} => p5 \in E)
    <2>1. /\ x \in Artifacts /\ x.kind = "kind12"
          /\ HasKind12 => x \in buyer.file
          /\ ~HasKind12 => x.sequence = SignedPayments
          /\ Within(PrepareAndSendClose, 20, 60) /\ Within(ClosePlan, 18, 60)
          /\ F = (IF buyer.phase = "funded" THEN {p0} ELSE {}) \union E
      BY <1>1, ClosePlanStages
    <2>2. E = (IF Of(buyer.file, "binding") = {} THEN {d1} ELSE {})
              \union (IF ~HasKind12 /\ ~Holds(buyer.file, "signature12", 0) THEN {d2, a0, s2} ELSE {})
              \union (IF ~HasKind12 THEN {a0, f3} ELSE {})
              \union (IF x \notin buyer.listed THEN {l4} ELSE {})
              \union (IF buyer.phase \notin {"close-requested", "close-unknown", "completed"} THEN {p5} ELSE {})
              \union {a0, s6}
      BY <1>1, ClosePlanStages
    <2>3. /\ f3 \notin {d1, d2, s2, a0, l4, p5, s6}
      BY DEF Put, Effect, Call, SetPhase, SendFrame
    <2> HIDE DEF x, E, F, d1, d2, s2, a0, f3, l4, p5, s6, p0
    <2> QED BY <2>1, <2>2, <2>3
  <1>3. SignedPayments \in Nat
    BY <1>1, ListedFinite DEF SignedPayments, Many
  <1>4. /\ d1 = Put(Artifact("binding", 0, SignedPayments)) /\ d1.op = "put" /\ d1.artifact.kind = "binding"
        /\ d2.op = "put" /\ d2.artifact.kind = "digest12" /\ s2.op = "put" /\ s2.artifact.kind = "signature12"
    BY DEF Binding, Put, Effect, Artifact
  <1>5. a0.op = "assert"
    BY AssertOf
  <1>6. /\ f3.op = "file" /\ f3.artifact = x /\ l4.op = "list" /\ l4.artifact = x /\ s6.op = "send" /\ s6.artifact = x
    BY <1>2, EffectOf
  <1>7. /\ p5.op = "phase" /\ p5.phase = "close-requested" /\ p5.pending = 0
        /\ p0.op = "phase" /\ p0.phase = "close-required" /\ p0.pending = buyer.pending
    BY DEF SetPhase
  <1>8. f3 \in E =>
          \/ \E y \in Of(buyer.file, "binding") : y.sequence = x.sequence
          \/ Put(Artifact("binding", 0, x.sequence)) \in E
    <2> SUFFICES ASSUME f3 \in E, Of(buyer.file, "binding") # {}
                 PROVE  \E y \in Of(buyer.file, "binding") : y.sequence = x.sequence
      BY <1>2, <1>4
    <2>1. x.sequence = SignedPayments
      BY <1>2
    <2>2. PICK y \in Of(buyer.file, "binding") : y = Binding
      BY DEF CloseRefused
    <2>3. y.sequence = SignedPayments
      BY <2>2 DEF Binding, Artifact
    <2> QED BY <2>1, <2>3
  <1>9. Ending(buyer) \/ p5 \in E
    BY <1>2 DEF Ending, EndPhases
  <1> HIDE DEF x, E, F, d1, d2, s2, a0, f3, l4, p0, s6
  <1>10. ASSUME NEW G, E \subseteq G, NEW e \in E
         PROVE  /\ e.op \in {"put", "file", "list", "phase", "send", "assert", "observe"}
                /\ e.op = "put" => BuyerPuts(buyer, G, e)
                /\ e.op = "file" => BuyerFilesOne(buyer, n, G, e)
                /\ e.op = "list" => BuyerLists(buyer, G, e)
                /\ e.op = "phase" => BuyerPhases(buyer, G, e)
                /\ e.op = "send" => BuyerSends(buyer, G, e)
                /\ e.op # "observe"
    <2>1. CASE e \in {d1, d2, s2, a0}
      BY <1>4, <1>5, <2>1 DEF BuyerPuts
    <2>2. CASE e = f3
      BY <1>2, <1>6, <1>8, <1>10, <2>2 DEF BuyerFilesOne
    <2>3. CASE e = l4
      <3>1. x \in buyer.file \/ Effect("file", x) \in G
        BY <1>2, <1>10 DEF f3
      <3> QED BY <1>2, <1>6, <2>3, <3>1 DEF BuyerLists
    <2>4. CASE e = p5
      BY <1>7, <2>4 DEF BuyerPhases, EndPhases
    <2>5. CASE e = s6
      BY <1>2, <1>6, <1>9, <1>10, <2>5 DEF BuyerSends
    <2> QED BY <1>2, <2>1, <2>2, <2>3, <2>4, <2>5
  <1>11. BuyerAhead(buyer, n, F)
    <2>1. ASSUME buyer.phase = "funded" PROVE BuyerPhases(buyer, F, p0)
      <3>1. buyer.pending = 0
        BY <2>1 DEF BuyerOK, BuyerRecord
      <3> QED BY <1>7, <3>1 DEF BuyerPhases, EndPhases
    <2>2. \A e \in F : e \in E \/ (e = p0 /\ buyer.phase = "funded")
      BY <1>2
    <2>3. E \subseteq F
      BY <1>2
    <2> QED BY <1>7, <1>10, <2>1, <2>2, <2>3 DEF BuyerAhead
  <1>12. BuyerAhead(buyer, n, E)
    BY <1>10 DEF BuyerAhead
  <1> QED BY <1>2, <1>11, <1>12 DEF BuyerOK, E, F

(* A close that is refused: only the phase is set.                         *)
LEMMA CloseRequiredPlan ==
  ASSUME buyer \in Sessions, NEW n \in Nat, NEW c, BuyerOK(buyer, n, c, {})
  PROVE  LET plan == When(buyer.phase = "funded", <<SetPhase("close-required", buyer.pending)>>) \o <<>>
         IN  Within(plan, 2, 80) /\ BuyerOK(buyer, n, c, Ahead(plan))
  <1> DEFINE p0 == SetPhase("close-required", buyer.pending)
             w == When(buyer.phase = "funded", <<p0>>)
             plan == w \o <<>>
  <1>1. /\ p0 \in Effects /\ p0.op = "phase" /\ p0.phase = "close-required" /\ p0.pending = buyer.pending
        /\ Stage(p0) = 18
    <2>1. "close-required" \in PoolPhases /\ buyer.pending \in Nat
      BY DEF PoolPhases, BuyerPhaseNames, Sessions
    <2> QED BY <2>1, PhaseOf DEF PhaseStage
  <1>2. ASSUME buyer.phase = "funded", NEW E PROVE BuyerPhases(buyer, E, p0)
    <2>1. buyer.pending = 0
      BY <1>2 DEF BuyerOK, BuyerRecord
    <2> QED BY <1>1, <2>1 DEF BuyerPhases, EndPhases
  <1> HIDE DEF p0
  <1>3. Within(w, 2, 78) /\ Ahead(w) = IF buyer.phase = "funded" THEN {p0} ELSE {}
    <2>1. Within(<<p0>>, 2, 78) /\ Ahead(<<p0>>) = {p0}
      BY <1>1, OneWithin
    <2> QED BY <2>1, WhenWithin
  <1> HIDE DEF w
  <1>4. w \in Seq(Effects)
    BY <1>3 DEF Within
  <1>5. plan = w
    BY <1>4
  <1>6. Within(plan, 2, 80) /\ Ahead(plan) = IF buyer.phase = "funded" THEN {p0} ELSE {}
    BY <1>3, <1>5, WithinAll
  <1>7. BuyerAhead(buyer, n, Ahead(plan))
    BY <1>1, <1>2, <1>6 DEF BuyerAhead
  <1> QED BY <1>6, <1>7 DEF BuyerOK, w, p0

(* A frame that is sent again.                                             *)
LEMMA ReplayPlan ==
  ASSUME buyer \in Sessions, NEW n \in Nat, NEW c, BuyerOK(buyer, n, c, {}), NEW x \in Artifacts,
         \/ x.kind = "kind7" /\ x \in buyer.file
         \/ x.kind = "kind12" /\ Ending(buyer)
  PROVE  Within(<<SendFrame(x)>>, 2, 80) /\ BuyerOK(buyer, n, c, Ahead(<<SendFrame(x)>>))
  <1> DEFINE e == SendFrame(x)
  <1>1. e \in Effects /\ e.op = "send" /\ e.artifact = x /\ Stage(e) \in {14, 60}
    BY EffectOf DEF SendStage
  <1> HIDE DEF e
  <1>2. Within(<<e>>, 2, 80) /\ Ahead(<<e>>) = {e}
    BY <1>1, OneWithin
  <1>3. BuyerAhead(buyer, n, {e})
    BY <1>1 DEF BuyerAhead, BuyerSends
  <1> QED BY <1>2, <1>3 DEF BuyerOK, e

(* A handler that does nothing.                                             *)
LEMMA NothingPlan ==
  ASSUME NEW n, NEW c, BuyerOK(buyer, n, c, {})
  PROVE  Within(<<>>, 2, 80) /\ BuyerOK(buyer, n, c, Ahead(<<>>))
  BY NoneWithin

(* handleOpeningResponse: the proof of funding and the request.            *)
LEMMA ReopenPlan ==
  ASSUME buyer \in Sessions, NEW n \in Nat, NEW c, BuyerOK(buyer, n, c, {})
  PROVE  LET x == CHOOSE e \in buyer.file : e.kind = "kind5" /\ e.auth = buyer.pending
             plan == <<SendFrame(Kind4)>> \o When(buyer.pending # 0, <<SendFrame(x)>>)
         IN  Within(plan, 2, 80) /\ BuyerOK(buyer, n, c, Ahead(plan))
  <1> DEFINE x == CHOOSE e \in buyer.file : e.kind = "kind5" /\ e.auth = buyer.pending
             e1 == SendFrame(Kind4)
             e2 == SendFrame(x)
             w == When(buyer.pending # 0, <<e2>>)
             plan == <<e1>> \o w
  <1>1. e1 \in Effects /\ e1.op = "send" /\ e1.artifact.kind = "kind4" /\ Stage(e1) = 56
    <2>1. Kind4 \in Artifacts /\ Kind4.kind = "kind4"
      <3>1. "kind4" \in Kinds
        BY DEF Kinds
      <3> QED BY <3>1, ArtifactShape DEF Kind4
    <2> QED BY <2>1, EffectOf DEF SendStage
  <1>2. ASSUME buyer.pending # 0
        PROVE  /\ e2 \in Effects /\ e2.op = "send" /\ e2.artifact.kind = "kind5" /\ e2.artifact \in buyer.file
               /\ Stage(e2) = 60
    <2>1. \E e \in buyer.file : e.kind = "kind5" /\ e.auth = buyer.pending
      BY <1>2 DEF BuyerOK, BuyerRecord, Of
    <2>2. x \in buyer.file /\ x.kind = "kind5"
      BY <2>1
    <2>3. x \in Artifacts
      BY <2>2 DEF Sessions
    <2> HIDE DEF x
    <2> QED BY <2>2, <2>3, EffectOf DEF SendStage
  <1> HIDE DEF e1, e2, x
  <1>3. Within(<<e1>>, 2, 58) /\ Ahead(<<e1>>) = {e1}
    BY <1>1, OneWithin
  <1>4. Within(w, 60, 80) /\ Ahead(w) = IF buyer.pending # 0 THEN {e2} ELSE {}
    <2>1. CASE buyer.pending # 0
      <3>1. Within(<<e2>>, 60, 80) /\ Ahead(<<e2>>) = {e2}
        BY <1>2, <2>1, OneWithin
      <3> QED BY <2>1, <3>1 DEF When
    <2>2. CASE buyer.pending = 0
      BY <2>2, NoneWithin DEF When
    <2> QED BY <2>1, <2>2
  <1> HIDE DEF w
  <1>5. Within(plan, 2, 80) /\ Ahead(plan) = Ahead(<<e1>>) \union Ahead(w)
    BY <1>3, <1>4, JoinWithin
  <1>6. \A e \in Ahead(plan) : e = e1 \/ (e = e2 /\ buyer.pending # 0)
    BY <1>3, <1>4, <1>5
  <1>7. BuyerAhead(buyer, n, Ahead(plan))
    BY <1>1, <1>2, <1>6 DEF BuyerAhead, BuyerSends
  <1> QED BY <1>5, <1>7 DEF BuyerOK, w, e1, e2, x

(* The close is looked for, and kept first when it has just come.          *)
LEMMA CloseUnknownStages ==
  ASSUME buyer \in Sessions
  PROVE  LET p1 == SetPhase("close-unknown", buyer.pending)
             o2 == Call("observe")
         IN  /\ Within(CloseUnknown, 34, 36)
             /\ Ahead(CloseUnknown) = (IF buyer.phase # "completed" THEN {p1} ELSE {}) \union {o2}
             /\ p1.op = "phase" /\ p1.phase = "close-unknown" /\ p1.pending = buyer.pending
             /\ o2.op = "observe"
  <1> DEFINE p1 == SetPhase("close-unknown", buyer.pending)
             o2 == Call("observe")
             w == When(buyer.phase # "completed", <<p1>>)
  <1>1. /\ p1 \in Effects /\ p1.op = "phase" /\ p1.phase = "close-unknown" /\ p1.pending = buyer.pending
        /\ Stage(p1) = 34
    <2>1. "close-unknown" \in PoolPhases /\ buyer.pending \in Nat
      BY DEF PoolPhases, BuyerPhaseNames, Sessions
    <2> QED BY <2>1, PhaseOf DEF PhaseStage
  <1>2. o2 \in Effects /\ o2.op = "observe" /\ Stage(o2) = 36
    <2>1. "observe" \in Ops
      BY DEF Ops
    <2>2. o2 \in Effects /\ o2.op = "observe"
      BY <2>1, CallShape
    <2> QED BY <2>2 DEF Stage, CallStage
  <1> HIDE DEF p1, o2
  <1>3. Within(w, 34, 34) /\ Ahead(w) = IF buyer.phase # "completed" THEN {p1} ELSE {}
    <2>1. Within(<<p1>>, 34, 34) /\ Ahead(<<p1>>) = {p1}
      BY <1>1, OneWithin
    <2> QED BY <2>1, WhenWithin
  <1> HIDE DEF w
  <1>4. Within(<<o2>>, 36, 36) /\ Ahead(<<o2>>) = {o2}
    BY <1>2, OneWithin
  <1>5. Within(w \o <<o2>>, 34, 36) /\ Ahead(w \o <<o2>>) = Ahead(w) \union Ahead(<<o2>>)
    BY <1>3, <1>4, JoinWithin
  <1>6. CloseUnknown = w \o <<o2>>
    BY DEF CloseUnknown, w, p1, o2
  <1> QED BY <1>1, <1>2, <1>3, <1>4, <1>5, <1>6 DEF p1, o2

(* recoverClose of a close that the seller has answered.                    *)
LEMMA CloseUnknownPlan ==
  ASSUME buyer \in Sessions, NEW n \in Nat, NEW c, BuyerOK(buyer, n, c, {}), Of(buyer.file, "kind13") # {}
  PROVE  Within(CloseUnknown, 2, 80) /\ BuyerOK(buyer, n, c, Ahead(CloseUnknown))
  <1> DEFINE p1 == SetPhase("close-unknown", buyer.pending)
             o2 == Call("observe")
  <1>1. /\ Within(CloseUnknown, 34, 36)
        /\ \A e \in Ahead(CloseUnknown) : e \in {p1, o2}
        /\ p1.op = "phase" /\ p1.phase = "close-unknown" /\ p1.pending = buyer.pending
        /\ o2.op = "observe"
    BY CloseUnknownStages
  <1>2. Ending(buyer) /\ CloseOf(buyer) \in buyer.file /\ buyer.pending = 0
    BY DEF BuyerOK, BuyerRecord, Of, Ending, EndPhases
  <1> HIDE DEF p1, o2
  <1>3. Within(CloseUnknown, 2, 80)
    BY <1>1, WithinAll
  <1>4. BuyerAhead(buyer, n, Ahead(CloseUnknown))
    BY <1>1, <1>2 DEF BuyerAhead, BuyerPhases, EndPhases
  <1> QED BY <1>3, <1>4 DEF BuyerOK

(* handleCloseResponse.                                                    *)
LEMMA CloseResponsePlan ==
  ASSUME buyer \in Sessions, IsFiniteSet(buyer.file), NEW n \in Nat, NEW c, BuyerOK(buyer, n, c, {}),
         NEW x \in Artifacts, x.kind = "kind13", x.auth = 0, Ending(buyer),
         Of(buyer.listed, "kind12") = {Artifact("kind12", 0, x.sequence)}, BoundClose
  PROVE  LET plan == <<Call("assert")>> \o When(x \notin buyer.listed, <<Put(x)>>) \o CloseUnknown
         IN  Within(plan, 2, 80) /\ BuyerOK(buyer, n, c, Ahead(plan))
  <1> DEFINE a0 == Call("assert")
             d1 == Put(x)
             p1 == SetPhase("close-unknown", buyer.pending)
             o2 == Call("observe")
             w == When(x \notin buyer.listed, <<d1>>)
             q == <<a0>> \o w
             plan == q \o CloseUnknown
  <1>1. /\ Within(CloseUnknown, 34, 36)
        /\ Ahead(CloseUnknown) = (IF buyer.phase # "completed" THEN {p1} ELSE {}) \union {o2}
        /\ p1.op = "phase" /\ p1.phase = "close-unknown" /\ p1.pending = buyer.pending
        /\ o2.op = "observe"
    BY CloseUnknownStages
  <1>2. x = CloseOf(buyer)
    <2>1. Artifact("kind12", 0, x.sequence) \in Of(buyer.file, "kind12")
      BY DEF BuyerOK, BuyerFiles, Of
    <2>2. PICK y \in Of(buyer.file, "binding") : y.sequence = x.sequence
      BY <2>1 DEF BuyerOK, BuyerRecord, Artifact
    <2>3. y = Binding
      BY <2>2 DEF BoundClose
    <2>4. x.sequence = Many(buyer.listed, "kind7")
      BY <2>2, <2>3 DEF Binding, Artifact, SignedPayments, Many
    <2> QED BY <2>4, ArtifactIs DEF CloseOf
  <1>3. buyer.pending = 0 /\ buyer.listed \subseteq buyer.file
    BY DEF BuyerOK, BuyerRecord, BuyerFiles, Ending, EndPhases
  <1>4. d1 \in Effects /\ d1.op = "put" /\ d1.artifact = x /\ Stage(d1) = 32
    BY EffectOf DEF PutStage
  <1>5. a0 \in Effects /\ a0.op = "assert"
    BY AssertOf
  <1> HIDE DEF a0, d1, p1, o2
  <1>6. Within(<<a0>>, 2, 2) /\ Ahead(<<a0>>) = {a0}
    BY <1>5, OneWithin
  <1>7. Within(w, 32, 32) /\ Ahead(w) = IF x \notin buyer.listed THEN {d1} ELSE {}
    <2>1. Within(<<d1>>, 32, 32) /\ Ahead(<<d1>>) = {d1}
      BY <1>4, OneWithin
    <2> QED BY <2>1, WhenWithin
  <1> HIDE DEF w
  <1>8. Within(q, 2, 32) /\ Ahead(q) = Ahead(<<a0>>) \union Ahead(w)
    BY <1>6, <1>7, JoinWithin
  <1> HIDE DEF q
  <1>9. Within(plan, 2, 36) /\ Ahead(plan) = Ahead(q) \union Ahead(CloseUnknown)
    BY <1>1, <1>8, JoinWithin
  <1> HIDE DEF plan
  <1>10. Within(plan, 2, 80)
    BY <1>9, WithinAll
  <1>11. /\ \A e \in Ahead(plan) : e \in {a0, d1, p1, o2}
         /\ x \in buyer.file \/ d1 \in Ahead(plan)
    BY <1>1, <1>3, <1>6, <1>7, <1>8, <1>9
  <1>12. BuyerAhead(buyer, n, Ahead(plan))
    <2>1. CloseOf(buyer) \in buyer.file \/ Put(CloseOf(buyer)) \in Ahead(plan)
      BY <1>2, <1>11 DEF d1
    <2>2. \A E : BuyerPuts(buyer, E, d1)
      BY <1>2, <1>4 DEF BuyerPuts
    <2>3. \A E : BuyerPhases(buyer, E, p1)
      BY <1>1, <1>3 DEF BuyerPhases, EndPhases
    <2> QED BY <1>1, <1>4, <1>5, <1>11, <2>1, <2>2, <2>3 DEF BuyerAhead
  <1>13. plan = (<<Call("assert")>> \o When(x \notin buyer.listed, <<Put(x)>>)) \o CloseUnknown
    BY DEF plan, q, w, a0, d1
  <1> QED BY <1>10, <1>12, <1>13 DEF BuyerOK

(* handleContentDelivery: the payment of the delivery that is pending.     *)
LEMMA PaymentPlan ==
  ASSUME buyer \in Sessions, IsFiniteSet(buyer.file), NEW n \in Nat, NEW c, BuyerOK(buyer, n, c, {}),
         NEW y \in Artifacts, Asked(buyer, n, y), buyer.pending = y.auth,
         NEW x, x = Artifact("kind7", y.auth, y.sequence), x \notin buyer.file, NEW complete \in BOOLEAN
  PROVE  LET sign == When(~Holds(buyer.file, "signature7", y.auth),
                          <<Put(Artifact("digest7", y.auth, 0)), Call("assert"), Put(Artifact("signature7", y.auth, 0))>>)
             ended == IF complete THEN <<SetPhase("content-committing", 0), SetPhase("close-required", 0)>>
                      ELSE <<SetPhase("funded", 0)>>
             plan == sign \o <<Call("assert"), Effect("file", x), Effect("list", x), Call("assert"), SendFrame(x)>>
                          \o ended
         IN  Within(plan, 2, 80) /\ BuyerOK(buyer, n, c, Ahead(plan))
  <1> DEFINE d1 == Put(Artifact("digest7", y.auth, 0))
             a0 == Call("assert")
             s1 == Put(Artifact("signature7", y.auth, 0))
             f2 == Effect("file", x)
             l3 == Effect("list", x)
             s4 == SendFrame(x)
             p5 == SetPhase("content-committing", 0)
             p6 == SetPhase("close-required", 0)
             p7 == SetPhase("funded", 0)
             sign == When(~Holds(buyer.file, "signature7", y.auth), <<d1, a0, s1>>)
             pay == <<a0, f2, l3, a0, s4>>
             ended == IF complete THEN <<p5, p6>> ELSE <<p7>>
             half == sign \o pay
             plan == half \o ended
  <1>1. x \in Artifacts /\ x.kind = "kind7" /\ x.auth = y.auth /\ x.sequence = y.sequence
    <2>1. "kind7" \in Kinds /\ y.auth \in Nat /\ y.sequence \in Nat
      BY ArtifactIs DEF Kinds
    <2> QED BY <2>1, ArtifactShape
  <1>2. /\ Kind5Of(x) = Kind5Of(y) /\ Kind5Of(y) \in Of(buyer.file, "kind5") /\ Kind5Of(y).auth = y.auth
        /\ Kind7Of(Kind5Of(y)) = x
    BY <1>1, ArtifactIs DEF Asked, Of, Kind5Of, Kind7Of
  <1>3. y.auth # 0
    <2>1. y.auth \in 1 .. Many(buyer.file, "kind5") /\ Many(buyer.file, "kind5") \in Nat
      BY <1>2, ManyIsNat DEF BuyerOK, BuyerFiles
    <2> QED BY <2>1
  <1>4. /\ buyer.phase = "request-prepared" /\ ~Ending(buyer)
        /\ x.sequence = Many(buyer.file, "kind7") + 1 /\ Unlisted(buyer) = {}
    <2>1. PICK z \in Of(buyer.file, "kind5") :
            /\ z.auth = buyer.pending
            /\ Kind7Of(z) \in buyer.file \/ (z.sequence = Many(buyer.file, "kind7") + 1 /\ Unlisted(buyer) = {})
      BY <1>3 DEF BuyerOK, BuyerRecord
    <2>2. z = Kind5Of(y)
      BY <1>2, <2>1 DEF BuyerOK, BuyerFiles
    <2>3. z.sequence = y.sequence
      BY <2>2, ArtifactIs
    <2> QED BY <1>1, <1>2, <1>3, <2>1, <2>2, <2>3 DEF BuyerOK, BuyerRecord, Ending, EndPhases
  <1>5. /\ d1 \in Effects /\ d1.op = "put" /\ d1.artifact.kind = "digest7" /\ Stage(d1) = 6
        /\ s1 \in Effects /\ s1.op = "put" /\ s1.artifact.kind = "signature7" /\ Stage(s1) = 8
    <2>1. y.auth \in Nat /\ "digest7" \in Kinds /\ "signature7" \in Kinds
      BY ArtifactIs DEF Kinds
    <2>2. /\ Artifact("digest7", y.auth, 0) \in Artifacts /\ Artifact("digest7", y.auth, 0).kind = "digest7"
          /\ Artifact("signature7", y.auth, 0) \in Artifacts /\ Artifact("signature7", y.auth, 0).kind = "signature7"
      BY <2>1, ArtifactShape
    <2> QED BY <2>2, EffectOf DEF PutStage
  <1>6. a0 \in Effects /\ a0.op = "assert"
    BY AssertOf
  <1>7. /\ f2 \in Effects /\ f2.op = "file" /\ f2.artifact = x /\ Stage(f2) = 10
        /\ l3 \in Effects /\ l3.op = "list" /\ l3.artifact = x /\ Stage(l3) = 12
        /\ s4 \in Effects /\ s4.op = "send" /\ s4.artifact = x /\ Stage(s4) = 14
    BY <1>1, EffectOf DEF FileStage, SendStage
  <1>8. /\ p5 \in Effects /\ p5.op = "phase" /\ p5.phase = "content-committing" /\ p5.pending = 0 /\ Stage(p5) = 16
        /\ p6 \in Effects /\ p6.op = "phase" /\ p6.phase = "close-required" /\ p6.pending = 0 /\ Stage(p6) = 18
        /\ p7 \in Effects /\ p7.op = "phase" /\ p7.phase = "funded" /\ p7.pending = 0 /\ Stage(p7) = 16
    <2>1. "content-committing" \in PoolPhases /\ "close-required" \in PoolPhases /\ "funded" \in PoolPhases
      BY DEF PoolPhases, BuyerPhaseNames
    <2> QED BY <2>1, PhaseOf DEF PhaseStage
  <1>9. f2 = Effect("file", x) /\ l3 = Effect("list", x)
    OBVIOUS
  <1> HIDE DEF d1, a0, s1, f2, l3, s4, p5, p6, p7
  <1>10. Within(sign, 6, 8) /\ \A e \in Ahead(sign) : e \in {d1, a0, s1}
    <2>1. Within(<<d1, a0>>, 6, 6) /\ Ahead(<<d1, a0>>) = {d1, a0}
      BY <1>5, <1>6, TwoWithin DEF Before
    <2>2. Within(<<s1>>, 8, 8) /\ Ahead(<<s1>>) = {s1}
      BY <1>5, OneWithin
    <2>3. /\ Within(<<d1, a0>> \o <<s1>>, 6, 8)
          /\ Ahead(<<d1, a0>> \o <<s1>>) = Ahead(<<d1, a0>>) \union Ahead(<<s1>>)
      BY <2>1, <2>2, JoinWithin
    <2>4. <<d1, a0, s1>> = <<d1, a0>> \o <<s1>>
      BY <1>5, <1>6
    <2>5. Within(<<d1, a0, s1>>, 6, 8) /\ Ahead(<<d1, a0, s1>>) = {d1, a0, s1}
      BY <2>1, <2>2, <2>3, <2>4
    <2>6. Within(sign, 6, 8) /\ Ahead(sign) = IF ~Holds(buyer.file, "signature7", y.auth) THEN {d1, a0, s1} ELSE {}
      BY <2>5, WhenWithin
    <2> QED BY <2>6
  <1>11. Within(pay, 10, 14) /\ Ahead(pay) = {a0, f2, l3, s4}
    <2>1. Within(<<a0, f2>>, 10, 10) /\ Ahead(<<a0, f2>>) = {a0, f2}
      BY <1>6, <1>7, TwoWithin DEF Before
    <2>2. Within(<<l3, a0>>, 12, 12) /\ Ahead(<<l3, a0>>) = {l3, a0}
      BY <1>6, <1>7, TwoWithin DEF Before
    <2>3. Within(<<s4>>, 14, 14) /\ Ahead(<<s4>>) = {s4}
      BY <1>7, OneWithin
    <2>4. /\ Within(<<a0, f2>> \o <<l3, a0>>, 10, 12)
          /\ Ahead(<<a0, f2>> \o <<l3, a0>>) = Ahead(<<a0, f2>>) \union Ahead(<<l3, a0>>)
      BY <2>1, <2>2, JoinWithin
    <2>5. /\ Within((<<a0, f2>> \o <<l3, a0>>) \o <<s4>>, 10, 14)
          /\ Ahead((<<a0, f2>> \o <<l3, a0>>) \o <<s4>>) = Ahead(<<a0, f2>> \o <<l3, a0>>) \union Ahead(<<s4>>)
      BY <2>3, <2>4, JoinWithin
    <2>6. pay = (<<a0, f2>> \o <<l3, a0>>) \o <<s4>>
      BY <1>6, <1>7
    <2> QED BY <2>1, <2>2, <2>3, <2>4, <2>5, <2>6
  <1>12. Within(ended, 16, 80) /\ \A e \in Ahead(ended) : e \in {p5, p6, p7}
    <2>1. Within(<<p5, p6>>, 16, 80) /\ Ahead(<<p5, p6>>) = {p5, p6}
      BY <1>8, TwoWithin DEF Before
    <2>2. Within(<<p7>>, 16, 80) /\ Ahead(<<p7>>) = {p7}
      BY <1>8, OneWithin
    <2> QED BY <2>1, <2>2
  <1> HIDE DEF sign, pay, ended
  <1>13. Within(half, 6, 14) /\ Ahead(half) = Ahead(sign) \union Ahead(pay)
    BY <1>10, <1>11, JoinWithin
  <1> HIDE DEF half
  <1>14. Within(plan, 6, 80) /\ Ahead(plan) = Ahead(half) \union Ahead(ended)
    BY <1>12, <1>13, JoinWithin
  <1> HIDE DEF plan
  <1>15. /\ \A e \in Ahead(plan) : e \in {d1, a0, s1, f2, l3, s4, p5, p6, p7}
         /\ f2 \in Ahead(plan) /\ l3 \in Ahead(plan)
    BY <1>10, <1>11, <1>12, <1>13, <1>14
  <1>16. BuyerAhead(buyer, n, Ahead(plan))
    <2> DEFINE E == Ahead(plan)
    <2>1. Effect("file", x) \in E /\ Effect("list", x) \in E
      BY <1>9, <1>15
    <2>2. BuyerPuts(buyer, E, d1) /\ BuyerPuts(buyer, E, s1)
      BY <1>5 DEF BuyerPuts
    <2>3. Kind5Of(x) \in buyer.file /\ x.sequence <= n + 1
      BY <1>1, <1>2 DEF Asked
    <2>4. BuyerFilesOne(buyer, n, E, f2)
      BY <1>1, <1>3, <1>4, <1>7, <2>1, <2>3 DEF BuyerFilesOne
    <2>5. BuyerLists(buyer, E, l3)
      BY <1>1, <1>3, <1>7, <2>1 DEF BuyerLists
    <2>6. BuyerSends(buyer, E, s4)
      BY <1>1, <1>7, <2>1 DEF BuyerSends
    <2>7. BuyerPhases(buyer, E, p5) /\ BuyerPhases(buyer, E, p6) /\ BuyerPhases(buyer, E, p7)
      BY <1>4, <1>8 DEF BuyerPhases
    <2> HIDE DEF E
    <2>8. BuyerAhead(buyer, n, E)
      BY <1>5, <1>6, <1>7, <1>8, <1>15, <2>2, <2>4, <2>5, <2>6, <2>7 DEF BuyerAhead, E
    <2> QED BY <2>8 DEF E
  <1>17. Within(plan, 2, 80)
    BY <1>14, WithinAll
  <1>18. BuyerOK(buyer, n, c, Ahead(plan))
    BY <1>16 DEF BuyerOK
  <1> QED BY <1>17, <1>18 DEF plan, half, sign, pay, ended, d1, a0, s1, f2, l3, s4, p5, p6, p7

-----------------------------------------------------------------------------
(* The seller: what the buyer does, and a handler that stops.              *)

LEMMA SellerStays ==
  ASSUME NEW s, NEW n, NEW c, NEW E, NEW b, NEW d, NEW crashes, NEW k,
         SellerOK(s, n, c, E, b, crashes), b.file \subseteq d.file, Ending(b) => Ending(d), k = 0 => crashes = 0
  PROVE  SellerOK(s, n, c, E, d, k)
  <1>1. SellerFiles(s, n, d)
    BY DEF SellerOK, SellerFiles, Asked
  <1>2. ASSUME NEW e \in E, e.op = "put" PROVE SellerPuts(s, n, E, d, e)
    <2>1. SellerPuts(s, n, E, b, e)
      BY <1>2 DEF SellerOK, SellerAhead
    <2> QED BY <2>1 DEF SellerPuts, Asked
  <1>3. ASSUME NEW e \in E, e.op = "send" PROVE SellerSends(n, d, e)
    <2>1. SellerSends(n, b, e)
      BY <1>3 DEF SellerOK, SellerAhead
    <2> QED BY <2>1 DEF SellerSends, Asked
  <1>4. SellerAhead(s, n, E, d)
    BY <1>2, <1>3 DEF SellerOK, SellerAhead
  <1> QED BY <1>1, <1>4 DEF SellerOK

(* The frames in flight stay true when the buyer has written, and the       *)
(* seller countersigned, more.                                              *)
LEMMA FramesStay ==
  ASSUME NEW b, NEW d, NEW n \in Nat, NEW m \in Nat, NEW S, NEW B, FramesOK(b, n, S, B),
         \A x \in B : x \in Artifacts,
         b.file \subseteq d.file, Ending(b) => Ending(d), n <= m
  PROVE  FramesOK(d, m, S, B)
  <1>1. ASSUME NEW x \in B, x.kind = "kind6" PROVE Asked(d, m, x)
    <2>1. Asked(b, n, x) /\ x.sequence \in Nat
      BY <1>1, ArtifactIs DEF FramesOK
    <2> QED BY <2>1 DEF Asked
  <1> QED BY <1>1 DEF FramesOK

(* A seller whose handler stops is as it should be.                         *)
LEMMA SellerRests ==
  ASSUME NEW s, NEW n, NEW c, NEW E, NEW b, NEW crashes, SellerOK(s, n, c, E, b, crashes), NEW k, k # 0
  PROVE  SellerOK(s, n, c, {}, b, k)
  BY DEF SellerOK, SellerAhead

(* ... at an effect after which the seller tells and lists nothing, or at   *)
(* an answer it awaits.                                                    *)
LEMMA SellerStops ==
  ASSUME NEW s, NEW n, NEW c, NEW e \in Effects, NEW T, NEW b, NEW crashes,
         SellerOK(s, n, c, {e} \union T, b, crashes), \A f \in T : f \in Effects /\ Before(e, f),
         e.op = "await" \/ (e.op \in {"send", "exchange", "fail"} /\ Stage(e) >= 44)
  PROVE  SellerOK(s, n, c, {}, b, crashes)
  <1> DEFINE E == {e} \union T
  <1>1. SellerAhead(s, n, {}, b)
    BY DEF SellerAhead
  <1>2. ASSUME crashes = 0 PROVE SellerSettles(s, n, {})
    <2>1. SellerSettles(s, n, E)
      BY <1>2 DEF SellerOK
    <2>2. Stage(e) \in Nat /\ \A f \in T : Stage(f) \in Nat /\ (f.op # "assert" => Stage(e) < Stage(f))
      <3>1. \A f \in Effects : Stage(f) \in Nat
        BY StageIsNat
      <3> QED BY <3>1 DEF Before
    <2>3. ~Tells(E)
      <3>1. CASE e.op = "await"
        BY <3>1 DEF Tells
      <3>2. CASE Stage(e) >= 44
        <4> SUFFICES ASSUME NEW f \in E, f.op = "phase", f.phase = "close-unknown" PROVE FALSE
          BY DEF Tells, WillTell
        <4>1. Stage(f) = 34
          BY DEF Stage, PhaseStage
        <4> QED BY <2>2, <3>2, <4>1
      <3> QED BY <3>1, <3>2
    <2>4. \A f \in E : f.op \notin {"file", "list"}
      <3> SUFFICES ASSUME NEW f \in E, f.op \in {"file", "list"} PROVE FALSE
        OBVIOUS
      <3>1. CASE e.op = "await"
        <4>1. f \in T /\ Stage(f) < Stage(e)
          BY <3>1 DEF SellerOK, SellerAhead, SellerAwaits
        <4> QED BY <2>2, <4>1
      <3>2. CASE Stage(e) >= 44
        <4>1. f.artifact.kind = "kind8"
          BY DEF SellerOK, SellerAhead
        <4>2. Stage(f) \in {38, 40}
          BY <4>1 DEF Stage, FileStage
        <4> QED BY <2>2, <3>2, <4>2
      <3> QED BY <3>1, <3>2
    <2>5. Arbitrates(s, {}) <=> Arbitrates(s, E)
      BY <2>4 DEF Arbitrates
    <2>6. \A x : Effect("list", x) \notin E
      BY <2>4 DEF Effect
    <2>7. ~WillTell({}) /\ ~Tells({})
      BY DEF WillTell, Tells
    <2> QED BY <2>1, <2>3, <2>5, <2>6, <2>7 DEF SellerSettles
  <1> QED BY <1>1, <1>2 DEF SellerOK

-----------------------------------------------------------------------------
(* The seller writes.                                                      *)

(* What the effects ahead rely on, when one of them is done that neither   *)
(* counts a payment nor sets a phase.                                      *)
LEMMA SellerAheadMoves ==
  ASSUME NEW s, NEW d, NEW n, NEW e, NEW T, NEW b, SellerAhead(s, n, {e} \union T, b),
         d.phase = s.phase, s.file \subseteq d.file,
         e.op = "put" => e.artifact \in d.file,
         Of(d.file, "kind12") = Of(s.file, "kind12")
           \/ \A f \in T : ~(f.op = "put" /\ f.artifact.kind = "kind12"),
         e.op # "phase"
  PROVE  SellerAhead(d, n, T, b)
  <1> DEFINE E == {e} \union T
  <1>1. WillTell(E) <=> WillTell(T)
    BY DEF WillTell
  <1>2. \A x \in Evidence(s, E) : x \in Evidence(d, T)
    BY DEF Evidence
  <1>3. Closes(s, n, E) => Closes(d, n, T)
    BY <1>2 DEF Closes
  <1> SUFFICES ASSUME NEW f \in T
               PROVE  /\ f.op \in {"put", "file", "list", "phase", "send", "broadcast", "exchange", "settle", "fail", "await"}
                      /\ f.op = "await" => SellerAwaits(T, f)
                      /\ f.op = "put" => SellerPuts(d, n, T, b, f)
                      /\ f.op \in {"file", "list"} => f.artifact.kind = "kind8"
                      /\ f.op = "phase" => SellerPhases(d, T, f)
                      /\ f.op = "send" => SellerSends(n, b, f)
                      /\ f.op = "broadcast" => Closes(d, n, T) /\ (d.phase \notin OpenPhases \/ WillTell(T))
    BY DEF SellerAhead
  <1>4. /\ f.op \in {"put", "file", "list", "phase", "send", "broadcast", "exchange", "settle", "fail", "await"}
        /\ f.op = "await" => SellerAwaits(E, f)
        /\ f.op = "put" => SellerPuts(s, n, E, b, f)
        /\ f.op \in {"file", "list"} => f.artifact.kind = "kind8"
        /\ f.op = "phase" => SellerPhases(s, E, f)
        /\ f.op = "send" => SellerSends(n, b, f)
        /\ f.op = "broadcast" => Closes(s, n, E) /\ (s.phase \notin OpenPhases \/ WillTell(E))
    BY DEF SellerAhead
  <1>5. f.op = "put" => SellerPuts(d, n, T, b, f)
    BY <1>2, <1>4 DEF SellerPuts
  <1>6. f.op = "phase" => SellerPhases(d, T, f)
    BY <1>4 DEF SellerPhases
  <1>7. f.op = "await" => SellerAwaits(T, f)
    BY <1>4 DEF SellerAwaits
  <1> QED BY <1>1, <1>3, <1>4, <1>5, <1>6, <1>7

(* Evidence other than a countersigned payment.                             *)
LEMMA SellerWritesOther ==
  ASSUME NEW s \in Sessions, NEW n, NEW c, NEW e \in Effects, NEW T, NEW b, NEW crashes,
         SellerOK(s, n, c, {e} \union T, b, crashes), \A f \in T : f \in Effects /\ Before(e, f),
         e.op \in {"put", "file", "list"}, ~(e.op = "put" /\ e.artifact.kind = "paid")
  PROVE  /\ SellerOK(Wrote(s, e), n, c, T, b, crashes)
         /\ Of(Wrote(s, e).listed, "paid") = Of(s.listed, "paid")
  <1> DEFINE d == Wrote(s, e)  E == {e} \union T  x == e.artifact
  <1>1. /\ d \in Sessions /\ d.phase = s.phase /\ s.file \subseteq d.file /\ s.listed \subseteq d.listed
        /\ d.file \in {s.file, s.file \union {x}} /\ d.listed \in {s.listed, s.listed \union {x}}
        /\ e.op \in {"put", "file"} => d.file = s.file \union {x}
        /\ e.op = "list" => d.file = s.file /\ d.listed = s.listed \union {x}
    BY WroteFields
  <1>2. /\ x \in Artifacts /\ x.kind # "paid"
        /\ e.op = "put" => SellerPuts(s, n, E, b, e)
        /\ e.op \in {"file", "list"} => x.kind = "kind8"
    BY DEF SellerOK, SellerAhead, Effects
  <1>3. Of(d.listed, "paid") = Of(s.listed, "paid")
    BY <1>1, <1>2 DEF Of
  <1>4. ASSUME e.op = "put", x.kind = "kind12", NEW f \in T, f.op = "put", f.artifact.kind = "kind12" PROVE FALSE
    <2>1. Stage(e) = 20 /\ Stage(f) = 20
      BY <1>4 DEF Stage, PutStage
    <2> QED BY <1>4, <2>1 DEF Before
  <1>5. Of(d.file, "kind12") = Of(s.file, "kind12") \/ (e.op = "put" /\ x.kind = "kind12")
    BY <1>1, <1>2 DEF Of
  <1>6. SellerAhead(d, n, T, b)
    <2>1. SellerAhead(s, n, E, b)
      BY DEF SellerOK
    <2>2. e.op = "put" => e.artifact \in d.file
      BY <1>1
    <2> QED BY <1>1, <1>4, <1>5, <2>1, <2>2, SellerAheadMoves
  <1>7. \A y \in d.file : y \in s.file \/ (y = x /\ e.op \in {"put", "file"})
    BY <1>1
  <1>8. SellerFiles(d, n, b)
    <2>1. SellerFiles(s, n, b)
      BY DEF SellerOK
    <2>2. \A y \in Of(d.file, "kind6") : Asked(b, n, y)
      BY <1>2, <1>7, <2>1 DEF SellerFiles, SellerPuts, Of
    <2>3. \A y, z \in Of(d.file, "kind12") : y = z
      BY <1>2, <1>7, <2>1 DEF SellerFiles, SellerPuts, Of
    <2>4. ASSUME NEW y \in Of(d.file, "kind13") PROVE \E z \in Of(d.file, "kind12") : z.sequence = y.sequence
      <3>1. CASE y \in s.file
        BY <1>1, <2>1, <2>4, <3>1 DEF SellerFiles, Of
      <3>2. CASE y \notin s.file
        <4>1. y = x /\ e.op = "put" /\ x.kind = "kind13"
          BY <1>2, <1>7, <2>4, <3>2 DEF Of
        <4>2. PICK z \in Evidence(s, E) : z.kind = "kind12" /\ z.sequence = x.sequence
          BY <1>2, <4>1 DEF SellerPuts
        <4>3. z \in s.file
          <5> SUFFICES ASSUME NEW f \in E, f.op = "put", f.artifact.kind = "kind12" PROVE FALSE
            BY <4>2 DEF Evidence
          <5>1. Stage(e) = 32 /\ Stage(f) = 20 /\ f \in T
            BY <4>1 DEF Stage, PutStage
          <5> QED BY <4>1, <5>1 DEF Before
        <4> QED BY <1>1, <4>1, <4>2, <4>3 DEF Of
      <3> QED BY <3>1, <3>2
    <2>5. Numbered(d.listed, "paid") /\ \A y \in Of(d.listed, "paid") : Kind7Of(y) \in b.file
      BY <1>3, <2>1 DEF SellerFiles, Numbered, Many
    <2> QED BY <2>2, <2>3, <2>4, <2>5 DEF SellerFiles
  <1>9. SellerChain(d, n, c)
    BY <1>1 DEF SellerOK, SellerChain, Of
  <1>10. ASSUME crashes = 0 PROVE SellerSettles(d, n, T)
    <2>1. SellerSettles(s, n, E)
      BY <1>10 DEF SellerOK
    <2>2. WillTell(E) <=> WillTell(T)
      BY DEF WillTell
    <2>3. Arbitrates(d, T) <=> Arbitrates(s, E)
      BY <1>1, <1>2, <1>7 DEF Arbitrates, Of, SellerPuts
    <2>4. \A y : Effect("list", y) \in E => y \in d.listed \/ Effect("list", y) \in T
      BY <1>1 DEF Effect
    <2>5. \A y \in Of(d.file, "kind13") : y \in s.file \/ (e.op = "put" /\ x.kind = "kind13" /\ y = x)
      BY <1>2, <1>7 DEF Of
    <2>6. \A y \in Of(d.file, "kind13") : y.sequence < n \/ d.phase \in {"close-unknown", "closed"} \/ Tells(T)
      <3>1. Tells(E) => Tells(T)
        BY <2>2 DEF Tells
      <3>2. ASSUME e.op = "put", x.kind = "kind13", NEW f \in T, f.op = "await" PROVE FALSE
        <4>1. f.artifact.kind \in {"kind5", "kind7", "digest7", "kind12", "digest12", "digest8"}
          BY <3>2 DEF SellerOK, SellerAhead, SellerAwaits
        <4>2. ~Arbitrates(s, E)
          BY <2>1, <3>2 DEF SellerSettles
        <4>3. f.artifact.kind # "digest8"
          BY <2>1, <3>2, <4>2 DEF SellerSettles
        <4>4. Stage(e) = 32 /\ Stage(f) \in {3, 5, 7, 21, 23}
          BY <3>2, <4>1, <4>3 DEF Stage, PutStage, AwaitStage
        <4> QED BY <3>2, <4>4 DEF Before
      <3>3. e.op = "put" /\ x.kind = "kind13" => x.sequence < n \/ s.phase = "closed" \/ Tells(T)
        BY <2>1, <2>2, <3>2 DEF SellerSettles, Tells
      <3> QED BY <1>1, <2>1, <2>5, <3>1, <3>3 DEF SellerSettles, Of
    <2>7. \A f \in T : f.op = "put" /\ f.artifact.kind = "kind13" =>
            f.artifact.sequence < n \/ d.phase = "closed" \/ WillTell(T)
      BY <1>1, <2>1, <2>2 DEF SellerSettles
    <2>8. ASSUME Arbitrates(d, T)
          PROVE  /\ \A y \in Of(d.file, "kind13") : y.sequence < n
                 /\ \A f \in T : ~(f.op = "put" /\ f.artifact.kind = "kind13")
                 /\ \A y \in Of(d.file, "kind8") : y \in d.listed \/ Effect("list", y) \in T
                 /\ \A f \in T : f.op = "file" => Effect("list", f.artifact) \in T
      <3>1. /\ \A y \in Of(s.file, "kind13") : y.sequence < n
            /\ \A f \in E : ~(f.op = "put" /\ f.artifact.kind = "kind13")
            /\ \A y \in Of(s.file, "kind8") : y \in s.listed \/ Effect("list", y) \in E
            /\ \A f \in E : f.op = "file" => Effect("list", f.artifact) \in E
        BY <2>1, <2>3, <2>8 DEF SellerSettles
      <3>2. \A y \in Of(d.file, "kind13") : y.sequence < n
        BY <2>5, <3>1 DEF Of
      <3>3. ASSUME NEW y \in Of(d.file, "kind8") PROVE y \in d.listed \/ Effect("list", y) \in T
        <4>1. CASE y \in s.file
          BY <1>1, <2>4, <3>1, <3>3, <4>1 DEF Of
        <4>2. CASE y \notin s.file
          <5>1. y = x /\ e.op = "file"
            BY <1>2, <1>7, <3>3, <4>2 DEF Of, SellerPuts
          <5> QED BY <2>4, <3>1, <5>1
        <4> QED BY <4>1, <4>2
      <3>4. ASSUME NEW f \in T, f.op = "file" PROVE Effect("list", f.artifact) \in T
        <4>1. Effect("list", f.artifact) \in E /\ f.artifact.kind = "kind8"
          BY <3>1, <3>4 DEF SellerOK, SellerAhead
        <4>2. e # Effect("list", f.artifact)
          <5> SUFFICES ASSUME e.op = "list" PROVE FALSE
            BY DEF Effect
          <5>1. Stage(e) = 40 /\ Stage(f) = 38
            BY <1>2, <3>4, <4>1 DEF Stage, FileStage
          <5> QED BY <3>4, <5>1 DEF Before
        <4> QED BY <4>1, <4>2
      <3> QED BY <3>1, <3>2, <3>3, <3>4
    <2>9. Of(d.file, "arbitrated") # {} => Arbitrates(d, T)
      BY <1>2, <1>7, <2>1, <2>3 DEF SellerSettles, Of
    <2>10. \A f \in T : \/ f.op \in {"exchange", "settle"}
                        \/ f.op = "phase" /\ f.phase = "arbitration-prepared"
                        \/ f.op = "put" /\ f.artifact.kind = "arbitrated"
                        \/ f.op = "await" /\ f.artifact.kind = "digest8"
                        => Arbitrates(d, T)
      BY <2>1, <2>3 DEF SellerSettles
    <2> QED BY <2>6, <2>7, <2>8, <2>9, <2>10 DEF SellerSettles
  <1> QED BY <1>3, <1>6, <1>8, <1>9, <1>10 DEF SellerOK

(* The countersigned payment.                                               *)
LEMMA SellerWritesPaid ==
  ASSUME NEW s \in Sessions, IsFiniteSet(s.listed), NEW n, n = Many(s.listed, "paid"),
         NEW c, NEW e \in Effects, NEW T, NEW b, NEW crashes,
         SellerOK(s, n, c, {e} \union T, b, crashes), \A f \in T : f \in Effects /\ Before(e, f),
         e.op = "put", e.artifact.kind = "paid"
  PROVE  /\ SellerOK(Wrote(s, e), n + 1, c, T, b, crashes)
         /\ Many(Wrote(s, e).listed, "paid") = n + 1
  <1> DEFINE d == Wrote(s, e)  E == {e} \union T  x == e.artifact
  <1>1. /\ d \in Sessions /\ d.phase = s.phase
        /\ d.file = s.file \union {x} /\ d.listed = s.listed \union {x}
    BY WroteFields
  <1>2. /\ x \in Artifacts /\ s.phase \in OpenPhases /\ Kind7Of(x) \in b.file /\ x.sequence = n + 1
        /\ \A f \in E : f.op # "broadcast"
    BY DEF SellerOK, SellerAhead, SellerPuts, Effects
  <1>3. n \in Nat
    BY ManyIsNat
  <1>4. x \notin s.listed
    <2> SUFFICES ASSUME x \in s.listed PROVE FALSE
      OBVIOUS
    <2>1. x.sequence \in 1 .. n
      BY DEF SellerOK, SellerFiles, Numbered, Of
    <2> QED BY <1>2, <1>3, <2>1
  <1>5. Of(d.listed, "paid") = Of(s.listed, "paid") \union {x} /\ Many(d.listed, "paid") = n + 1
    <2>1. /\ Of(s.listed \union {x}, x.kind) = Of(s.listed, x.kind) \union {x}
          /\ Many(s.listed \union {x}, x.kind) = Many(s.listed, x.kind) + 1
      BY <1>4, OfNew
    <2> QED BY <1>1, <2>1
  <1>6. \A k : k # "paid" => Of(d.file, k) = Of(s.file, k)
    BY <1>1 DEF Of
  <1>7. \A y \in Artifacts : Asked(b, n, y) => Asked(b, n + 1, y)
    <2> SUFFICES ASSUME NEW y \in Artifacts, Asked(b, n, y) PROVE Asked(b, n + 1, y)
      OBVIOUS
    <2>1. y.sequence \in Nat
      BY ArtifactIs
    <2> QED BY <1>3, <2>1 DEF Asked
  <1>8. SellerFiles(d, n + 1, b)
    <2>1. SellerFiles(s, n, b)
      BY DEF SellerOK
    <2>2. \A y \in Of(d.file, "kind6") : Asked(b, n + 1, y)
      BY <1>1, <1>6, <1>7, <2>1 DEF SellerFiles, Of, Sessions
    <2>3. Numbered(d.listed, "paid")
      <3>1. Numbered(s.listed \union {x}, x.kind)
        BY <1>2, <1>4, <2>1, NumberedNext DEF SellerFiles
      <3> QED BY <1>1, <3>1
    <2>4. \A y \in Of(d.listed, "paid") : Kind7Of(y) \in b.file
      BY <1>2, <1>5, <2>1 DEF SellerFiles
    <2>5. /\ \A y, z \in Of(d.file, "kind12") : y = z
          /\ \A y \in Of(d.file, "kind13") : \E z \in Of(d.file, "kind12") : z.sequence = y.sequence
      BY <1>6, <2>1 DEF SellerFiles
    <2> QED BY <2>2, <2>3, <2>4, <2>5 DEF SellerFiles
  <1>9. SellerChain(d, n + 1, c)
    BY <1>2 DEF SellerOK, SellerChain
  <1>10. SellerAhead(d, n + 1, T, b)
    <2>1. SellerAhead(d, n, T, b)
      <3>1. SellerAhead(s, n, E, b)
        BY DEF SellerOK
      <3>2. s.file \subseteq d.file /\ x \in d.file /\ Of(d.file, "kind12") = Of(s.file, "kind12")
        BY <1>1, <1>6
      <3> QED BY <1>1, <3>1, <3>2, SellerAheadMoves
    <2>2. \A f \in T : ~(f.op = "put" /\ f.artifact.kind = "paid")
      <3> SUFFICES ASSUME NEW f \in T, f.op = "put", f.artifact.kind = "paid" PROVE FALSE
        OBVIOUS
      <3>1. Stage(e) = 10 /\ Stage(f) = 10
        BY DEF Stage, PutStage
      <3> QED BY <3>1 DEF Before
    <2>3. ASSUME NEW f \in T, f.op = "put" PROVE SellerPuts(d, n + 1, T, b, f)
      <3>1. SellerPuts(d, n, T, b, f) /\ f.artifact \in Artifacts
        BY <2>1, <2>3 DEF SellerAhead, Effects
      <3> QED BY <1>7, <2>2, <2>3, <3>1 DEF SellerPuts
    <2>4. ASSUME NEW f \in T, f.op = "send" PROVE SellerSends(n + 1, b, f)
      <3>1. SellerSends(n, b, f) /\ f.artifact \in Artifacts
        BY <2>1, <2>4 DEF SellerAhead, Effects
      <3> QED BY <1>7, <3>1 DEF SellerSends
    <2> QED BY <1>2, <2>1, <2>3, <2>4 DEF SellerAhead
  <1>11. ASSUME crashes = 0 PROVE SellerSettles(d, n + 1, T)
    <2>1. SellerSettles(s, n, E)
      BY <1>11 DEF SellerOK
    <2>2. \A y \in Artifacts : y.sequence < n => y.sequence < n + 1
      <3> SUFFICES ASSUME NEW y \in Artifacts, y.sequence < n PROVE y.sequence < n + 1
        OBVIOUS
      <3>1. y.sequence \in Nat
        BY ArtifactIs
      <3> QED BY <1>3, <3>1
    <2>3. WillTell(E) <=> WillTell(T)
      BY DEF WillTell
    <2>4. Arbitrates(d, T) <=> Arbitrates(s, E)
      BY <1>6 DEF Arbitrates
    <2>5. \A y : Effect("list", y) \in E => Effect("list", y) \in T
      BY DEF Effect
    <2>6. \A y \in Of(s.file, "kind13") : y \in Artifacts
      BY DEF Of, Sessions
    <2>7. \A y \in Of(d.file, "kind13") : y.sequence < n + 1 \/ d.phase \in {"close-unknown", "closed"} \/ Tells(T)
      <3>1. Tells(E) => Tells(T)
        BY <2>3 DEF Tells
      <3> QED BY <1>1, <1>6, <2>1, <2>2, <2>6, <3>1 DEF SellerSettles
    <2>8. \A f \in T : f.op = "put" /\ f.artifact.kind = "kind13" =>
            f.artifact.sequence < n + 1 \/ d.phase = "closed" \/ WillTell(T)
      BY <1>1, <2>1, <2>2, <2>3 DEF SellerSettles, Effects
    <2>9. Arbitrates(d, T) =>
            /\ \A y \in Of(d.file, "kind13") : y.sequence < n + 1
            /\ \A f \in T : ~(f.op = "put" /\ f.artifact.kind = "kind13")
            /\ \A y \in Of(d.file, "kind8") : y \in d.listed \/ Effect("list", y) \in T
            /\ \A f \in T : f.op = "file" => Effect("list", f.artifact) \in T
      BY <1>1, <1>6, <2>1, <2>2, <2>4, <2>5, <2>6 DEF SellerSettles
    <2>10. Of(d.file, "arbitrated") # {} => Arbitrates(d, T)
      BY <1>6, <2>1, <2>4 DEF SellerSettles
    <2>11. \A f \in T : \/ f.op \in {"exchange", "settle"}
                        \/ f.op = "phase" /\ f.phase = "arbitration-prepared"
                        \/ f.op = "put" /\ f.artifact.kind = "arbitrated"
                        \/ f.op = "await" /\ f.artifact.kind = "digest8"
                        => Arbitrates(d, T)
      BY <2>1, <2>4 DEF SellerSettles
    <2> QED BY <2>7, <2>8, <2>9, <2>10, <2>11 DEF SellerSettles
  <1> QED BY <1>5, <1>8, <1>9, <1>10, <1>11 DEF SellerOK

(* The phase is another; the effects that need the pool open are done if   *)
(* it is not.                                                              *)
LEMMA SellerAheadTurns ==
  ASSUME NEW s, NEW d, NEW n, NEW e, NEW T, NEW b, SellerAhead(s, n, {e} \union T, b),
         d.file = s.file, d.listed = s.listed, e.op # "put",
         d.phase \in OpenPhases => s.phase \in OpenPhases,
         d.phase \notin OpenPhases =>
           \A f \in T : /\ ~(f.op = "put" /\ f.artifact.kind = "paid")
                        /\ ~(f.op = "phase" /\ f.phase \in OpenPhases),
         e.op = "phase" /\ e.phase = "close-unknown" => d.phase \notin OpenPhases
  PROVE  SellerAhead(d, n, T, b)
  <1> DEFINE E == {e} \union T
  <1>1. Evidence(s, E) = Evidence(d, T)
    BY DEF Evidence
  <1>2. Closes(s, n, E) <=> Closes(d, n, T)
    BY <1>1 DEF Closes
  <1>3. WillTell(E) => WillTell(T) \/ d.phase \notin OpenPhases
    BY DEF WillTell
  <1> SUFFICES ASSUME NEW f \in T
               PROVE  /\ f.op \in {"put", "file", "list", "phase", "send", "broadcast", "exchange", "settle", "fail", "await"}
                      /\ f.op = "await" => SellerAwaits(T, f)
                      /\ f.op = "put" => SellerPuts(d, n, T, b, f)
                      /\ f.op \in {"file", "list"} => f.artifact.kind = "kind8"
                      /\ f.op = "phase" => SellerPhases(d, T, f)
                      /\ f.op = "send" => SellerSends(n, b, f)
                      /\ f.op = "broadcast" => Closes(d, n, T) /\ (d.phase \notin OpenPhases \/ WillTell(T))
    BY DEF SellerAhead
  <1>4. /\ f.op \in {"put", "file", "list", "phase", "send", "broadcast", "exchange", "settle", "fail", "await"}
        /\ f.op = "await" => SellerAwaits(E, f)
        /\ f.op = "put" => SellerPuts(s, n, E, b, f)
        /\ f.op \in {"file", "list"} => f.artifact.kind = "kind8"
        /\ f.op = "phase" => SellerPhases(s, E, f)
        /\ f.op = "send" => SellerSends(n, b, f)
        /\ f.op = "broadcast" => Closes(s, n, E) /\ (s.phase \notin OpenPhases \/ WillTell(E))
    BY DEF SellerAhead
  <1>5. f.op = "put" => SellerPuts(d, n, T, b, f)
    BY <1>1, <1>4 DEF SellerPuts
  <1>6. f.op = "phase" => SellerPhases(d, T, f)
    BY <1>4 DEF SellerPhases
  <1>7. f.op = "await" => SellerAwaits(T, f)
    BY <1>4 DEF SellerAwaits
  <1> QED BY <1>2, <1>3, <1>4, <1>5, <1>6, <1>7

(* The phase.                                                               *)
LEMMA SellerWritesPhase ==
  ASSUME NEW s \in Sessions, NEW n, NEW c, NEW e \in Effects, NEW T, NEW b, NEW crashes,
         SellerOK(s, n, c, {e} \union T, b, crashes), \A f \in T : f \in Effects /\ Before(e, f),
         e.op = "phase"
  PROVE  SellerOK(Wrote(s, e), n, c, T, b, crashes)
  <1> DEFINE d == Wrote(s, e)  E == {e} \union T
  <1>1. d.phase = e.phase /\ d.file = s.file /\ d.listed = s.listed
    BY WroteFields
  <1>2. SellerPhases(s, E, e)
    BY DEF SellerOK, SellerAhead
  <1>3. ASSUME e.phase \notin OpenPhases, NEW f \in T
        PROVE  /\ ~(f.op = "put" /\ f.artifact.kind = "paid")
               /\ ~(f.op = "phase" /\ f.phase \in OpenPhases)
    <2>1. Stage(e) \in {34, 42}
      BY <1>2, <1>3 DEF SellerPhases, Stage, PhaseStage
    <2>2. f.op = "put" /\ f.artifact.kind = "paid" => Stage(f) = 10
      BY DEF Stage, PutStage
    <2>3. f.op = "phase" /\ f.phase \in OpenPhases => Stage(f) \in {4, 12, 16}
      BY DEF Stage, PhaseStage, OpenPhases
    <2> QED BY <2>1, <2>2, <2>3 DEF Before
  <1>4. SellerAhead(d, n, T, b)
    <2>1. SellerAhead(s, n, E, b)
      BY DEF SellerOK
    <2>2. e.op = "phase" /\ e.phase = "close-unknown" => d.phase \notin OpenPhases
      BY <1>1 DEF OpenPhases
    <2>3. d.phase \in OpenPhases => s.phase \in OpenPhases
      BY <1>1, <1>2 DEF SellerPhases
    <2>4. e.op # "put"
      OBVIOUS
    <2> QED BY <1>1, <1>3, <2>1, <2>2, <2>3, <2>4, SellerAheadTurns
  <1>5. SellerFiles(d, n, b)
    BY <1>1 DEF SellerOK, SellerFiles
  <1>6. SellerChain(d, n, c)
    BY <1>1, <1>2 DEF SellerOK, SellerChain, SellerPhases
  <1>7. ASSUME crashes = 0 PROVE SellerSettles(d, n, T)
    <2>1. SellerSettles(s, n, E)
      BY <1>7 DEF SellerOK
    <2>2. Arbitrates(d, T) <=> Arbitrates(s, E)
      BY <1>1 DEF Arbitrates
    <2>3. WillTell(E) => WillTell(T) \/ e.phase = "close-unknown"
      BY DEF WillTell
    <2>4. CASE Arbitrates(s, E)
      BY <1>1, <2>1, <2>2, <2>4 DEF SellerSettles, Effect
    <2>5. CASE ~Arbitrates(s, E)
      <3>1. e.phase \in OpenPhases \union {"close-unknown"}
        BY <1>2, <2>1, <2>5 DEF SellerSettles, SellerPhases
      <3>2. e.phase \in OpenPhases => s.phase \notin {"close-unknown", "closed"}
        BY <1>2 DEF SellerPhases, OpenPhases
      <3>3. \A y \in Of(d.file, "kind13") : y.sequence < n \/ d.phase \in {"close-unknown", "closed"} \/ Tells(T)
        <4>1. Tells(E) => Tells(T) \/ e.phase = "close-unknown"
          BY <2>3 DEF Tells
        <4> QED BY <1>1, <2>1, <3>1, <3>2, <4>1 DEF SellerSettles
      <3>4. \A f \in T : f.op = "put" /\ f.artifact.kind = "kind13" => e.phase \in OpenPhases
        <4> SUFFICES ASSUME NEW f \in T, f.op = "put", f.artifact.kind = "kind13", e.phase = "close-unknown"
                     PROVE  FALSE
          BY <3>1
        <4>1. Stage(e) = 34 /\ Stage(f) = 32
          BY DEF Stage, PutStage, PhaseStage
        <4> QED BY <4>1 DEF Before
      <3>5. e.phase \in OpenPhases => e.phase # "close-unknown"
        BY DEF OpenPhases
      <3>6. \A f \in T : f.op = "put" /\ f.artifact.kind = "kind13" =>
              f.artifact.sequence < n \/ d.phase = "closed" \/ WillTell(T)
        BY <2>1, <2>3, <3>2, <3>4, <3>5 DEF SellerSettles
      <3> QED BY <1>1, <2>1, <2>2, <2>5, <3>3, <3>6 DEF SellerSettles
    <2> QED BY <2>4, <2>5
  <1> QED BY <1>4, <1>5, <1>6, <1>7 DEF SellerOK

(* An effect that is no write, and what the network or the arbiter says.   *)
LEMMA SellerPasses ==
  ASSUME NEW s, NEW n, NEW c, NEW e, NEW T, NEW b, NEW crashes,
         SellerOK(s, n, c, {e} \union T, b, crashes), e.op \in {"send", "broadcast", "exchange", "settle", "fail", "await"}
  PROVE  SellerOK(s, n, c, T, b, crashes)
  <1> DEFINE E == {e} \union T
  <1>1. SellerAhead(s, n, T, b)
    <2>1. SellerAhead(s, n, E, b)
      BY DEF SellerOK
    <2>2. e.op # "put" /\ e.op # "phase"
      OBVIOUS
    <2> QED BY <2>1, <2>2, SellerAheadMoves
  <1>2. ASSUME crashes = 0 PROVE SellerSettles(s, n, T)
    <2>1. SellerSettles(s, n, E)
      BY <1>2 DEF SellerOK
    <2>2. (WillTell(E) <=> WillTell(T)) /\ (Tells(E) => Tells(T)) /\ (Arbitrates(s, E) <=> Arbitrates(s, T))
      BY DEF WillTell, Tells, Arbitrates
    <2>3. \A y : Effect("list", y) \in E => Effect("list", y) \in T
      BY DEF Effect
    <2> QED BY <2>1, <2>2, <2>3 DEF SellerSettles
  <1> QED BY <1>1, <1>2 DEF SellerOK

(* The pool is spent: the close broadcast, or the arbitration settled.      *)
LEMMA SellerTurns ==
  ASSUME NEW s \in Sessions, NEW n, NEW c, NEW e \in Effects, NEW T, NEW b, NEW crashes,
         SellerOK(s, n, c, {e} \union T, b, crashes), \A f \in T : f \in Effects /\ Before(e, f),
         NEW p, NEW h,
         \/ e.op = "broadcast" /\ h = "close" /\ p \in {s.phase, "closed"}
         \/ e.op = "settle" /\ h \in {c, "arbitrated"} /\ p \in {"closed", "arbitration-payment-unknown"}
  PROVE  SellerOK([s EXCEPT !.phase = p], n, h, T, b, crashes)
  <1> DEFINE d == [s EXCEPT !.phase = p]  E == {e} \union T
  <1>1. d.phase = p /\ d.file = s.file /\ d.listed = s.listed
    BY DEF Sessions
  <1>2. SellerOK(s, n, c, T, b, crashes)
    BY SellerPasses
  <1>3. Stage(e) \in {36, 52}
    BY DEF Stage, CallStage
  <1>4. ASSUME NEW f \in T
        PROVE  /\ ~(f.op = "put" /\ f.artifact.kind = "paid")
               /\ ~(f.op = "put" /\ f.artifact.kind = "kind12")
               /\ ~(f.op = "put" /\ f.artifact.kind = "kind13")
               /\ ~(f.op = "phase" /\ f.phase \in OpenPhases)
               /\ ~(f.op = "phase" /\ f.phase = "close-unknown")
    <2>1. f.op = "put" /\ f.artifact.kind \in {"paid", "kind12", "kind13"} => Stage(f) \in {10, 20, 32}
      BY DEF Stage, PutStage
    <2>2. f.op = "phase" /\ f.phase \in OpenPhases \union {"close-unknown"} => Stage(f) \in {4, 12, 16, 34}
      BY DEF Stage, PhaseStage, OpenPhases
    <2> QED BY <1>3, <2>1, <2>2 DEF Before
  <1>5. ~WillTell(T)
    BY <1>4 DEF WillTell
  <1>6. p \in OpenPhases => s.phase \in OpenPhases
    BY DEF OpenPhases
  <1>7. SellerAhead(d, n, T, b)
    <2>1. SellerAhead(s, n, E, b)
      BY DEF SellerOK
    <2>2. e.op # "put" /\ e.op # "phase"
      OBVIOUS
    <2> QED BY <1>1, <1>4, <1>6, <2>1, <2>2, SellerAheadTurns
  <1>8. SellerFiles(d, n, b)
    BY <1>1 DEF SellerOK, SellerFiles
  <1>9. SellerChain(d, n, h)
    <2>1. CASE e.op = "broadcast"
      <3>1. Closes(s, n, E) /\ (s.phase \notin OpenPhases \/ WillTell(E))
        BY <2>1 DEF SellerOK, SellerAhead
      <3>2. ~WillTell(E)
        BY <1>5, <2>1 DEF WillTell
      <3>3. PICK x \in Evidence(s, E) : x.kind = "kind12" /\ x.sequence >= n
        BY <3>1 DEF Closes
      <3>4. x \in s.file
        BY <1>4, <2>1, <3>3 DEF Evidence
      <3>5. p \notin OpenPhases
        BY <2>1, <3>1, <3>2 DEF OpenPhases
      <3> QED BY <1>1, <3>3, <3>4, <3>5 DEF SellerChain, Of
    <2>2. CASE e.op = "settle"
      <3>1. p \notin OpenPhases /\ (h = "close" => c = "close")
        BY <2>2 DEF OpenPhases
      <3> QED BY <1>1, <3>1 DEF SellerOK, SellerChain
    <2> QED BY <2>1, <2>2
  <1>10. ASSUME crashes = 0 PROVE SellerSettles(d, n, T)
    <2>1. SellerSettles(s, n, T) /\ SellerSettles(s, n, E)
      BY <1>2, <1>10 DEF SellerOK
    <2>2. Arbitrates(d, T) <=> Arbitrates(s, T)
      BY <1>1 DEF Arbitrates
    <2>3. \A y \in Of(d.file, "kind13") : y.sequence < n \/ d.phase \in {"close-unknown", "closed"} \/ Tells(T)
      <3>1. CASE e.op = "broadcast"
        BY <1>1, <2>1, <3>1 DEF SellerSettles
      <3>2. CASE e.op = "settle"
        <4>1. Arbitrates(s, E)
          BY <2>1, <3>2 DEF SellerSettles
        <4> QED BY <1>1, <2>1, <4>1 DEF SellerSettles
      <3> QED BY <3>1, <3>2
    <2> QED BY <1>1, <1>4, <2>1, <2>2, <2>3 DEF SellerSettles
  <1> QED BY <1>7, <1>8, <1>9, <1>10 DEF SellerOK

-----------------------------------------------------------------------------
(* What the seller's handlers start.                                       *)

(* Effects that neither close the pool nor arbitrate it.                   *)
Harmless(e) ==
  /\ e.op \notin {"file", "exchange", "settle", "broadcast"}
  /\ ~(e.op = "put" /\ e.artifact.kind \in {"kind13", "arbitrated"})
  /\ ~(e.op = "phase" /\ e.phase = "arbitration-prepared")
  /\ ~(e.op = "await" /\ e.artifact.kind = "digest8")

(* Effects that disturb nothing leave the seller as it should be.           *)
LEMMA HarmlessPlan ==
  ASSUME NEW s, NEW n, NEW c, NEW E, NEW b, NEW crashes, SellerOK(s, n, c, {}, b, crashes),
         SellerAhead(s, n, E, b), \A e \in E : Harmless(e)
  PROVE  SellerOK(s, n, c, E, b, crashes)
  <1>1. ASSUME crashes = 0 PROVE SellerSettles(s, n, E)
    <2>1. SellerSettles(s, n, {})
      BY <1>1 DEF SellerOK
    <2>2. ~WillTell({}) /\ ~Tells({}) /\ (Arbitrates(s, E) <=> Arbitrates(s, {}))
      BY DEF WillTell, Tells, Arbitrates, Harmless
    <2> QED BY <2>1, <2>2 DEF SellerSettles, Harmless
  <1> QED BY <1>1 DEF SellerOK

(* A handler of the seller that does nothing.                               *)
LEMMA SellerRestsOn ==
  ASSUME NEW n, NEW c, NEW b, NEW crashes, SellerOK(seller, n, c, {}, b, crashes)
  PROVE  Within(<<>>, 2, 80) /\ SellerOK(seller, n, c, Ahead(<<>>), b, crashes)
  BY NoneWithin

(* A frame that is sent, or sent again.                                    *)
LEMMA AnswerPlan ==
  ASSUME NEW n, NEW c, NEW b, NEW crashes, SellerOK(seller, n, c, {}, b, crashes),
         NEW x \in Artifacts, x.kind = "kind3" \/ (x.kind = "kind6" /\ Asked(b, n, x))
  PROVE  Within(<<SendFrame(x)>>, 2, 80) /\ SellerOK(seller, n, c, Ahead(<<SendFrame(x)>>), b, crashes)
  <1> DEFINE e == SendFrame(x)
  <1>1. e \in Effects /\ e.op = "send" /\ e.artifact = x /\ Stage(e) = 60
    BY EffectOf DEF SendStage
  <1> HIDE DEF e
  <1>2. Within(<<e>>, 2, 80) /\ Ahead(<<e>>) = {e}
    BY <1>1, OneWithin
  <1>3. SellerAhead(seller, n, {e}, b)
    BY <1>1 DEF SellerAhead, SellerSends
  <1>4. SellerOK(seller, n, c, {e}, b, crashes)
    BY <1>1, <1>3, HarmlessPlan DEF Harmless
  <1> QED BY <1>2, <1>4 DEF e

(* HandleKind4: the proof of funding is kept.                              *)
LEMMA FundedPlan ==
  ASSUME NEW n, NEW c, NEW b, NEW crashes, SellerOK(seller, n, c, {}, b, crashes), seller.phase = "opening-presigned"
  PROVE  LET plan == <<Put(Kind4), SetPhase("funded", 0)>>
         IN  Within(plan, 2, 80) /\ SellerOK(seller, n, c, Ahead(plan), b, crashes)
  <1> DEFINE d1 == Put(Kind4)  p2 == SetPhase("funded", 0)
  <1>1. d1 \in Effects /\ d1.op = "put" /\ d1.artifact.kind = "kind4" /\ Stage(d1) = 2
    <2>1. Kind4 \in Artifacts /\ Kind4.kind = "kind4"
      <3>1. "kind4" \in Kinds
        BY DEF Kinds
      <3> QED BY <3>1, ArtifactShape DEF Kind4
    <2> QED BY <2>1, EffectOf DEF PutStage
  <1>2. p2 \in Effects /\ p2.op = "phase" /\ p2.phase = "funded" /\ Stage(p2) = 16
    <2>1. "funded" \in PoolPhases
      BY DEF PoolPhases, SellerPhaseNames
    <2> QED BY <2>1, PhaseOf DEF PhaseStage
  <1> HIDE DEF d1, p2
  <1>3. Within(<<d1, p2>>, 2, 80) /\ Ahead(<<d1, p2>>) = {d1, p2}
    BY <1>1, <1>2, TwoWithin DEF Before
  <1>4. SellerAhead(seller, n, {d1, p2}, b)
    <2>1. SellerPuts(seller, n, {d1, p2}, b, d1)
      BY <1>1 DEF SellerPuts
    <2>2. SellerPhases(seller, {d1, p2}, p2)
      BY <1>2 DEF SellerPhases, OpenPhases
    <2> QED BY <1>1, <1>2, <2>1, <2>2 DEF SellerAhead
  <1>5. SellerOK(seller, n, c, {d1, p2}, b, crashes)
    BY <1>1, <1>2, <1>4, HarmlessPlan DEF Harmless
  <1> QED BY <1>3, <1>5 DEF d1, p2

(* A signature that is begun, awaited and recorded.                        *)
LEMMA SignWithin ==
  ASSUME NEW x \in Artifacts, NEW y \in Artifacts, NEW lo \in Nat,
         Stage(Put(x)) = lo, Stage(Await(x)) = lo + 1, Stage(Put(y)) = lo + 2
  PROVE  Within(SignWith(x, y), lo, lo + 2) /\ Ahead(SignWith(x, y)) = {Put(x), Await(x), Put(y)}
  <1> DEFINE d == Put(x)  o == Await(x)  e == Put(y)
  <1>1. /\ d \in Effects /\ o \in Effects /\ e \in Effects
        /\ Stage(d) = lo /\ Stage(o) = lo + 1 /\ Stage(e) = lo + 2
    BY EffectOf, AwaitOf
  <1>2. SignWith(x, y) = <<d, o, e>>
    BY DEF SignWith
  <1> HIDE DEF d, o, e
  <1>3. <<d, o, e>> = <<d, o>> \o <<e>>
    BY <1>1
  <1>4. Within(<<d, o>>, lo, lo + 1) /\ Ahead(<<d, o>>) = {d, o}
    <2>1. Before(d, o) /\ lo + 1 \in Nat /\ lo <= Stage(d) /\ Stage(d) <= lo + 1 /\ lo <= Stage(o) /\ Stage(o) <= lo + 1
      BY <1>1 DEF Before
    <2> QED BY <1>1, <2>1, TwoWithin
  <1>5. Within(<<e>>, lo + 2, lo + 2) /\ Ahead(<<e>>) = {e}
    <2>1. lo + 2 \in Nat /\ lo + 2 <= Stage(e) /\ Stage(e) <= lo + 2
      BY <1>1
    <2> QED BY <1>1, <2>1, OneWithin
  <1>6. Within(<<d, o>> \o <<e>>, lo, lo + 2) /\ Ahead(<<d, o>> \o <<e>>) = Ahead(<<d, o>>) \union Ahead(<<e>>)
    <2>1. lo + 1 \in Nat /\ lo + 2 \in Nat /\ lo <= lo + 1 /\ lo + 1 < lo + 2 /\ lo + 2 <= lo + 2
      OBVIOUS
    <2> QED BY <1>4, <1>5, <2>1, JoinWithin
  <1> QED BY <1>2, <1>3, <1>4, <1>5, <1>6 DEF d, o, e

(* HandleKind5: a request that is new, in seller.phase funded or paid.     *)
LEMMA DeliveryPlan ==
  ASSUME NEW n \in Nat, NEW c, NEW b, NEW crashes, SellerOK(seller, n, c, {}, b, crashes),
         seller.phase \in {"funded", "paid"},
         NEW x \in Artifacts, x.kind = "kind5", x \in b.file, x.sequence <= n + 1,
         NEW y, y = Artifact("kind6", x.auth, x.sequence)
  PROVE  LET plan == <<Put(x), Await(x), Put(y), SetPhase("delivery-prepared", x.auth), SendFrame(y)>>
         IN  Within(plan, 2, 80) /\ SellerOK(seller, n, c, Ahead(plan), b, crashes)
  <1> DEFINE e1 == Put(x)  e2 == Put(y)  e3 == SetPhase("delivery-prepared", x.auth)  e4 == SendFrame(y)
             o5 == Await(x)
             plan == <<e1, o5, e2, e3, e4>>
             E == {e1, o5, e2, e3, e4}
  <1>1. /\ x.auth \in Nat /\ y \in Artifacts /\ y.kind = "kind6" /\ Kind5Of(y) = x /\ y.sequence = x.sequence
    <2>1. /\ x.auth \in Nat /\ x.sequence \in Nat /\ "kind6" \in Kinds /\ x = Artifact(x.kind, x.auth, x.sequence)
      BY ArtifactIs DEF Kinds
    <2>2. y \in Artifacts /\ y.kind = "kind6" /\ y.auth = x.auth /\ y.sequence = x.sequence
      BY <2>1, ArtifactShape
    <2> QED BY <2>1, <2>2 DEF Kind5Of
  <1>2. /\ e1 \in Effects /\ e1.op = "put" /\ e1.artifact.kind = "kind5" /\ Stage(e1) = 2
        /\ e2 \in Effects /\ e2.op = "put" /\ e2.artifact = y /\ Stage(e2) = 4
        /\ e4 \in Effects /\ e4.op = "send" /\ e4.artifact = y /\ Stage(e4) = 60
        /\ o5 \in Effects /\ o5.op = "await" /\ o5.artifact.kind = "kind5" /\ Stage(o5) = 3
    BY <1>1, EffectOf, AwaitOf DEF PutStage, SendStage, AwaitStage
  <1>3. e3 \in Effects /\ e3.op = "phase" /\ e3.phase = "delivery-prepared" /\ Stage(e3) = 16
    <2>1. "delivery-prepared" \in PoolPhases
      BY DEF PoolPhases, SellerPhaseNames
    <2> QED BY <1>1, <2>1, PhaseOf DEF PhaseStage
  <1> HIDE DEF e1, e2, e3, e4, o5
  <1>4. Within(<<e1, o5>>, 2, 3) /\ Ahead(<<e1, o5>>) = {e1, o5}
    BY <1>2, TwoWithin DEF Before
  <1>5. Within(<<e2>>, 4, 4) /\ Ahead(<<e2>>) = {e2}
    BY <1>2, OneWithin
  <1>6. Within(<<e3, e4>>, 16, 80) /\ Ahead(<<e3, e4>>) = {e3, e4}
    BY <1>2, <1>3, TwoWithin DEF Before
  <1>7. Within(plan, 2, 80) /\ Ahead(plan) = E
    <2>1. plan = (<<e1, o5>> \o <<e2>>) \o <<e3, e4>>
      BY <1>2, <1>3
    <2>2. Within(<<e1, o5>> \o <<e2>>, 2, 4) /\ Ahead(<<e1, o5>> \o <<e2>>) = {e1, o5, e2}
      <3>1. /\ Within(<<e1, o5>> \o <<e2>>, 2, 4)
            /\ Ahead(<<e1, o5>> \o <<e2>>) = Ahead(<<e1, o5>>) \union Ahead(<<e2>>)
        BY <1>4, <1>5, JoinWithin
      <3> QED BY <1>4, <1>5, <3>1
    <2> DEFINE h == <<e1, o5>> \o <<e2>>
    <2>3. Within(h, 2, 4) /\ Ahead(h) = {e1, o5, e2} /\ plan = h \o <<e3, e4>>
      BY <2>1, <2>2
    <2> HIDE DEF h, plan
    <2>4. Within(h \o <<e3, e4>>, 2, 80) /\ Ahead(h \o <<e3, e4>>) = Ahead(h) \union Ahead(<<e3, e4>>)
      <3>1. Within(h, 2, 4) /\ Within(<<e3, e4>>, 16, 80)
        BY <1>6, <2>3
      <3> QED BY <3>1, JoinWithin
    <2> QED BY <1>6, <2>3, <2>4
  <1>8. SellerAhead(seller, n, E, b)
    <2>1. SellerPuts(seller, n, E, b, e1)
      BY <1>2 DEF SellerPuts
    <2>2. Asked(b, n, y)
      BY <1>1 DEF Asked
    <2>3. SellerPuts(seller, n, E, b, e2)
      BY <1>1, <1>2, <2>2 DEF SellerPuts
    <2>4. SellerPhases(seller, E, e3)
      BY <1>3 DEF SellerPhases, OpenPhases
    <2>5. SellerSends(n, b, e4)
      BY <1>1, <1>2, <2>2 DEF SellerSends
    <2>6. SellerAwaits(E, o5)
      BY <1>2, <1>3 DEF SellerAwaits
    <2> QED BY <1>2, <1>3, <2>1, <2>3, <2>4, <2>5, <2>6 DEF SellerAhead
  <1>9. SellerOK(seller, n, c, E, b, crashes)
    <2>1. \A e \in E : Harmless(e)
      BY <1>1, <1>2, <1>3 DEF Harmless
    <2> QED BY <1>8, <2>1, HarmlessPlan
  <1> QED BY <1>9, <1>7 DEF e1, e2, e3, e4, o5

(* persistSellerKind7BeforeSigning, and the countersignature.              *)
LEMMA CountersignPlan ==
  ASSUME seller \in Sessions, NEW n \in Nat, n = Countersigned, NEW c, NEW b, NEW crashes,
         SellerOK(seller, n, c, {}, b, crashes), seller.phase \in {"delivery-prepared", "payment-signing"},
         NEW x \in Artifacts, x.kind = "kind7", x \in b.file
  PROVE  Within(SignPayment(x), 2, 80) /\ SellerOK(seller, n, c, Ahead(SignPayment(x)), b, crashes)
  <1> DEFINE a == x.auth
             d1 == Put(x)
             p2 == SetPhase("payment-signing", seller.pending)
             f9 == Call("fail")
             o7 == Await(x)
             d3 == Put(Artifact("digest7", a, 0))
             o8 == Await(Artifact("digest7", a, 0))
             s4 == Put(Artifact("signature7", a, 0))
             y == Artifact("paid", a, x.sequence)
             d5 == Put(y)
             p6 == SetPhase("paid", 0)
             refused == x.sequence # Countersigned + 1 \/ Uncertain(seller.file, "digest7", "signature7", a)
             w1 == When(x \notin seller.listed, <<d1>>)
             w2 == When(seller.phase = "delivery-prepared", <<p2>>)
             sign == SignWith(Artifact("digest7", a, 0), Artifact("signature7", a, 0))
             w3 == When(~Holds(seller.file, "signature7", a), sign)
             z == <<d5, p6>>
             r == <<o7>> \o w3
             u == r \o z
             v == IF refused THEN <<f9>> ELSE u
             t == w1 \o w2
             q == t \o v
  <1>1. /\ y \in Artifacts /\ y.kind = "paid" /\ Kind7Of(y) = x /\ y.sequence = x.sequence
        /\ Artifact("digest7", a, 0) \in Artifacts /\ Artifact("digest7", a, 0).kind = "digest7"
        /\ Artifact("signature7", a, 0) \in Artifacts /\ Artifact("signature7", a, 0).kind = "signature7"
    <2>1. /\ x.auth \in Nat /\ x.sequence \in Nat /\ x = Artifact(x.kind, x.auth, x.sequence)
          /\ "paid" \in Kinds /\ "digest7" \in Kinds /\ "signature7" \in Kinds
      BY ArtifactIs DEF Kinds
    <2>2. y \in Artifacts /\ y.kind = "paid" /\ y.auth = x.auth /\ y.sequence = x.sequence
      BY <2>1, ArtifactShape
    <2> QED BY <2>1, <2>2, ArtifactShape DEF Kind7Of
  <1>2. /\ d1 \in Effects /\ d1.op = "put" /\ d1.artifact.kind = "kind7" /\ Stage(d1) = 2
        /\ d3 \in Effects /\ d3.op = "put" /\ d3.artifact.kind = "digest7" /\ Stage(d3) = 6
        /\ s4 \in Effects /\ s4.op = "put" /\ s4.artifact.kind = "signature7" /\ Stage(s4) = 8
        /\ d5 \in Effects /\ d5.op = "put" /\ d5.artifact = y /\ Stage(d5) = 10
        /\ o7 \in Effects /\ o7.op = "await" /\ o7.artifact.kind = "kind7" /\ Stage(o7) = 5
        /\ o8 \in Effects /\ o8.op = "await" /\ o8.artifact.kind = "digest7" /\ Stage(o8) = 7
    BY <1>1, EffectOf, AwaitOf DEF PutStage, AwaitStage
  <1>3. /\ p2 \in Effects /\ p2.op = "phase" /\ p2.phase = "payment-signing" /\ Stage(p2) = 4
        /\ p6 \in Effects /\ p6.op = "phase" /\ p6.phase = "paid" /\ Stage(p6) = 12
    <2>1. "payment-signing" \in PoolPhases /\ "paid" \in PoolPhases /\ seller.pending \in Nat
      BY DEF PoolPhases, SellerPhaseNames, Sessions
    <2> QED BY <2>1, PhaseOf DEF PhaseStage
  <1>4. f9 \in Effects /\ f9.op = "fail" /\ Stage(f9) = 80
    <2>1. f9 \in Effects /\ f9.op = "fail"
      BY CallShape DEF Ops
    <2> QED BY <2>1 DEF Stage, CallStage
  <1>5. SignPayment(x) = q
    BY DEF SignPayment
  <1>6. ~refused => x.sequence = n + 1
    OBVIOUS
  <1>7. Within(sign, 6, 8) /\ Ahead(sign) = {d3, o8, s4}
    <2>1. Stage(d3) = 6 /\ Stage(o8) = 6 + 1 /\ Stage(s4) = 6 + 2 /\ 6 + 2 = 8 /\ 6 \in Nat
      BY <1>2
    <2>2. Within(sign, 6, 6 + 2) /\ Ahead(sign) = {d3, o8, s4}
      BY <1>1, <2>1, SignWithin
    <2> QED BY <2>1, <2>2
  <1> HIDE DEF d1, p2, f9, o7, d3, o8, s4, d5, p6, refused, y, sign
  <1>8. Within(w1, 2, 2) /\ \A e \in Ahead(w1) : e = d1
    <2>1. Within(<<d1>>, 2, 2) /\ Ahead(<<d1>>) = {d1}
      BY <1>2, OneWithin
    <2>2. Within(w1, 2, 2) /\ Ahead(w1) = IF x \notin seller.listed THEN {d1} ELSE {}
      BY <2>1, WhenWithin
    <2> QED BY <2>2
  <1>9. Within(w2, 4, 4) /\ \A e \in Ahead(w2) : e = p2
    <2>1. Within(<<p2>>, 4, 4) /\ Ahead(<<p2>>) = {p2}
      BY <1>3, OneWithin
    <2>2. Within(w2, 4, 4) /\ Ahead(w2) = IF seller.phase = "delivery-prepared" THEN {p2} ELSE {}
      BY <2>1, WhenWithin
    <2> QED BY <2>2
  <1>10. Within(w3, 6, 8) /\ \A e \in Ahead(w3) : e \in {d3, o8, s4}
    <2>1. Within(w3, 6, 8) /\ Ahead(w3) = IF ~Holds(seller.file, "signature7", a) THEN {d3, o8, s4} ELSE {}
      BY <1>7, WhenWithin
    <2> QED BY <2>1
  <1>11. Within(z, 10, 80) /\ Ahead(z) = {d5, p6}
    BY <1>2, <1>3, TwoWithin DEF Before
  <1>12. Within(<<f9>>, 5, 80) /\ Ahead(<<f9>>) = {f9}
    BY <1>4, OneWithin
  <1>13. Within(<<o7>>, 5, 5) /\ Ahead(<<o7>>) = {o7}
    BY <1>2, OneWithin
  <1> HIDE DEF w1, w2, w3, z
  <1>14. Within(r, 5, 8) /\ Ahead(r) = {o7} \union Ahead(w3)
    <2>1. Within(r, 5, 8) /\ Ahead(r) = Ahead(<<o7>>) \union Ahead(w3)
      BY <1>10, <1>13, JoinWithin
    <2> QED BY <1>13, <2>1
  <1> HIDE DEF r
  <1>15. Within(u, 5, 80) /\ Ahead(u) = Ahead(r) \union Ahead(z)
    <2>1. Within(r, 5, 8) /\ Within(z, 10, 80)
      BY <1>11, <1>14
    <2> QED BY <2>1, JoinWithin
  <1> HIDE DEF u
  <1>16. Within(v, 5, 80) /\ \A e \in Ahead(v) : e = f9 \/ (~refused /\ e \in {o7, d3, o8, s4, d5, p6})
    BY <1>10, <1>11, <1>12, <1>15, <1>14
  <1> HIDE DEF v
  <1>17. Within(t, 2, 4) /\ Ahead(t) = Ahead(w1) \union Ahead(w2)
    BY <1>8, <1>9, JoinWithin
  <1> HIDE DEF t
  <1>18. Within(q, 2, 80) /\ Ahead(q) = Ahead(t) \union Ahead(v)
    BY <1>16, <1>17, JoinWithin
  <1> HIDE DEF q
  <1> DEFINE E == Ahead(q)
  <1>19. \A e \in E : e \in {d1, p2, f9} \/ (~refused /\ e \in {o7, d3, o8, s4, d5, p6})
    BY <1>8, <1>9, <1>16, <1>17, <1>18
  <1> HIDE DEF E
  <1>20. seller.phase \in OpenPhases
    BY DEF OpenPhases
  <1>21. SellerAhead(seller, n, E, b)
    <2>1. SellerPuts(seller, n, E, b, d1) /\ SellerPuts(seller, n, E, b, d3) /\ SellerPuts(seller, n, E, b, s4)
      BY <1>2 DEF SellerPuts
    <2>2. \A f \in E : f.op # "broadcast"
      BY <1>2, <1>3, <1>4, <1>19
    <2>3. ~refused => SellerPuts(seller, n, E, b, d5)
      BY <1>1, <1>2, <1>6, <1>20, <2>2 DEF SellerPuts
    <2>4. SellerPhases(seller, E, p2) /\ SellerPhases(seller, E, p6)
      BY <1>3, <1>20 DEF SellerPhases, OpenPhases
    <2>5. SellerAwaits(E, o7) /\ SellerAwaits(E, o8)
      BY <1>2, <1>3, <1>4, <1>19 DEF SellerAwaits
    <2> QED BY <1>2, <1>3, <1>4, <1>19, <2>1, <2>3, <2>4, <2>5 DEF SellerAhead
  <1>22. \A e \in E : Harmless(e)
    BY <1>1, <1>2, <1>3, <1>4, <1>19 DEF Harmless
  <1>23. SellerOK(seller, n, c, E, b, crashes)
    BY <1>21, <1>22, HarmlessPlan
  <1> QED BY <1>5, <1>18, <1>23 DEF E

(* A close: what it may do, however far it was done before.                *)
ClosingEffects(x) ==
  {Put(x), Call("fail"), Await(x), Put(Artifact("digest12", 0, 0)), Await(Artifact("digest12", 0, 0)),
   Put(Artifact("signature12", 0, 0)),
   Put(Artifact("kind13", 0, x.sequence)), SetPhase("close-unknown", seller.pending), Call("broadcast"),
   SendFrame(Artifact("kind13", 0, x.sequence))}

(* Any part of the effects of a close leaves the seller as it should be.    *)
LEMMA ClosingOK ==
  ASSUME seller \in Sessions, NEW n \in Nat, NEW c, NEW b, NEW crashes,
         SellerOK(seller, n, c, {}, b, crashes), Of(seller.listed, "kind8") = {},
         NEW x \in Artifacts, x.kind = "kind12", Of(seller.file, "kind12") \subseteq {x}, Ending(b),
         NEW E, E \subseteq ClosingEffects(x),
         x \in seller.file \/ Put(x) \in E,
         Call("broadcast") \in E => x.sequence >= n /\ SetPhase("close-unknown", seller.pending) \in E,
         Put(Artifact("kind13", 0, x.sequence)) \in E =>
           x.sequence < n \/ seller.phase = "closed" \/ SetPhase("close-unknown", seller.pending) \in E
  PROVE  SellerOK(seller, n, c, E, b, crashes)
  <1> DEFINE y == Artifact("kind13", 0, x.sequence)
             d1 == Put(x)
             f2 == Call("fail")
             o2 == Await(x)
             d3 == Put(Artifact("digest12", 0, 0))
             o3 == Await(Artifact("digest12", 0, 0))
             s4 == Put(Artifact("signature12", 0, 0))
             d5 == Put(y)
             p6 == SetPhase("close-unknown", seller.pending)
             o7 == Call("broadcast")
             s8 == SendFrame(y)
  <1>1. /\ y \in Artifacts /\ y.kind = "kind13" /\ y.auth = 0 /\ y.sequence = x.sequence
        /\ Artifact("digest12", 0, 0) \in Artifacts /\ Artifact("digest12", 0, 0).kind = "digest12"
        /\ Artifact("signature12", 0, 0) \in Artifacts /\ Artifact("signature12", 0, 0).kind = "signature12"
    <2>1. x.sequence \in Nat /\ "kind13" \in Kinds /\ "digest12" \in Kinds /\ "signature12" \in Kinds
      BY ArtifactIs DEF Kinds
    <2> QED BY <2>1, ArtifactShape
  <1>2. /\ d1.op = "put" /\ d1.artifact = x
        /\ d3.op = "put" /\ d3.artifact.kind = "digest12"
        /\ s4.op = "put" /\ s4.artifact.kind = "signature12"
        /\ d5.op = "put" /\ d5.artifact = y
        /\ s8.op = "send" /\ s8.artifact = y
        /\ o2.op = "await" /\ o2.artifact.kind = "kind12"
        /\ o3.op = "await" /\ o3.artifact.kind = "digest12"
    BY <1>1, EffectOf, AwaitOf
  <1>3. /\ f2.op = "fail" /\ o7.op = "broadcast"
    BY CallShape DEF Ops
  <1>4. /\ p6.op = "phase" /\ p6.phase = "close-unknown"
    BY DEF SetPhase
  <1>5. ClosingEffects(x) = {d1, f2, o2, d3, o3, s4, d5, p6, o7, s8}
    BY DEF ClosingEffects
  <1>6. /\ x \in seller.file \/ d1 \in E
        /\ o7 \in E => x.sequence >= n /\ p6 \in E
        /\ d5 \in E => x.sequence < n \/ seller.phase = "closed" \/ p6 \in E
    OBVIOUS
  <1> HIDE DEF y, d1, f2, o2, d3, o3, s4, d5, p6, o7, s8
  <1>7. \A e \in E : e \in {d1, f2, o2, d3, o3, s4, d5, p6, o7, s8}
    BY <1>5
  <1>8. x \in Evidence(seller, E)
    BY <1>2, <1>6 DEF Evidence
  <1>9. p6 \in E => WillTell(E)
    BY <1>4 DEF WillTell
  <1>10. SellerAhead(seller, n, E, b)
    <2>1. d5 \in E => SellerPuts(seller, n, E, b, d5)
      BY <1>1, <1>2, <1>8 DEF SellerPuts
    <2>2. SellerPuts(seller, n, E, b, d1)
      BY <1>2 DEF SellerPuts
    <2>3. SellerPuts(seller, n, E, b, d3) /\ SellerPuts(seller, n, E, b, s4)
      BY <1>2 DEF SellerPuts
    <2>4. SellerPhases(seller, E, p6)
      BY <1>4 DEF SellerPhases, OpenPhases
    <2>5. SellerSends(n, b, s8)
      BY <1>1, <1>2 DEF SellerSends
    <2>6. o7 \in E => Closes(seller, n, E) /\ WillTell(E)
      BY <1>6, <1>8, <1>9 DEF Closes
    <2>7. SellerAwaits(E, o2) /\ SellerAwaits(E, o3)
      BY <1>2, <1>3, <1>4, <1>7 DEF SellerAwaits
    <2> QED BY <1>2, <1>3, <1>4, <1>7, <2>1, <2>2, <2>3, <2>4, <2>5, <2>6, <2>7 DEF SellerAhead
  <1>11. ASSUME crashes = 0 PROVE SellerSettles(seller, n, E)
    <2>1. SellerSettles(seller, n, {})
      BY <1>11 DEF SellerOK
    <2>2. ~Tells({})
      BY DEF Tells, WillTell
    <2>3. Of(seller.file, "kind8") = {}
      BY <2>1 DEF SellerSettles, Arbitrates, Of
    <2>4. ~Arbitrates(seller, {}) /\ ~Arbitrates(seller, E)
      BY <1>2, <1>3, <1>4, <1>7, <2>3 DEF Arbitrates
    <2>5. \A e \in E : e.op = "put" /\ e.artifact.kind = "kind13" => e = d5
      BY <1>1, <1>2, <1>3, <1>4, <1>7
    <2>6. \A e \in E : ~( \/ e.op \in {"exchange", "settle"}
                          \/ e.op = "phase" /\ e.phase = "arbitration-prepared"
                          \/ e.op = "put" /\ e.artifact.kind = "arbitrated"
                          \/ e.op = "await" /\ e.artifact.kind = "digest8")
      BY <1>1, <1>2, <1>3, <1>4, <1>7
    <2>7. \A e \in E : e.op = "put" /\ e.artifact.kind = "kind13" =>
            e.artifact.sequence < n \/ seller.phase = "closed" \/ WillTell(E)
      BY <1>1, <1>2, <1>6, <1>9, <2>5
    <2> QED BY <2>1, <2>2, <2>4, <2>6, <2>7 DEF SellerSettles
  <1> QED BY <1>10, <1>11 DEF SellerOK

(* CompleteClose: the answer, and the broadcast if the amount suffices.    *)
LEMMA CompleteCloseStages ==
  ASSUME seller \in Sessions, NEW n \in Nat, n = Countersigned, NEW x \in Artifacts
  PROVE  LET E == Ahead(CompleteClose(x)) IN
         /\ Within(CompleteClose(x), 32, 80)
         /\ E \subseteq ClosingEffects(x)
         /\ Call("broadcast") \in E => x.sequence >= n /\ SetPhase("close-unknown", seller.pending) \in E
         /\ x.sequence < n \/ seller.phase = "closed" \/ SetPhase("close-unknown", seller.pending) \in E
  <1> DEFINE y == Artifact("kind13", 0, x.sequence)
             f2 == Call("fail")
             d5 == Put(y)
             p6 == SetPhase("close-unknown", seller.pending)
             o7 == Call("broadcast")
             s8 == SendFrame(y)
             w1 == When(y \notin seller.file, <<d5>>)
             w2 == When(seller.phase # "closed", <<p6, o7>>)
             u == w2 \o <<s8>>
             v == IF x.sequence < Countersigned THEN <<f2>> ELSE u
             q == w1 \o v
  <1>1. y \in Artifacts /\ y.kind = "kind13" /\ x.sequence \in Nat
    <2>1. x.sequence \in Nat /\ "kind13" \in Kinds
      BY ArtifactIs DEF Kinds
    <2> QED BY <2>1, ArtifactShape
  <1>2. /\ d5 \in Effects /\ d5.op = "put" /\ d5.artifact = y /\ Stage(d5) = 32
        /\ s8 \in Effects /\ s8.op = "send" /\ Stage(s8) = 60
    BY <1>1, EffectOf DEF PutStage, SendStage
  <1>3. /\ f2 \in Effects /\ f2.op = "fail" /\ Stage(f2) = 80
        /\ o7 \in Effects /\ o7.op = "broadcast" /\ Stage(o7) = 36
    <2>1. f2 \in Effects /\ f2.op = "fail" /\ o7 \in Effects /\ o7.op = "broadcast"
      BY CallShape DEF Ops
    <2> QED BY <2>1 DEF Stage, CallStage
  <1>4. p6 \in Effects /\ p6.op = "phase" /\ Stage(p6) = 34
    <2>1. "close-unknown" \in PoolPhases /\ seller.pending \in Nat
      BY DEF PoolPhases, SellerPhaseNames, Sessions
    <2> QED BY <2>1, PhaseOf DEF PhaseStage
  <1>5. CompleteClose(x) = q
    BY DEF CompleteClose
  <1>6. \A e \in {f2, d5, p6, o7, s8} : e \in ClosingEffects(x)
    BY DEF ClosingEffects
  <1> HIDE DEF y, f2, d5, p6, o7, s8
  <1>8. Within(w1, 32, 32) /\ \A e \in Ahead(w1) : e = d5
    <2>1. Within(<<d5>>, 32, 32) /\ Ahead(<<d5>>) = {d5}
      BY <1>2, OneWithin
    <2>2. Within(w1, 32, 32) /\ Ahead(w1) = IF y \notin seller.file THEN {d5} ELSE {}
      BY <2>1, WhenWithin
    <2> QED BY <2>2
  <1>9. Within(w2, 34, 36) /\ Ahead(w2) = IF seller.phase # "closed" THEN {p6, o7} ELSE {}
    <2>1. Within(<<p6, o7>>, 34, 36) /\ Ahead(<<p6, o7>>) = {p6, o7}
      BY <1>3, <1>4, TwoWithin DEF Before
    <2> QED BY <2>1, WhenWithin
  <1>10. Within(<<s8>>, 60, 80) /\ Ahead(<<s8>>) = {s8}
    BY <1>2, OneWithin
  <1>11. Within(<<f2>>, 34, 80) /\ Ahead(<<f2>>) = {f2}
    BY <1>3, OneWithin
  <1> HIDE DEF w1, w2
  <1>12. Within(u, 34, 80) /\ Ahead(u) = Ahead(w2) \union Ahead(<<s8>>)
    <2>1. Within(w2, 34, 36) /\ Within(<<s8>>, 60, 80)
      BY <1>9, <1>10
    <2> QED BY <2>1, JoinWithin
  <1> HIDE DEF u
  <1>13. /\ Within(v, 34, 80)
         /\ Ahead(v) = IF x.sequence < n THEN {f2} ELSE (IF seller.phase # "closed" THEN {p6, o7} ELSE {}) \union {s8}
    BY <1>9, <1>10, <1>11, <1>12
  <1> HIDE DEF v
  <1>14. Within(q, 32, 80) /\ Ahead(q) = Ahead(w1) \union Ahead(v)
    <2>1. Within(w1, 32, 32) /\ Within(v, 34, 80)
      BY <1>8, <1>13
    <2> QED BY <2>1, JoinWithin
  <1> HIDE DEF q
  <1>15. o7 \notin {d5, f2, s8}
    BY <1>2, <1>3
  <1>16. o7 \in Ahead(q) => x.sequence >= n /\ p6 \in Ahead(q)
    BY <1>1, <1>8, <1>13, <1>14, <1>15
  <1>17. x.sequence < n \/ seller.phase = "closed" \/ p6 \in Ahead(q)
    BY <1>13, <1>14
  <1>18. \A e \in Ahead(q) : e \in {f2, d5, p6, o7, s8}
    BY <1>8, <1>13, <1>14
  <1> QED BY <1>5, <1>6, <1>14, <1>16, <1>17, <1>18 DEF p6, o7

(* HandleKind12, where an answer was signed before ...                     *)
LEMMA CompleteClosePlan ==
  ASSUME seller \in Sessions, NEW n \in Nat, n = Countersigned, NEW c, NEW b, NEW crashes,
         SellerOK(seller, n, c, {}, b, crashes), Of(seller.listed, "kind8") = {},
         NEW x \in Artifacts, x.kind = "kind12", Of(seller.file, "kind12") \subseteq {x}, Ending(b),
         Of(seller.file, "kind13") # {}
  PROVE  Within(CompleteClose(x), 2, 80) /\ SellerOK(seller, n, c, Ahead(CompleteClose(x)), b, crashes)
  <1> DEFINE E == Ahead(CompleteClose(x))
  <1>1. /\ Within(CompleteClose(x), 32, 80)
        /\ E \subseteq ClosingEffects(x)
        /\ Call("broadcast") \in E => x.sequence >= n /\ SetPhase("close-unknown", seller.pending) \in E
        /\ x.sequence < n \/ seller.phase = "closed" \/ SetPhase("close-unknown", seller.pending) \in E
    BY CompleteCloseStages
  <1>2. x \in seller.file
    BY DEF SellerOK, SellerFiles, Of
  <1>3. Within(CompleteClose(x), 2, 80)
    BY <1>1, WithinAll
  <1> HIDE DEF E
  <1>4. SellerOK(seller, n, c, E, b, crashes)
    BY <1>1, <1>2, ClosingOK
  <1> QED BY <1>3, <1>4 DEF E

(* ... and where it is signed now.                                         *)
LEMMA SignClosePlan ==
  ASSUME seller \in Sessions, NEW n \in Nat, n = Countersigned, NEW c, NEW b, NEW crashes,
         SellerOK(seller, n, c, {}, b, crashes), Of(seller.listed, "kind8") = {},
         NEW x \in Artifacts, x.kind = "kind12", Of(seller.file, "kind12") \subseteq {x}, Ending(b)
  PROVE  Within(SignClose(x), 2, 80) /\ SellerOK(seller, n, c, Ahead(SignClose(x)), b, crashes)
  <1> DEFINE d1 == Put(x)
             f2 == Call("fail")
             o2 == Await(x)
             d3 == Put(Artifact("digest12", 0, 0))
             o3 == Await(Artifact("digest12", 0, 0))
             s4 == Put(Artifact("signature12", 0, 0))
             p6 == SetPhase("close-unknown", seller.pending)
             o7 == Call("broadcast")
             w1 == When(x \notin seller.file, <<d1>>)
             sign == SignWith(Artifact("digest12", 0, 0), Artifact("signature12", 0, 0))
             w2 == When(~Holds(seller.file, "signature12", 0), sign)
             z == CompleteClose(x)
             r == <<o2>> \o w2
             u == r \o z
             uncertain == Uncertain(seller.file, "digest12", "signature12", 0)
             v == IF uncertain THEN <<f2>> ELSE u
             q == w1 \o v
             C == ClosingEffects(x)
  <1>1. /\ Artifact("digest12", 0, 0) \in Artifacts /\ Artifact("digest12", 0, 0).kind = "digest12"
        /\ Artifact("signature12", 0, 0) \in Artifacts /\ Artifact("signature12", 0, 0).kind = "signature12"
    <2>1. "digest12" \in Kinds /\ "signature12" \in Kinds
      BY DEF Kinds
    <2> QED BY <2>1, ArtifactShape
  <1>2. /\ d1 \in Effects /\ d1.op = "put" /\ d1.artifact = x /\ Stage(d1) = 20
        /\ d3 \in Effects /\ d3.op = "put" /\ d3.artifact.kind = "digest12" /\ Stage(d3) = 22
        /\ s4 \in Effects /\ s4.op = "put" /\ s4.artifact.kind = "signature12" /\ Stage(s4) = 24
        /\ o2 \in Effects /\ o2.op = "await" /\ o2.artifact.kind = "kind12" /\ Stage(o2) = 21
        /\ o3 \in Effects /\ o3.op = "await" /\ o3.artifact.kind = "digest12" /\ Stage(o3) = 23
    BY <1>1, EffectOf, AwaitOf DEF PutStage, AwaitStage
  <1>3. f2 \in Effects /\ f2.op = "fail" /\ Stage(f2) = 80 /\ o7.op = "broadcast"
    <2>1. f2 \in Effects /\ f2.op = "fail" /\ o7.op = "broadcast"
      BY CallShape DEF Ops
    <2> QED BY <2>1 DEF Stage, CallStage
  <1>4. /\ Within(z, 32, 80)
        /\ Ahead(z) \subseteq C
        /\ o7 \in Ahead(z) => x.sequence >= n /\ p6 \in Ahead(z)
        /\ x.sequence < n \/ seller.phase = "closed" \/ p6 \in Ahead(z)
    BY CompleteCloseStages
  <1>5. SignClose(x) = q
    BY DEF SignClose
  <1>6. d1 \in C /\ f2 \in C /\ o2 \in C /\ d3 \in C /\ o3 \in C /\ s4 \in C
    BY DEF ClosingEffects
  <1>7. Within(sign, 22, 24) /\ Ahead(sign) = {d3, o3, s4}
    <2>1. Stage(d3) = 22 /\ Stage(o3) = 22 + 1 /\ Stage(s4) = 22 + 2 /\ 22 + 2 = 24 /\ 22 \in Nat
      BY <1>2
    <2>2. Within(sign, 22, 22 + 2) /\ Ahead(sign) = {d3, o3, s4}
      BY <1>1, <2>1, SignWithin
    <2> QED BY <2>1, <2>2
  <1> HIDE DEF d1, f2, o2, d3, o3, s4, p6, o7, z, uncertain, C, sign
  <1>8. Within(w1, 20, 20) /\ Ahead(w1) = IF x \notin seller.file THEN {d1} ELSE {}
    <2>1. Within(<<d1>>, 20, 20) /\ Ahead(<<d1>>) = {d1}
      BY <1>2, OneWithin
    <2> QED BY <2>1, WhenWithin
  <1>9. Within(w2, 22, 24) /\ \A e \in Ahead(w2) : e \in {d3, o3, s4}
    <2>1. Within(w2, 22, 24) /\ Ahead(w2) = IF ~Holds(seller.file, "signature12", 0) THEN {d3, o3, s4} ELSE {}
      BY <1>7, WhenWithin
    <2> QED BY <2>1
  <1>10. Within(<<f2>>, 21, 80) /\ Ahead(<<f2>>) = {f2}
    BY <1>3, OneWithin
  <1>11. Within(<<o2>>, 21, 21) /\ Ahead(<<o2>>) = {o2}
    BY <1>2, OneWithin
  <1> HIDE DEF w1, w2
  <1>12. Within(r, 21, 24) /\ Ahead(r) = {o2} \union Ahead(w2)
    <2>1. Within(r, 21, 24) /\ Ahead(r) = Ahead(<<o2>>) \union Ahead(w2)
      BY <1>9, <1>11, JoinWithin
    <2> QED BY <1>11, <2>1
  <1> HIDE DEF r
  <1>13. Within(u, 21, 80) /\ Ahead(u) = Ahead(r) \union Ahead(z)
    <2>1. Within(r, 21, 24) /\ Within(z, 32, 80)
      BY <1>4, <1>12
    <2> QED BY <2>1, JoinWithin
  <1> HIDE DEF u
  <1>14. Within(v, 21, 80) /\ Ahead(v) = IF uncertain THEN {f2} ELSE {o2} \union Ahead(w2) \union Ahead(z)
    BY <1>10, <1>13, <1>12
  <1> HIDE DEF v
  <1>15. Within(q, 20, 80) /\ Ahead(q) = Ahead(w1) \union Ahead(v)
    <2>1. Within(w1, 20, 20) /\ Within(v, 21, 80)
      BY <1>8, <1>14
    <2> QED BY <2>1, JoinWithin
  <1> HIDE DEF q
  <1> DEFINE E == Ahead(q)
  <1>16. E \subseteq C
    <2> SUFFICES ASSUME NEW e \in E PROVE e \in C
      OBVIOUS
    <2>1. e \in {d1, f2, o2, d3, o3, s4} \/ e \in Ahead(z)
      BY <1>8, <1>9, <1>14, <1>15
    <2> QED BY <1>4, <1>6, <2>1
  <1>17. x \in seller.file \/ d1 \in E
    BY <1>8, <1>15
  <1>18. o7 \in E => x.sequence >= n /\ p6 \in E
    <2> SUFFICES ASSUME o7 \in E PROVE x.sequence >= n /\ p6 \in E
      OBVIOUS
    <2>1. o7 \notin {d1, f2, o2, d3, o3, s4}
      BY <1>2, <1>3
    <2>2. o7 \in Ahead(z) /\ ~uncertain
      BY <1>8, <1>9, <1>14, <1>15, <2>1
    <2> QED BY <1>4, <1>14, <1>15, <2>2
  <1>19. Put(Artifact("kind13", 0, x.sequence)) \in E => x.sequence < n \/ seller.phase = "closed" \/ p6 \in E
    <2> DEFINE d5 == Put(Artifact("kind13", 0, x.sequence))
    <2> SUFFICES ASSUME d5 \in E PROVE x.sequence < n \/ seller.phase = "closed" \/ p6 \in E
      OBVIOUS
    <2>1. d5.op = "put" /\ d5.artifact.kind = "kind13"
      BY DEF Put, Effect, Artifact
    <2> HIDE DEF d5
    <2>2. d5 \notin {d1, f2, o2, d3, o3, s4}
      BY <1>2, <1>3, <2>1
    <2>3. ~uncertain
      BY <1>8, <1>14, <1>15, <2>2
    <2> QED BY <1>4, <1>14, <1>15, <2>3
  <1> HIDE DEF E
  <1>20. SellerOK(seller, n, c, E, b, crashes)
    <2>1. /\ E \subseteq ClosingEffects(x)
          /\ x \in seller.file \/ Put(x) \in E
          /\ Call("broadcast") \in E => x.sequence >= n /\ SetPhase("close-unknown", seller.pending) \in E
          /\ Put(Artifact("kind13", 0, x.sequence)) \in E =>
               x.sequence < n \/ seller.phase = "closed" \/ SetPhase("close-unknown", seller.pending) \in E
      BY <1>16, <1>17, <1>18, <1>19 DEF C, d1, o7, p6
    <2> QED BY <2>1, ClosingOK
  <1>21. Within(q, 2, 80)
    BY <1>15, WithinAll
  <1> QED BY <1>5, <1>20, <1>21 DEF E

(* submit: what SubmitArbitration starts.                                  *)
ArbitrationSigning ==
  IF Uncertain(seller.file, "digest8", "signature8", 0) THEN <<>>
  ELSE When(~Holds(seller.file, "signature8", 0), SignWith(Artifact("digest8", 0, 0), Artifact("signature8", 0, 0)))
       \o <<Put(Artifact("arbitrated", 0, 0)), Call("settle")>>
ArbitrationPlan ==
  LET kind8 == Artifact("kind8", seller.pending, 0) IN
  When(Of(seller.file, "kind8") = {},
       <<Effect("file", kind8), Effect("list", kind8), SetPhase("arbitration-prepared", seller.pending)>>)
  \o IF Artifact("arbitrated", 0, 0) \in seller.file THEN <<Call("settle")>>
     ELSE <<Call("exchange")>> \o ArbitrationSigning

(* submitArbitration leaves the seller as it should be.                     *)
LEMMA ArbitrationPlanOK ==
  ASSUME seller \in Sessions, NEW n, NEW c, NEW b, NEW crashes, SellerOK(seller, n, c, {}, b, crashes),
         Of(seller.file, "kind8") # {} \/ seller.phase = "delivery-prepared"
  PROVE  Within(ArbitrationPlan, 2, 80) /\ SellerOK(seller, n, c, Ahead(ArbitrationPlan), b, crashes)
  <1> DEFINE x == Artifact("kind8", seller.pending, 0)
             f1 == Effect("file", x)
             l2 == Effect("list", x)
             p3 == SetPhase("arbitration-prepared", seller.pending)
             o4 == Call("exchange")
             d5 == Put(Artifact("digest8", 0, 0))
             o6 == Await(Artifact("digest8", 0, 0))
             s6 == Put(Artifact("signature8", 0, 0))
             sign == SignWith(Artifact("digest8", 0, 0), Artifact("signature8", 0, 0))
             d7 == Put(Artifact("arbitrated", 0, 0))
             o8 == Call("settle")
             fresh == Of(seller.file, "kind8") = {}
             w1 == When(fresh, <<f1, l2, p3>>)
             w2 == When(~Holds(seller.file, "signature8", 0), sign)
             z == <<d7, o8>>
             u == w2 \o z
             v == IF Uncertain(seller.file, "digest8", "signature8", 0) THEN <<>> ELSE u
             t == <<o4>> \o v
             r == IF Artifact("arbitrated", 0, 0) \in seller.file THEN <<o8>> ELSE t
             q == w1 \o r
  <1>1. /\ x \in Artifacts /\ x.kind = "kind8"
        /\ Artifact("digest8", 0, 0) \in Artifacts /\ Artifact("digest8", 0, 0).kind = "digest8"
        /\ Artifact("signature8", 0, 0) \in Artifacts /\ Artifact("signature8", 0, 0).kind = "signature8"
        /\ Artifact("arbitrated", 0, 0) \in Artifacts /\ Artifact("arbitrated", 0, 0).kind = "arbitrated"
    <2>1. /\ "kind8" \in Kinds /\ "digest8" \in Kinds /\ "signature8" \in Kinds /\ "arbitrated" \in Kinds
          /\ seller.pending \in Nat
      BY DEF Kinds, Sessions
    <2> QED BY <2>1, ArtifactShape
  <1>2. /\ f1 \in Effects /\ f1.op = "file" /\ f1.artifact = x /\ Stage(f1) = 38
        /\ l2 \in Effects /\ l2.op = "list" /\ l2.artifact = x /\ Stage(l2) = 40
        /\ d5 \in Effects /\ d5.op = "put" /\ d5.artifact.kind = "digest8" /\ Stage(d5) = 46
        /\ s6 \in Effects /\ s6.op = "put" /\ s6.artifact.kind = "signature8" /\ Stage(s6) = 48
        /\ d7 \in Effects /\ d7.op = "put" /\ d7.artifact.kind = "arbitrated" /\ Stage(d7) = 50
        /\ o6 \in Effects /\ o6.op = "await" /\ o6.artifact.kind = "digest8" /\ Stage(o6) = 47
    BY <1>1, EffectOf, AwaitOf DEF PutStage, FileStage, AwaitStage
  <1>3. /\ o4 \in Effects /\ o4.op = "exchange" /\ Stage(o4) = 44
        /\ o8 \in Effects /\ o8.op = "settle" /\ Stage(o8) = 52
    <2>1. o4 \in Effects /\ o4.op = "exchange" /\ o8 \in Effects /\ o8.op = "settle"
      BY CallShape DEF Ops
    <2> QED BY <2>1 DEF Stage, CallStage
  <1>4. p3 \in Effects /\ p3.op = "phase" /\ p3.phase = "arbitration-prepared" /\ Stage(p3) = 42
    <2>1. "arbitration-prepared" \in PoolPhases /\ seller.pending \in Nat
      BY DEF PoolPhases, SellerPhaseNames, Sessions
    <2> QED BY <2>1, PhaseOf DEF PhaseStage
  <1>5. ArbitrationPlan = q
    BY DEF ArbitrationPlan, ArbitrationSigning
  <1>6. l2 = Effect("list", x)
    OBVIOUS
  <1>7. Within(sign, 46, 48) /\ Ahead(sign) = {d5, o6, s6}
    <2>1. Stage(d5) = 46 /\ Stage(o6) = 46 + 1 /\ Stage(s6) = 46 + 2 /\ 46 + 2 = 48 /\ 46 \in Nat
      BY <1>2
    <2>2. Within(sign, 46, 46 + 2) /\ Ahead(sign) = {d5, o6, s6}
      BY <1>1, <2>1, SignWithin
    <2> QED BY <2>1, <2>2
  <1> HIDE DEF f1, l2, p3, o4, d5, o6, s6, d7, o8, x, sign
  <1>8. Within(w1, 38, 42) /\ Ahead(w1) = IF fresh THEN {f1, l2, p3} ELSE {}
    <2>1. Within(<<f1, l2>>, 38, 40) /\ Ahead(<<f1, l2>>) = {f1, l2}
      BY <1>2, TwoWithin DEF Before
    <2>2. Within(<<p3>>, 42, 42) /\ Ahead(<<p3>>) = {p3}
      BY <1>4, OneWithin
    <2>3. /\ Within(<<f1, l2>> \o <<p3>>, 38, 42)
          /\ Ahead(<<f1, l2>> \o <<p3>>) = Ahead(<<f1, l2>>) \union Ahead(<<p3>>)
      BY <2>1, <2>2, JoinWithin
    <2>4. <<f1, l2, p3>> = <<f1, l2>> \o <<p3>>
      BY <1>2, <1>4
    <2>5. Within(<<f1, l2, p3>>, 38, 42) /\ Ahead(<<f1, l2, p3>>) = {f1, l2, p3}
      BY <2>1, <2>2, <2>3, <2>4
    <2> QED BY <2>5, WhenWithin
  <1>9. Within(w2, 46, 48) /\ \A e \in Ahead(w2) : e \in {d5, o6, s6}
    <2>1. Within(w2, 46, 48) /\ Ahead(w2) = IF ~Holds(seller.file, "signature8", 0) THEN {d5, o6, s6} ELSE {}
      BY <1>7, WhenWithin
    <2> QED BY <2>1
  <1>10. Within(z, 50, 80) /\ Ahead(z) = {d7, o8}
    BY <1>2, <1>3, TwoWithin DEF Before
  <1>11. Within(<<o4>>, 44, 44) /\ Ahead(<<o4>>) = {o4}
    BY <1>3, OneWithin
  <1>12. Within(<<o8>>, 44, 80) /\ Ahead(<<o8>>) = {o8}
    BY <1>3, OneWithin
  <1>13. Within(<<>>, 46, 80) /\ Ahead(<<>>) = {}
    BY NoneWithin
  <1> HIDE DEF w1, w2, z
  <1>14. Within(u, 46, 80) /\ Ahead(u) = Ahead(w2) \union Ahead(z)
    <2>1. Within(w2, 46, 48) /\ Within(z, 50, 80)
      BY <1>9, <1>10
    <2> QED BY <2>1, JoinWithin
  <1> HIDE DEF u
  <1>15. Within(v, 46, 80) /\ \A e \in Ahead(v) : e \in {d5, o6, s6, d7, o8}
    BY <1>9, <1>10, <1>13, <1>14
  <1> HIDE DEF v
  <1>16. Within(t, 44, 80) /\ Ahead(t) = Ahead(<<o4>>) \union Ahead(v)
    <2>1. Within(<<o4>>, 44, 44) /\ Within(v, 46, 80)
      BY <1>11, <1>15
    <2> QED BY <2>1, JoinWithin
  <1> HIDE DEF t
  <1>17. Within(r, 44, 80) /\ \A e \in Ahead(r) : e \in {o4, d5, o6, s6, d7, o8}
    BY <1>11, <1>12, <1>15, <1>16
  <1> HIDE DEF r
  <1>18. Within(q, 38, 80) /\ Ahead(q) = Ahead(w1) \union Ahead(r)
    <2>1. Within(w1, 38, 42) /\ Within(r, 44, 80)
      BY <1>8, <1>17
    <2> QED BY <2>1, JoinWithin
  <1> HIDE DEF q
  <1> DEFINE E == Ahead(q)
  <1>19. /\ \A e \in E : e \in {o4, d5, o6, s6, d7, o8} \/ (fresh /\ e \in {f1, l2, p3})
         /\ fresh => f1 \in E /\ l2 \in E
    BY <1>8, <1>17, <1>18
  <1> HIDE DEF E
  <1>20. SellerAhead(seller, n, E, b)
    <2>1. SellerPuts(seller, n, E, b, d5) /\ SellerPuts(seller, n, E, b, s6) /\ SellerPuts(seller, n, E, b, d7)
      BY <1>2 DEF SellerPuts
    <2>2. SellerPhases(seller, E, p3)
      BY <1>4 DEF SellerPhases, OpenPhases
    <2>3. \A e \in E : e.op \in {"file", "list"} => Stage(e) < Stage(o6)
      BY <1>2, <1>3, <1>4, <1>19
    <2>4. SellerAwaits(E, o6)
      BY <1>2, <2>3 DEF SellerAwaits
    <2> QED BY <1>1, <1>2, <1>3, <1>4, <1>19, <2>1, <2>2, <2>4 DEF SellerAhead
  <1>21. ASSUME crashes = 0 PROVE SellerSettles(seller, n, E)
    <2>1. SellerSettles(seller, n, {}) /\ ~Tells({})
      BY <1>21 DEF SellerOK, Tells, WillTell
    <2>2. Arbitrates(seller, E)
      BY <1>1, <1>2, <1>19 DEF Arbitrates
    <2>3. ~fresh => Arbitrates(seller, {})
      BY DEF Arbitrates
    <2>4. \A y \in Of(seller.file, "kind13") : y.sequence < n
      <3>1. CASE fresh
        <4>1. seller.phase \notin {"close-unknown", "closed"}
          BY <3>1
        <4> QED BY <2>1, <4>1 DEF SellerSettles
      <3>2. CASE ~fresh
        BY <2>1, <2>3, <3>2 DEF SellerSettles
      <3> QED BY <3>1, <3>2
    <2>5. \A e \in E : ~(e.op = "put" /\ e.artifact.kind = "kind13")
      BY <1>1, <1>2, <1>3, <1>4, <1>19
    <2>6. \A y \in Of(seller.file, "kind8") : y \in seller.listed
      BY <2>1, <2>3 DEF SellerSettles
    <2>7. \A e \in E : e.op = "file" => Effect("list", e.artifact) \in E
      BY <1>2, <1>3, <1>4, <1>6, <1>19
    <2> QED BY <2>1, <2>2, <2>4, <2>5, <2>6, <2>7 DEF SellerSettles
  <1>22. SellerOK(seller, n, c, E, b, crashes)
    BY <1>20, <1>21 DEF SellerOK
  <1>23. Within(q, 2, 80)
    BY <1>18, WithinAll
  <1> QED BY <1>5, <1>22, <1>23 DEF E

-----------------------------------------------------------------------------
(* The pool's invariant holds at first, and is kept by every step.         *)

LEMMA PoolBegins == PoolInit => PoolInv
  <1> SUFFICES ASSUME PoolInit PROVE PoolInv
    OBVIOUS
  <1>1. /\ buyer.phase = "funded" /\ buyer.pending = 0 /\ buyer.file = {} /\ buyer.listed = {} /\ buyer \in Sessions
    BY DEF PoolInit, Sessions, PoolPhases, BuyerPhaseNames
  <1>2. /\ seller.phase = "opening-presigned" /\ seller.file = {} /\ seller.listed = {} /\ seller \in Sessions
    BY DEF PoolInit, Sessions, PoolPhases, SellerPhaseNames
  <1>3. IsFiniteSet({}) /\ \A k : Of({}, k) = {} /\ Many({}, k) = 0
    BY FS_EmptySet DEF Of, Many
  <1>4. /\ running \in [Sides -> Todos] /\ BuyerTodo = <<>> /\ SellerTodo = <<>>
    BY NothingAhead DEF PoolInit, Sides, Resting, Todos, BuyerTodo, SellerTodo
  <1>5. Kind4 \in Artifacts /\ Kind4.kind = "kind4"
    <2>1. "kind4" \in Kinds
      BY DEF Kinds
    <2> QED BY <2>1, ArtifactShape DEF Kind4
  <1>6. toSeller \in Seq(Artifacts) /\ (\A x \in Ahead(toSeller) : x = Kind4) /\ toBuyer = <<>>
    BY <1>5, NothingAhead DEF PoolInit, Ahead
  <1>7. PoolTypes
    BY <1>1, <1>2, <1>3, <1>4, <1>6 DEF PoolInit, PoolTypes
  <1>8. Countersigned = 0
    BY <1>2, <1>3 DEF Countersigned, Many
  <1>9. BuyerOK(buyer, 0, chain, {})
    <2>1. BuyerFiles(buyer, 0)
      BY <1>1, <1>3 DEF BuyerFiles, Numbered
    <2>2. Unlisted(buyer) = {}
      BY <1>1, <1>3 DEF Unlisted
    <2>3. BuyerRecord(buyer, chain)
      BY <1>1, <1>3, <2>2 DEF BuyerRecord
    <2> QED BY <2>1, <2>3 DEF BuyerOK, BuyerAhead
  <1>10. SellerOK(seller, 0, chain, {}, buyer, crashed["seller"])
    <2>1. SellerFiles(seller, 0, buyer)
      BY <1>2, <1>3 DEF SellerFiles, Numbered
    <2>2. SellerChain(seller, 0, chain)
      BY DEF PoolInit, SellerChain
    <2>3. SellerSettles(seller, 0, {})
      BY <1>2, <1>3 DEF SellerSettles, Arbitrates
    <2> QED BY <2>1, <2>2, <2>3 DEF SellerOK, SellerAhead
  <1>11. FramesOK(buyer, 0, Ahead(toSeller), Ahead(toBuyer))
    BY <1>5, <1>6, NothingAhead DEF FramesOK
  <1> QED BY <1>4, <1>7, <1>8, <1>9, <1>10, <1>11, NothingAhead DEF PoolInv

(* What the invariant says of each side between two handlers.               *)
LEMMA PoolFacts ==
  ASSUME PoolInv
  PROVE  /\ buyer \in Sessions /\ IsFiniteSet(buyer.file)
         /\ seller \in Sessions /\ IsFiniteSet(seller.file) /\ IsFiniteSet(seller.listed)
         /\ running \in [Sides -> Todos]
         /\ Countersigned \in Nat /\ Countersigned = Many(seller.listed, "paid")
         /\ Rests("buyer") => BuyerOK(buyer, Countersigned, chain, {})
         /\ Rests("seller") => SellerOK(seller, Countersigned, chain, {}, buyer, crashed["seller"])
         /\ crashed["seller"] \in Nat
  <1>1. PoolTypes
    BY DEF PoolInv
  <1>2. Countersigned \in Nat /\ Countersigned = Many(seller.listed, "paid")
    BY <1>1, ManyIsNat DEF PoolTypes, Countersigned, Many
  <1>3. Rests("buyer") => BuyerOK(buyer, Countersigned, chain, {})
    BY NothingAhead DEF PoolInv, Rests, BuyerTodo
  <1>4. Rests("seller") => SellerOK(seller, Countersigned, chain, {}, buyer, crashed["seller"])
    BY NothingAhead DEF PoolInv, Rests, SellerTodo
  <1> QED BY <1>1, <1>2, <1>3, <1>4 DEF PoolTypes, Sides

(* The effect that comes next in a running handler.                        *)
LEMMA NextEffect ==
  ASSUME PoolInv, NEW side \in Sides, running[side].todo # <<>>
  PROVE  LET t == running[side].todo IN
         /\ Effected(side) \in Effects
         /\ Ahead(t) = {Effected(side)} \union Ahead(Tail(t))
         /\ Tail(t) \in Seq(Effects) /\ Sorted(Tail(t))
         /\ \A f \in Ahead(Tail(t)) : f \in Effects /\ Before(Effected(side), f)
         /\ Rest(side) \in Todos /\ Rest(side).todo = Tail(t)
  <1> DEFINE t == running[side].todo
  <1>1. running[side] \in Todos /\ t \in Seq(Effects) /\ running[side].linked \in BOOLEAN
    BY DEF PoolInv, PoolTypes, Todos
  <1>2. Sorted(t)
    BY DEF PoolInv, BuyerTodo, SellerTodo, Sides
  <1>3. t # <<>>
    OBVIOUS
  <1>4. Effected(side) = Head(t)
    BY DEF Effected
  <1> HIDE DEF t
  <1>5. /\ Head(t) \in Effects /\ Tail(t) \in Seq(Effects) /\ Ahead(t) = {Head(t)} \union Ahead(Tail(t))
        /\ Len(t) \in Nat \ {0} /\ Len(Tail(t)) = Len(t) - 1
    BY <1>1, <1>3, HeadAndTail
  <1>6. Sorted(Tail(t)) /\ \A e \in Ahead(Tail(t)) : Before(Head(t), e)
    BY <1>1, <1>2, <1>3, HeadFirst
  <1>7. \A f \in Ahead(Tail(t)) : f \in Effects
    BY <1>5, TodoTypes
  <1>8. Rest(side) \in Todos /\ Rest(side).todo = Tail(t)
    <2>1. CASE Len(t) = 1
      <3>1. Tail(t) = <<>>
        <4>1. \A q \in Seq(Effects) : Len(q) = 0 => q = <<>>
          OBVIOUS
        <4>2. Tail(t) \in Seq(Effects) /\ Len(Tail(t)) = 0
          BY <1>5, <2>1
        <4> QED BY <4>1, <4>2
      <3> QED BY <2>1, <3>1, NothingAhead DEF Rest, Resting, Todos, t
    <2>2. CASE Len(t) # 1
      <3>1. Rest(side) = [todo |-> Tail(t), linked |-> running[side].linked]
        BY <2>2 DEF Rest, t
      <3> QED BY <1>1, <1>5, <3>1 DEF Todos
    <2> QED BY <2>1, <2>2
  <1> QED BY <1>4, <1>5, <1>6, <1>7, <1>8 DEF t

(* A step that leaves both sessions and the chain as they are.             *)
LEMMA HandlersMove ==
  ASSUME PoolInv, UNCHANGED <<buyer, seller, chain>>,
         up' \in BOOLEAN, losses' \in Nat, crashed' \in [Sides -> Nat],
         running' \in [Sides -> Todos], toSeller' \in Seq(Artifacts), toBuyer' \in Seq(Artifacts),
         FramesOK(buyer, Countersigned, Ahead(toSeller'), Ahead(toBuyer')),
         Sorted(running'["buyer"].todo), BuyerOK(buyer, Countersigned, chain, Ahead(running'["buyer"].todo)),
         Sorted(running'["seller"].todo),
         SellerOK(seller, Countersigned, chain, Ahead(running'["seller"].todo), buyer, crashed'["seller"])
  PROVE  PoolInv'
  <1>1. buyer' = buyer /\ seller' = seller /\ chain' = chain
    OBVIOUS
  <1>2. PoolTypes'
    BY <1>1 DEF PoolInv, PoolTypes
  <1>3. Countersigned' = Countersigned
    BY <1>1 DEF Countersigned
  <1>4. BuyerTodo' = running'["buyer"].todo /\ SellerTodo' = running'["seller"].todo
    BY DEF BuyerTodo, SellerTodo
  <1> QED BY <1>1, <1>2, <1>3, <1>4 DEF PoolInv

(* A handler of the buyer that starts ...                                  *)
LEMMA BuyerStarts ==
  ASSUME PoolInv, NEW s, Within(s, 2, 80), BuyerOK(buyer, Countersigned, chain, Ahead(s)),
         Start("buyer", s), UNCHANGED <<buyer, seller, chain, up, toSeller, poolBounds>>,
         toBuyer' \in Seq(Artifacts), Ahead(toBuyer') \subseteq Ahead(toBuyer)
  PROVE  PoolInv'
  <1>1. s \in Seq(Effects) /\ Sorted(s)
    BY DEF Within
  <1>2. /\ running' \in [Sides -> Todos]
        /\ running'["buyer"].todo = s /\ running'["seller"].todo = SellerTodo
    BY <1>1 DEF Start, PoolInv, PoolTypes, Todos, Sides, SellerTodo
  <1>3. /\ up' \in BOOLEAN /\ losses' \in Nat /\ crashed' \in [Sides -> Nat] /\ crashed' = crashed
        /\ toSeller' \in Seq(Artifacts) /\ toSeller' = toSeller
    BY DEF PoolInv, PoolTypes, poolBounds
  <1>4. FramesOK(buyer, Countersigned, Ahead(toSeller'), Ahead(toBuyer'))
    BY <1>3 DEF PoolInv, FramesOK
  <1>5. /\ Sorted(SellerTodo)
        /\ SellerOK(seller, Countersigned, chain, Ahead(SellerTodo), buyer, crashed'["seller"])
    BY <1>3 DEF PoolInv
  <1>6. UNCHANGED <<buyer, seller, chain>>
    OBVIOUS
  <1>7. /\ Sorted(running'["buyer"].todo) /\ BuyerOK(buyer, Countersigned, chain, Ahead(running'["buyer"].todo))
        /\ Sorted(running'["seller"].todo)
        /\ SellerOK(seller, Countersigned, chain, Ahead(running'["seller"].todo), buyer, crashed'["seller"])
    BY <1>1, <1>2, <1>5
  <1> QED BY <1>2, <1>3, <1>4, <1>6, <1>7, HandlersMove

(* ... and one of the seller.                                              *)
LEMMA SellerStarts ==
  ASSUME PoolInv, NEW s, Within(s, 2, 80),
         SellerOK(seller, Countersigned, chain, Ahead(s), buyer, crashed["seller"]),
         Start("seller", s), UNCHANGED <<buyer, seller, chain, up, toBuyer, poolBounds>>,
         toSeller' \in Seq(Artifacts), Ahead(toSeller') \subseteq Ahead(toSeller)
  PROVE  PoolInv'
  <1>1. s \in Seq(Effects) /\ Sorted(s)
    BY DEF Within
  <1>2. /\ running' \in [Sides -> Todos]
        /\ running'["seller"].todo = s /\ running'["buyer"].todo = BuyerTodo
    BY <1>1 DEF Start, PoolInv, PoolTypes, Todos, Sides, BuyerTodo
  <1>3. /\ up' \in BOOLEAN /\ losses' \in Nat /\ crashed' \in [Sides -> Nat] /\ crashed' = crashed
        /\ toBuyer' \in Seq(Artifacts) /\ toBuyer' = toBuyer
    BY DEF PoolInv, PoolTypes, poolBounds
  <1>4. FramesOK(buyer, Countersigned, Ahead(toSeller'), Ahead(toBuyer'))
    BY <1>3 DEF PoolInv, FramesOK
  <1>5. Sorted(BuyerTodo) /\ BuyerOK(buyer, Countersigned, chain, Ahead(BuyerTodo))
    BY DEF PoolInv
  <1>6. UNCHANGED <<buyer, seller, chain>>
    OBVIOUS
  <1>7. /\ Sorted(running'["buyer"].todo) /\ BuyerOK(buyer, Countersigned, chain, Ahead(running'["buyer"].todo))
        /\ Sorted(running'["seller"].todo)
        /\ SellerOK(seller, Countersigned, chain, Ahead(running'["seller"].todo), buyer, crashed'["seller"])
    BY <1>1, <1>2, <1>3, <1>5
  <1> QED BY <1>2, <1>3, <1>4, <1>6, <1>7, HandlersMove

(* The channel is emptied: handlers go on, or end as they may.             *)
LEMMA ChannelEmptied ==
  ASSUME PoolInv, UNCHANGED <<buyer, seller, chain>>, up' \in BOOLEAN, losses' \in Nat, crashed' \in [Sides -> Nat],
         crashed'["seller"] = 0 => crashed["seller"] = 0,
         toSeller' = <<>>, toBuyer' = <<>>, running' \in [Sides -> Todos],
         running'["buyer"].todo \in {BuyerTodo, <<>>},
         \/ running'["seller"].todo = SellerTodo
         \/ /\ running'["seller"].todo = <<>>
            /\ SellerOK(seller, Countersigned, chain, {}, buyer, crashed'["seller"])
  PROVE  PoolInv'
  <1>1. <<>> \in Seq(Artifacts) /\ Ahead(<<>>) = {}
    BY NothingAhead DEF Ahead
  <1>2. toSeller' = <<>> /\ toBuyer' = <<>>
    OBVIOUS
  <1>3. toSeller' \in Seq(Artifacts) /\ toBuyer' \in Seq(Artifacts)
    BY <1>1, <1>2
  <1>4. Ahead(toSeller') = {} /\ Ahead(toBuyer') = {}
    BY <1>1, <1>2
  <1>5. FramesOK(buyer, Countersigned, Ahead(toSeller'), Ahead(toBuyer'))
    BY <1>4 DEF FramesOK
  <1>6. Sorted(running'["buyer"].todo) /\ BuyerOK(buyer, Countersigned, chain, Ahead(running'["buyer"].todo))
    <2>1. CASE running'["buyer"].todo = BuyerTodo
      BY <2>1 DEF PoolInv
    <2>2. CASE running'["buyer"].todo = <<>>
      BY <2>2, NothingAhead, BuyerRests DEF PoolInv
    <2> QED BY <2>1, <2>2
  <1>7. /\ Sorted(running'["seller"].todo)
        /\ SellerOK(seller, Countersigned, chain, Ahead(running'["seller"].todo), buyer, crashed'["seller"])
    <2>1. CASE running'["seller"].todo = SellerTodo
      <3>1. Sorted(SellerTodo) /\ SellerOK(seller, Countersigned, chain, Ahead(SellerTodo), buyer, crashed["seller"])
        BY DEF PoolInv
      <3>2. SellerOK(seller, Countersigned, chain, Ahead(SellerTodo), buyer, crashed'["seller"])
        BY <3>1 DEF SellerOK
      <3> QED BY <2>1, <3>1, <3>2
    <2>2. CASE running'["seller"].todo = <<>> /\ running'["seller"].todo # SellerTodo
      BY <2>2, NothingAhead
    <2> QED BY <2>1, <2>2
  <1> QED BY <1>3, <1>5, <1>6, <1>7, HandlersMove

(* The buyer's session moves on ...                                        *)
LEMMA BuyerMoves ==
  ASSUME PoolInv, running["buyer"].todo # <<>>, Proceed("buyer"),
         UNCHANGED <<seller, chain, up, poolBounds, toBuyer, toSeller>>,
         buyer' \in Sessions, IsFiniteSet(buyer'.file), buyer.file \subseteq buyer'.file, Ending(buyer) => Ending(buyer'),
         BuyerOK(buyer', Countersigned, chain, Ahead(Tail(running["buyer"].todo)))
  PROVE  PoolInv'
  <1> DEFINE T == Tail(running["buyer"].todo)
  <1>1. "buyer" \in Sides
    BY DEF Sides
  <1>2. Rest("buyer") \in Todos /\ Rest("buyer").todo = T /\ Sorted(T)
    BY <1>1, NextEffect
  <1>3. /\ running' \in [Sides -> Todos]
        /\ running'["buyer"].todo = T /\ running'["seller"].todo = SellerTodo
    BY <1>1, <1>2 DEF Proceed, PoolInv, PoolTypes, Sides, SellerTodo
  <1>4. /\ seller' = seller /\ chain' = chain /\ up' = up /\ losses' = losses /\ crashed' = crashed
        /\ toBuyer' = toBuyer /\ toSeller' = toSeller
    BY DEF poolBounds
  <1>5. PoolTypes'
    BY <1>3, <1>4 DEF PoolInv, PoolTypes
  <1>6. Countersigned' = Countersigned /\ Countersigned \in Nat
    BY <1>4, PoolFacts DEF Countersigned
  <1>7. BuyerTodo' = T /\ SellerTodo' = SellerTodo
    BY <1>3 DEF BuyerTodo, SellerTodo
  <1>8. SellerOK(seller, Countersigned, chain, Ahead(SellerTodo), buyer', crashed["seller"])
    <2>1. SellerOK(seller, Countersigned, chain, Ahead(SellerTodo), buyer, crashed["seller"])
      BY DEF PoolInv
    <2> QED BY <2>1, SellerStays
  <1>9. FramesOK(buyer', Countersigned, Ahead(toSeller), Ahead(toBuyer))
    <2>1. FramesOK(buyer, Countersigned, Ahead(toSeller), Ahead(toBuyer)) /\ toBuyer \in Seq(Artifacts)
      BY DEF PoolInv, PoolTypes
    <2>2. \A x \in Ahead(toBuyer) : x \in Artifacts
      BY <2>1 DEF Ahead
    <2> QED BY <1>6, <2>1, <2>2, FramesStay
  <1>10. Sorted(SellerTodo)
    BY DEF PoolInv
  <1> QED BY <1>2, <1>4, <1>5, <1>6, <1>7, <1>8, <1>9, <1>10 DEF PoolInv

(* ... or the seller's, by one more payment at most.                       *)
LEMMA SellerMoves ==
  ASSUME PoolInv, running["seller"].todo # <<>>, Proceed("seller"),
         UNCHANGED <<buyer, up, poolBounds, toBuyer, toSeller>>,
         seller' \in Sessions, IsFiniteSet(seller'.file), IsFiniteSet(seller'.listed),
         chain' \in {"none", "close", "arbitrated"}, chain = "close" => chain' = "close",
         NEW m \in Nat, m = Many(seller'.listed, "paid"), Countersigned <= m,
         SellerOK(seller', m, chain', Ahead(Tail(running["seller"].todo)), buyer, crashed["seller"])
  PROVE  PoolInv'
  <1> DEFINE T == Tail(running["seller"].todo)
  <1>1. "seller" \in Sides
    BY DEF Sides
  <1>2. Rest("seller") \in Todos /\ Rest("seller").todo = T /\ Sorted(T)
    BY <1>1, NextEffect
  <1>3. /\ running' \in [Sides -> Todos]
        /\ running'["seller"].todo = T /\ running'["buyer"].todo = BuyerTodo
    BY <1>1, <1>2 DEF Proceed, PoolInv, PoolTypes, Sides, BuyerTodo
  <1>4. /\ buyer' = buyer /\ up' = up /\ losses' = losses /\ crashed' = crashed
        /\ toBuyer' = toBuyer /\ toSeller' = toSeller
    BY DEF poolBounds
  <1>5. PoolTypes'
    BY <1>3, <1>4 DEF PoolInv, PoolTypes
  <1>6. Countersigned' = m /\ Countersigned \in Nat
    BY PoolFacts DEF Countersigned, Many
  <1>7. BuyerTodo' = BuyerTodo /\ SellerTodo' = T
    BY <1>3 DEF BuyerTodo, SellerTodo
  <1>8. BuyerOK(buyer, m, chain', Ahead(BuyerTodo))
    <2>1. /\ BuyerOK(buyer, Countersigned, chain, Ahead(BuyerTodo)) /\ buyer \in Sessions /\ IsFiniteSet(buyer.file)
          /\ BuyerTodo \in Seq(Effects)
      BY DEF PoolInv, PoolTypes, Todos, BuyerTodo, Sides
    <2>2. \A e \in Ahead(BuyerTodo) : e \in Effects
      BY <2>1, TodoTypes
    <2> QED BY <1>6, <2>1, <2>2, BuyerStays
  <1>9. FramesOK(buyer, m, Ahead(toSeller), Ahead(toBuyer))
    <2>1. FramesOK(buyer, Countersigned, Ahead(toSeller), Ahead(toBuyer)) /\ toBuyer \in Seq(Artifacts)
      BY DEF PoolInv, PoolTypes
    <2>2. \A x \in Ahead(toBuyer) : x \in Artifacts
      BY <2>1 DEF Ahead
    <2> QED BY <1>6, <2>1, <2>2, FramesStay
  <1>10. Sorted(BuyerTodo)
    BY DEF PoolInv
  <1> QED BY <1>2, <1>4, <1>5, <1>6, <1>7, <1>8, <1>9, <1>10 DEF PoolInv

-----------------------------------------------------------------------------
(* The effects, one by one.                                                *)

LEMMA WriteKeepsBuyer ==
  ASSUME PoolInv, WriteEffect("buyer") PROVE PoolInv'
  <1> DEFINE e == Effected("buyer")  T == Tail(running["buyer"].todo)
  <1>1. /\ running["buyer"].todo # <<>> /\ e.op \in {"put", "file", "list", "phase"} /\ Proceed("buyer")
        /\ buyer' = Wrote(buyer, e) /\ UNCHANGED seller /\ UNCHANGED <<channel, chain, poolBounds>>
    BY DEF WriteEffect
  <1>2. "buyer" \in Sides
    BY DEF Sides
  <1>3. /\ e \in Effects /\ Ahead(BuyerTodo) = {e} \union Ahead(T)
        /\ \A f \in Ahead(T) : f \in Effects /\ Before(e, f)
    BY <1>1, <1>2, NextEffect DEF BuyerTodo
  <1>4. /\ buyer \in Sessions /\ IsFiniteSet(buyer.file) /\ Countersigned \in Nat
        /\ BuyerOK(buyer, Countersigned, chain, Ahead(BuyerTodo))
    BY PoolFacts DEF PoolInv
  <1> HIDE DEF e, T
  <1>5. BuyerOK(Wrote(buyer, e), Countersigned, chain, Ahead(T)) /\ (Ending(buyer) => Ending(Wrote(buyer, e)))
    BY <1>1, <1>3, <1>4, BuyerWrites
  <1>6. Wrote(buyer, e) \in Sessions /\ IsFiniteSet(Wrote(buyer, e).file) /\ buyer.file \subseteq Wrote(buyer, e).file
    BY <1>1, <1>3, <1>4, WroteFields, WroteFinite
  <1>7. UNCHANGED <<seller, chain, up, poolBounds, toBuyer, toSeller>>
    BY <1>1 DEF channel
  <1> QED BY <1>1, <1>5, <1>6, <1>7, BuyerMoves DEF T

(* The seller writes.                                                       *)
LEMMA WriteKeepsSeller ==
  ASSUME PoolInv, WriteEffect("seller") PROVE PoolInv'
  <1> DEFINE e == Effected("seller")  T == Tail(running["seller"].todo)
             n == Countersigned  d == Wrote(seller, e)  k == crashed["seller"]
  <1>1. /\ running["seller"].todo # <<>> /\ e.op \in {"put", "file", "list", "phase"} /\ Proceed("seller")
        /\ seller' = d /\ UNCHANGED buyer /\ UNCHANGED <<channel, chain, poolBounds>>
    BY DEF WriteEffect
  <1>2. "seller" \in Sides
    BY DEF Sides
  <1>3. /\ e \in Effects /\ Ahead(SellerTodo) = {e} \union Ahead(T)
        /\ \A f \in Ahead(T) : f \in Effects /\ Before(e, f)
    BY <1>1, <1>2, NextEffect DEF SellerTodo
  <1>4. /\ seller \in Sessions /\ IsFiniteSet(seller.file) /\ IsFiniteSet(seller.listed)
        /\ n \in Nat /\ n = Many(seller.listed, "paid")
        /\ SellerOK(seller, n, chain, Ahead(SellerTodo), buyer, k)
        /\ chain \in {"none", "close", "arbitrated"}
    BY PoolFacts DEF PoolInv, PoolTypes
  <1> HIDE DEF e, T, n, k
  <1>5. d \in Sessions /\ IsFiniteSet(d.file) /\ IsFiniteSet(d.listed)
    BY <1>1, <1>3, <1>4, WroteFields, WroteFinite
  <1>6. \E m \in Nat : m = Many(d.listed, "paid") /\ n <= m /\ SellerOK(d, m, chain, Ahead(T), buyer, k)
    <2>1. CASE e.op = "phase"
      <3>1. SellerOK(d, n, chain, Ahead(T), buyer, k)
        BY <1>3, <1>4, <2>1, SellerWritesPhase
      <3>2. d.listed = seller.listed
        BY <1>3, <1>4, <2>1, WroteFields
      <3>3. n = Many(d.listed, "paid") /\ n <= n
        BY <1>4, <3>2
      <3> HIDE DEF d
      <3> QED BY <1>4, <3>1, <3>3
    <2>2. CASE e.op = "put" /\ e.artifact.kind = "paid"
      <3>1. SellerOK(d, n + 1, chain, Ahead(T), buyer, k) /\ Many(d.listed, "paid") = n + 1
        <4>1. /\ seller \in Sessions /\ IsFiniteSet(seller.listed) /\ n = Many(seller.listed, "paid")
              /\ e \in Effects /\ SellerOK(seller, n, chain, {e} \union Ahead(T), buyer, k)
              /\ (\A f \in Ahead(T) : f \in Effects /\ Before(e, f))
              /\ e.op = "put" /\ e.artifact.kind = "paid"
          BY <1>3, <1>4, <2>2
        <4> QED BY <4>1, SellerWritesPaid
      <3>2. n + 1 \in Nat /\ n <= n + 1
        BY <1>4
      <3> HIDE DEF d
      <3> QED BY <3>1, <3>2
    <2>3. CASE e.op \in {"put", "file", "list"} /\ ~(e.op = "put" /\ e.artifact.kind = "paid")
      <3>1. SellerOK(d, n, chain, Ahead(T), buyer, k) /\ Of(d.listed, "paid") = Of(seller.listed, "paid")
        BY <1>3, <1>4, <2>3, SellerWritesOther
      <3> HIDE DEF d
      <3>2. n = Many(d.listed, "paid") /\ n <= n
        BY <1>4, <3>1 DEF Many
      <3> QED BY <1>4, <3>1, <3>2
    <2> QED BY <1>1, <2>1, <2>2, <2>3
  <1> HIDE DEF d
  <1>7. PICK m \in Nat : m = Many(d.listed, "paid") /\ n <= m /\ SellerOK(d, m, chain, Ahead(T), buyer, k)
    BY <1>6
  <1>8. /\ UNCHANGED <<buyer, up, poolBounds, toBuyer, toSeller>> /\ chain' = chain
    BY <1>1 DEF channel
  <1>9. /\ seller' \in Sessions /\ IsFiniteSet(seller'.file) /\ IsFiniteSet(seller'.listed)
        /\ chain' \in {"none", "close", "arbitrated"} /\ (chain = "close" => chain' = "close")
        /\ m = Many(seller'.listed, "paid") /\ Countersigned <= m
        /\ SellerOK(seller', m, chain', Ahead(Tail(running["seller"].todo)), buyer, crashed["seller"])
    BY <1>1, <1>4, <1>5, <1>7, <1>8 DEF T, n, k
  <1> QED BY <1>1, <1>8, <1>9, SellerMoves

(* A context check passes, or stops the handler.                            *)
LEMMA AssertKeeps ==
  ASSUME PoolInv, AssertCurrentContext PROVE PoolInv'
  <1> DEFINE e == Effected("buyer")  T == Tail(running["buyer"].todo)
  <1>1. /\ running["buyer"].todo # <<>> /\ e.op = "assert"
        /\ UNCHANGED <<buyer, seller, channel, chain, poolBounds>>
    BY DEF AssertCurrentContext, Doing, Effected
  <1>2. "buyer" \in Sides
    BY DEF Sides
  <1>3. CASE Proceed("buyer")
    <2>1. Ahead(BuyerTodo) = {e} \union Ahead(T)
      BY <1>1, <1>2, NextEffect DEF BuyerTodo
    <2>2. /\ BuyerOK(buyer, Countersigned, chain, Ahead(BuyerTodo)) /\ buyer \in Sessions /\ IsFiniteSet(buyer.file)
      BY PoolFacts DEF PoolInv
    <2> HIDE DEF e, T
    <2>3. BuyerOK(buyer, Countersigned, chain, Ahead(T))
      BY <1>1, <2>1, <2>2, BuyerPasses
    <2>4. UNCHANGED <<seller, chain, up, poolBounds, toBuyer, toSeller>> /\ buyer' = buyer
      BY <1>1 DEF channel
    <2>5. /\ buyer' \in Sessions /\ IsFiniteSet(buyer'.file) /\ buyer.file \subseteq buyer'.file
          /\ (Ending(buyer) => Ending(buyer'))
          /\ BuyerOK(buyer', Countersigned, chain, Ahead(Tail(running["buyer"].todo)))
      BY <2>2, <2>3, <2>4 DEF T
    <2> QED BY <1>1, <1>3, <2>4, <2>5, BuyerMoves
  <1>4. CASE Stop("buyer")
    <2>1. Within(<<>>, 2, 80) /\ Start("buyer", <<>>)
      BY <1>4, NoneWithin DEF Stop, Start, Resting
    <2>2. BuyerOK(buyer, Countersigned, chain, Ahead(<<>>))
      BY NothingAhead, BuyerRests DEF PoolInv
    <2>3. UNCHANGED <<buyer, seller, chain, up, toSeller, poolBounds>> /\ toBuyer' = toBuyer
      BY <1>1 DEF channel
    <2>4. toBuyer' \in Seq(Artifacts) /\ Ahead(toBuyer') \subseteq Ahead(toBuyer)
      BY <2>3 DEF PoolInv, PoolTypes
    <2> QED BY <2>1, <2>2, <2>3, <2>4, BuyerStarts
  <1> QED BY <1>3, <1>4 DEF AssertCurrentContext

(* A frame is sent, or its handler ends with the connection.               *)
LEMMA FrameAdded ==
  ASSUME NEW q \in Seq(Artifacts), NEW x \in Artifacts
  PROVE  Append(q, x) \in Seq(Artifacts) /\ Ahead(Append(q, x)) = Ahead(q) \union {x}
  <1> DEFINE r == Append(q, x)
  <1>1. /\ r \in Seq(Artifacts) /\ Len(q) \in Nat /\ Len(r) = Len(q) + 1
        /\ (\A i \in 1 .. Len(q) : r[i] = q[i]) /\ r[Len(q) + 1] = x
    OBVIOUS
  <1> HIDE DEF r
  <1>2. ASSUME NEW i \in 1 .. Len(r) PROVE r[i] \in Ahead(q) \union {x}
    <2>1. i \in 1 .. Len(q) \/ i = Len(q) + 1
      BY <1>1
    <2> QED BY <1>1, <2>1 DEF Ahead
  <1>3. ASSUME NEW i \in 1 .. Len(q) PROVE q[i] \in Ahead(r)
    <2>1. i \in 1 .. Len(r) /\ r[i] = q[i]
      BY <1>1
    <2> QED BY <2>1 DEF Ahead
  <1>4. x \in Ahead(r)
    <2>1. Len(q) + 1 \in 1 .. Len(r)
      BY <1>1
    <2> QED BY <1>1, <2>1 DEF Ahead
  <1>5. \A y \in Ahead(r) : y \in Ahead(q) \union {x}
    BY <1>2 DEF Ahead
  <1>6. \A y \in Ahead(q) : y \in Ahead(r)
    BY <1>3 DEF Ahead
  <1> QED BY <1>1, <1>4, <1>5, <1>6 DEF r

(* What the buyer sends it has written before.                             *)
LEMMA SentIsWritten ==
  ASSUME NEW b, NEW e \in Effects, NEW T, \A f \in T : f \in Effects /\ Before(e, f),
         e.op = "send", BuyerSends(b, {e} \union T, e)
  PROVE  /\ e.artifact.kind \in {"kind5", "kind7"} => e.artifact \in b.file
         /\ e.artifact.kind = "kind12" => Ending(b)
  <1> DEFINE x == e.artifact  E == {e} \union T
  <1>1. x \in Artifacts
    BY DEF Effects
  <1>2. /\ Put(x) \in Effects /\ Put(x).op = "put" /\ Stage(Put(x)) = PutStage(x.kind)
        /\ Effect("file", x) \in Effects /\ Effect("file", x).op = "file" /\ Stage(Effect("file", x)) = FileStage(x.kind)
    BY <1>1, EffectOf
  <1>3. /\ SetPhase("close-requested", 0).op = "phase" /\ Stage(SetPhase("close-requested", 0)) = 30
    <2>1. "close-requested" \in PoolPhases /\ 0 \in Nat
      BY DEF PoolPhases, BuyerPhaseNames
    <2> QED BY <2>1, PhaseOf DEF PhaseStage
  <1>4. Stage(e) = SendStage(x.kind)
    BY DEF Stage
  <1>5. ASSUME x.kind = "kind5" PROVE Put(x) \notin E
    <2>1. Stage(e) = 60 /\ Stage(Put(x)) = 2
      BY <1>2, <1>4, <1>5 DEF SendStage, PutStage
    <2> QED BY <1>2, <2>1 DEF Before
  <1>6. ASSUME x.kind = "kind7" PROVE Effect("file", x) \notin E
    <2>1. Stage(e) = 14 /\ Stage(Effect("file", x)) = 10
      BY <1>2, <1>4, <1>6 DEF SendStage, FileStage
    <2> QED BY <1>2, <2>1 DEF Before
  <1>7. ASSUME x.kind = "kind12" PROVE SetPhase("close-requested", 0) \notin E
    <2>1. Stage(e) = 60
      BY <1>4, <1>7 DEF SendStage
    <2> QED BY <1>3, <2>1 DEF Before
  <1> QED BY <1>5, <1>6, <1>7 DEF BuyerSends

(* The buyer sends a frame, or fails to.                                    *)
LEMMA SendKeepsBuyer ==
  ASSUME PoolInv, SendEffect("buyer") PROVE PoolInv'
  <1> DEFINE e == Effected("buyer")  T == Tail(running["buyer"].todo)
  <1>1. /\ running["buyer"].todo # <<>> /\ e.op = "send" /\ UNCHANGED <<buyer, seller, up, chain, poolBounds>>
    BY DEF SendEffect, Doing, Effected
  <1>2. "buyer" \in Sides
    BY DEF Sides
  <1>3. /\ e \in Effects /\ Ahead(BuyerTodo) = {e} \union Ahead(T)
        /\ Rest("buyer") \in Todos /\ Rest("buyer").todo = T /\ Sorted(T)
    BY <1>1, <1>2, NextEffect DEF BuyerTodo
  <1>4. BuyerOK(buyer, Countersigned, chain, Ahead(BuyerTodo))
    BY DEF PoolInv
  <1>5. /\ up' \in BOOLEAN /\ losses' \in Nat /\ crashed' \in [Sides -> Nat] /\ crashed' = crashed
        /\ toSeller \in Seq(Artifacts) /\ toBuyer \in Seq(Artifacts)
    BY <1>1 DEF PoolInv, PoolTypes, poolBounds
  <1>6. CASE running["buyer"].linked
    <2>1. Proceed("buyer") /\ toSeller' = Append(toSeller, e.artifact) /\ toBuyer' = toBuyer
      BY <1>6 DEF SendEffect
    <2>2. e.artifact \in Artifacts
      BY <1>3 DEF Effects
    <2>3. toSeller' \in Seq(Artifacts) /\ Ahead(toSeller') = Ahead(toSeller) \union {e.artifact}
      BY <1>5, <2>1, <2>2, FrameAdded
    <2>4. BuyerSends(buyer, Ahead(BuyerTodo), e) /\ BuyerAhead(buyer, Countersigned, Ahead(BuyerTodo))
      BY <1>1, <1>3, <1>4 DEF BuyerOK, BuyerAhead
    <2> HIDE DEF e
    <2>5. \A f \in Ahead(T) : f \in Effects /\ Before(e, f)
      BY <1>1, <1>2, NextEffect DEF e
    <2>6. /\ e.artifact.kind \in {"kind5", "kind7"} => e.artifact \in buyer.file
          /\ e.artifact.kind = "kind12" => Ending(buyer)
      BY <1>1, <1>3, <2>4, <2>5, SentIsWritten
    <2>7. FramesOK(buyer, Countersigned, Ahead(toSeller'), Ahead(toBuyer'))
      BY <2>1, <2>3, <2>6 DEF PoolInv, FramesOK
    <2>8. running' \in [Sides -> Todos] /\ running'["buyer"].todo = T /\ running'["seller"].todo = SellerTodo
      BY <1>3, <2>1 DEF Proceed, PoolInv, PoolTypes, Sides, SellerTodo
    <2>9. BuyerOK(buyer, Countersigned, chain, Ahead(T))
      BY <1>1, <1>3, <1>4, BuyerPasses
    <2>10. Sorted(SellerTodo) /\ SellerOK(seller, Countersigned, chain, Ahead(SellerTodo), buyer, crashed'["seller"])
      BY <1>5 DEF PoolInv
    <2>11. UNCHANGED <<buyer, seller, chain>> /\ toBuyer' \in Seq(Artifacts)
      BY <1>1, <1>5, <2>1
    <2>12. /\ Sorted(running'["buyer"].todo) /\ BuyerOK(buyer, Countersigned, chain, Ahead(running'["buyer"].todo))
           /\ Sorted(running'["seller"].todo)
           /\ SellerOK(seller, Countersigned, chain, Ahead(running'["seller"].todo), buyer, crashed'["seller"])
      BY <1>3, <2>8, <2>9, <2>10
    <2> QED BY <1>5, <2>3, <2>7, <2>8, <2>11, <2>12, HandlersMove
  <1>7. CASE ~running["buyer"].linked
    <2>1. Stop("buyer") /\ UNCHANGED <<toSeller, toBuyer>>
      BY <1>7 DEF SendEffect
    <2>2. Within(<<>>, 2, 80) /\ Start("buyer", <<>>)
      BY <2>1, NoneWithin DEF Stop, Start, Resting
    <2>3. BuyerOK(buyer, Countersigned, chain, Ahead(<<>>))
      BY NothingAhead, BuyerRests DEF PoolInv
    <2>4. UNCHANGED <<buyer, seller, chain, up, toSeller, poolBounds>>
      BY <1>1, <2>1
    <2>5. toBuyer' \in Seq(Artifacts) /\ Ahead(toBuyer') \subseteq Ahead(toBuyer)
      BY <1>5, <2>1
    <2> QED BY <2>2, <2>3, <2>4, <2>5, BuyerStarts
  <1> QED BY <1>6, <1>7

(* The seller sends a frame, or fails to.                                   *)
LEMMA SendKeepsSeller ==
  ASSUME PoolInv, SendEffect("seller") PROVE PoolInv'
  <1> DEFINE e == Effected("seller")  T == Tail(running["seller"].todo)  n == Countersigned  k == crashed["seller"]
  <1>1. /\ running["seller"].todo # <<>> /\ e.op = "send" /\ UNCHANGED <<buyer, seller, up, chain, poolBounds>>
    BY DEF SendEffect, Doing, Effected
  <1>2. "seller" \in Sides
    BY DEF Sides
  <1>3. /\ e \in Effects /\ Ahead(SellerTodo) = {e} \union Ahead(T)
        /\ Rest("seller") \in Todos /\ Rest("seller").todo = T /\ Sorted(T)
        /\ \A f \in Ahead(T) : f \in Effects /\ Before(e, f)
    BY <1>1, <1>2, NextEffect DEF SellerTodo
  <1>4. SellerOK(seller, n, chain, {e} \union Ahead(T), buyer, k) /\ n = Countersigned
    BY <1>3 DEF PoolInv
  <1>5. /\ up' \in BOOLEAN /\ losses' \in Nat /\ crashed' \in [Sides -> Nat] /\ crashed' = crashed
        /\ toSeller \in Seq(Artifacts) /\ toBuyer \in Seq(Artifacts) /\ k = crashed'["seller"]
    BY <1>1 DEF PoolInv, PoolTypes, poolBounds
  <1>6. SellerSends(n, buyer, e)
    BY <1>1, <1>4 DEF SellerOK, SellerAhead
  <1> HIDE DEF n, k
  <1>7. CASE running["seller"].linked
    <2>1. Proceed("seller") /\ toBuyer' = Append(toBuyer, e.artifact) /\ toSeller' = toSeller
      BY <1>7 DEF SendEffect
    <2>2. e.artifact \in Artifacts
      BY <1>3 DEF Effects
    <2>3. toBuyer' \in Seq(Artifacts) /\ Ahead(toBuyer') = Ahead(toBuyer) \union {e.artifact}
      BY <1>5, <2>1, <2>2, FrameAdded
    <2>4. FramesOK(buyer, n, Ahead(toSeller'), Ahead(toBuyer'))
      BY <1>4, <1>6, <2>1, <2>3 DEF PoolInv, FramesOK, SellerSends
    <2> HIDE DEF e
    <2>5. running' \in [Sides -> Todos] /\ running'["seller"].todo = T /\ running'["buyer"].todo = BuyerTodo
      BY <1>3, <2>1 DEF Proceed, PoolInv, PoolTypes, Sides, BuyerTodo
    <2>6. SellerOK(seller, n, chain, Ahead(T), buyer, k)
      BY <1>1, <1>4, SellerPasses
    <2>7. Sorted(BuyerTodo) /\ BuyerOK(buyer, n, chain, Ahead(BuyerTodo))
      BY <1>4 DEF PoolInv
    <2>8. UNCHANGED <<buyer, seller, chain>> /\ toSeller' \in Seq(Artifacts)
      BY <1>1, <1>5, <2>1
    <2>9. /\ Sorted(running'["buyer"].todo) /\ BuyerOK(buyer, Countersigned, chain, Ahead(running'["buyer"].todo))
          /\ Sorted(running'["seller"].todo)
          /\ SellerOK(seller, Countersigned, chain, Ahead(running'["seller"].todo), buyer, crashed'["seller"])
      BY <1>3, <1>4, <1>5, <2>5, <2>6, <2>7
    <2> QED BY <1>4, <1>5, <2>3, <2>4, <2>5, <2>8, <2>9, HandlersMove
  <1>8. CASE ~running["seller"].linked
    <2>1. Stop("seller") /\ UNCHANGED <<toSeller, toBuyer>>
      BY <1>8 DEF SendEffect
    <2>2. Within(<<>>, 2, 80) /\ Start("seller", <<>>)
      BY <2>1, NoneWithin DEF Stop, Start, Resting
    <2>3. Stage(e) >= 44
      <3>1. e.artifact.kind # "kind7"
        BY <1>6 DEF SellerSends
      <3> QED BY <1>1, <3>1 DEF Stage, SendStage
    <2> HIDE DEF e
    <2>4. SellerOK(seller, n, chain, {}, buyer, k)
      BY <1>1, <1>3, <1>4, <2>3, SellerStops
    <2>5. SellerOK(seller, Countersigned, chain, Ahead(<<>>), buyer, crashed["seller"])
      BY <1>4, <2>4, NothingAhead DEF k
    <2>6. UNCHANGED <<buyer, seller, chain, up, toBuyer, poolBounds>>
      BY <1>1, <2>1
    <2>7. toSeller' \in Seq(Artifacts) /\ Ahead(toSeller') \subseteq Ahead(toSeller)
      BY <1>5, <2>1
    <2> QED BY <2>2, <2>5, <2>6, <2>7, SellerStarts
  <1> QED BY <1>7, <1>8

(* The buyer looks for its close in the network.                            *)
LEMMA ObserveCloseKeeps ==
  ASSUME PoolInv, ObserveClose PROVE PoolInv'
  <1> DEFINE e == Effected("buyer")  T == Tail(running["buyer"].todo)
  <1>1. /\ running["buyer"].todo # <<>> /\ e.op = "observe" /\ Proceed("buyer")
        /\ UNCHANGED <<seller, channel, chain, poolBounds>>
        /\ (chain = "close" /\ buyer' = [buyer EXCEPT !.phase = "completed"]) \/ buyer' = buyer
    BY DEF ObserveClose, Doing, Effected
  <1>2. "buyer" \in Sides
    BY DEF Sides
  <1>3. e \in Effects /\ Ahead(BuyerTodo) = {e} \union Ahead(T) /\ \A f \in Ahead(T) : f \in Effects /\ Before(e, f)
    BY <1>1, <1>2, NextEffect DEF BuyerTodo
  <1>4. /\ BuyerOK(buyer, Countersigned, chain, {e} \union Ahead(T)) /\ buyer \in Sessions /\ IsFiniteSet(buyer.file)
    BY <1>3, PoolFacts DEF PoolInv
  <1>5. UNCHANGED <<seller, chain, up, poolBounds, toBuyer, toSeller>>
    BY <1>1 DEF channel
  <1> HIDE DEF e, T
  <1>6. /\ buyer' \in Sessions /\ buyer'.file = buyer.file /\ (Ending(buyer) => Ending(buyer'))
        /\ BuyerOK(buyer', Countersigned, chain, Ahead(T))
    <2>1. CASE chain = "close" /\ buyer' = [buyer EXCEPT !.phase = "completed"]
      <3>1. buyer' \in Sessions /\ buyer'.file = buyer.file /\ buyer'.phase = "completed"
        BY <1>4, <2>1 DEF Sessions, PoolPhases, BuyerPhaseNames
      <3>2. BuyerOK([buyer EXCEPT !.phase = "completed"], Countersigned, "close", Ahead(T))
        BY <1>1, <1>3, <1>4, <2>1, BuyerObserves
      <3> QED BY <2>1, <3>1, <3>2 DEF Ending, EndPhases
    <2>2. CASE buyer' = buyer
      BY <1>1, <1>4, <2>2, BuyerPasses
    <2> QED BY <1>1, <2>1, <2>2
  <1>7. IsFiniteSet(buyer'.file) /\ buyer.file \subseteq buyer'.file
    BY <1>4, <1>6
  <1> QED BY <1>1, <1>5, <1>6, <1>7, BuyerMoves DEF T

(* Broadcast and Settle: what the network says.                            *)
LEMMA NetworkKeeps ==
  ASSUME PoolInv, Broadcast \/ Settle PROVE PoolInv'
  <1> DEFINE e == Effected("seller")  T == Tail(running["seller"].todo)  n == Countersigned  k == crashed["seller"]
  <1>1. /\ running["seller"].todo # <<>> /\ Proceed("seller") /\ UNCHANGED <<buyer, channel, poolBounds>>
        /\ \/ UNCHANGED <<chain, seller>> /\ e.op = "broadcast"
           \/ /\ e.op = "broadcast" /\ chain' = "close" /\ chain \in {"none", "close"}
              /\ \E p \in {seller.phase, "closed"} : seller' = [seller EXCEPT !.phase = p]
           \/ /\ e.op = "settle" /\ chain' \in {chain, "arbitrated"} /\ (chain = "close" => chain' = "close")
              /\ \E p \in {"closed", "arbitration-payment-unknown"} : seller' = [seller EXCEPT !.phase = p]
    <2>1. CASE Broadcast
      <3>1. seller \in Sessions
        BY PoolFacts
      <3>2. seller' = seller => seller' = [seller EXCEPT !.phase = seller.phase]
        BY <3>1 DEF Sessions
      <3> HIDE DEF e
      <3>3. e.op = "broadcast" /\ running["seller"].todo # <<>>
        BY <2>1 DEF Broadcast, Doing, Effected, e
      <3>4. /\ Proceed("seller") /\ UNCHANGED <<buyer, channel, poolBounds>>
            /\ \/ /\ chain \in {"none", "close"} /\ chain' = "close"
                  /\ seller' = [seller EXCEPT !.phase = "closed"] \/ seller' = seller
               \/ UNCHANGED <<chain, seller>>
        BY <2>1 DEF Broadcast
      <3> QED BY <3>2, <3>3, <3>4
    <2>2. CASE Settle
      BY <2>2 DEF Settle, Doing, Effected
    <2> QED BY <2>1, <2>2
  <1>2. "seller" \in Sides
    BY DEF Sides
  <1>3. /\ e \in Effects /\ Ahead(SellerTodo) = {e} \union Ahead(T)
        /\ \A f \in Ahead(T) : f \in Effects /\ Before(e, f)
    BY <1>1, <1>2, NextEffect DEF SellerTodo
  <1>4. SellerOK(seller, n, chain, {e} \union Ahead(T), buyer, k)
    BY <1>3 DEF PoolInv
  <1>5. /\ seller \in Sessions /\ IsFiniteSet(seller.file) /\ IsFiniteSet(seller.listed)
        /\ n \in Nat /\ n = Many(seller.listed, "paid") /\ chain \in {"none", "close", "arbitrated"}
    BY PoolFacts DEF PoolInv, PoolTypes
  <1>6. UNCHANGED <<buyer, up, poolBounds, toBuyer, toSeller>>
    BY <1>1 DEF channel
  <1> HIDE DEF e, T, n, k
  <1>7. /\ seller' \in Sessions /\ seller'.file = seller.file /\ seller'.listed = seller.listed
        /\ chain' \in {"none", "close", "arbitrated"} /\ (chain = "close" => chain' = "close")
        /\ SellerOK(seller', n, chain', Ahead(T), buyer, k)
    <2>1. CASE UNCHANGED <<chain, seller>> /\ e.op = "broadcast"
      <3>1. SellerOK(seller, n, chain, Ahead(T), buyer, k)
        BY <1>4, <2>1, SellerPasses
      <3> QED BY <1>5, <2>1, <3>1
    <2>2. ASSUME e.op = "broadcast", chain' = "close",
                 NEW p \in {seller.phase, "closed"}, seller' = [seller EXCEPT !.phase = p]
          PROVE  /\ seller' \in Sessions /\ seller'.file = seller.file /\ seller'.listed = seller.listed
                 /\ SellerOK(seller', n, chain', Ahead(T), buyer, k)
      <3>1. SellerOK([seller EXCEPT !.phase = p], n, "close", Ahead(T), buyer, k)
        BY <1>3, <1>4, <1>5, <2>2, SellerTurns
      <3>2. p \in PoolPhases
        BY <1>5, <2>2 DEF Sessions, PoolPhases, SellerPhaseNames
      <3> QED BY <1>5, <2>2, <3>1, <3>2 DEF Sessions
    <2>3. ASSUME e.op = "settle", chain' \in {chain, "arbitrated"},
                 NEW p \in {"closed", "arbitration-payment-unknown"}, seller' = [seller EXCEPT !.phase = p]
          PROVE  /\ seller' \in Sessions /\ seller'.file = seller.file /\ seller'.listed = seller.listed
                 /\ SellerOK(seller', n, chain', Ahead(T), buyer, k)
      <3>1. SellerOK([seller EXCEPT !.phase = p], n, chain', Ahead(T), buyer, k)
        BY <1>3, <1>4, <1>5, <2>3, SellerTurns
      <3>2. p \in PoolPhases
        BY <2>3 DEF PoolPhases, SellerPhaseNames
      <3> QED BY <1>5, <2>3, <3>1, <3>2 DEF Sessions
    <2> QED BY <1>1, <1>5, <2>1, <2>2, <2>3
  <1>8. /\ IsFiniteSet(seller'.file) /\ IsFiniteSet(seller'.listed)
        /\ n = Many(seller'.listed, "paid") /\ Countersigned <= n
        /\ SellerOK(seller', n, chain', Ahead(Tail(running["seller"].todo)), buyer, crashed["seller"])
    BY <1>5, <1>7 DEF T, n, k
  <1> QED BY <1>1, <1>5, <1>6, <1>7, <1>8, SellerMoves

(* The seller's handler ends at an exchange, a failure or an await.        *)
LEMMA StopKeepsSeller ==
  ASSUME PoolInv, running["seller"].todo # <<>>, Effected("seller").op \in {"exchange", "fail", "await"}
  PROVE  SellerOK(seller, Countersigned, chain, {}, buyer, crashed["seller"])
  <1> DEFINE e == Effected("seller")  T == Tail(running["seller"].todo)
  <1>1. "seller" \in Sides
    BY DEF Sides
  <1>2. /\ e \in Effects /\ Ahead(SellerTodo) = {e} \union Ahead(T)
        /\ \A f \in Ahead(T) : f \in Effects /\ Before(e, f)
    BY <1>1, NextEffect DEF SellerTodo
  <1>3. SellerOK(seller, Countersigned, chain, {e} \union Ahead(T), buyer, crashed["seller"])
    BY <1>2 DEF PoolInv
  <1>4. e.op \in {"exchange", "fail", "await"}
    OBVIOUS
  <1> HIDE DEF e, T
  <1>5. e.op # "await" => Stage(e) >= 44
    BY <1>4 DEF Stage, CallStage
  <1> QED BY <1>2, <1>3, <1>4, <1>5, SellerStops

(* The seller and the arbitrator exchange the award, or fail to.            *)
LEMMA ExchangeKeeps ==
  ASSUME PoolInv, Exchange PROVE PoolInv'
  <1> DEFINE e == Effected("seller")  T == Tail(running["seller"].todo)  n == Countersigned  k == crashed["seller"]
  <1>1. /\ running["seller"].todo # <<>> /\ e.op = "exchange"
        /\ UNCHANGED <<buyer, seller, channel, chain, poolBounds>>
    BY DEF Exchange, Doing, Effected
  <1>2. "seller" \in Sides
    BY DEF Sides
  <1>3. CASE Proceed("seller")
    <2>1. Ahead(SellerTodo) = {e} \union Ahead(T)
      BY <1>1, <1>2, NextEffect DEF SellerTodo
    <2>2. SellerOK(seller, n, chain, {e} \union Ahead(T), buyer, k)
      BY <2>1 DEF PoolInv
    <2>3. /\ seller \in Sessions /\ IsFiniteSet(seller.file) /\ IsFiniteSet(seller.listed)
          /\ n \in Nat /\ n = Many(seller.listed, "paid") /\ chain \in {"none", "close", "arbitrated"}
      BY PoolFacts DEF PoolInv, PoolTypes
    <2> HIDE DEF e, T, n, k
    <2>4. SellerOK(seller, n, chain, Ahead(T), buyer, k)
      BY <1>1, <2>2, SellerPasses
    <2>5. UNCHANGED <<buyer, up, poolBounds, toBuyer, toSeller>> /\ seller' = seller /\ chain' = chain
      BY <1>1 DEF channel
    <2>6. /\ seller' \in Sessions /\ IsFiniteSet(seller'.file) /\ IsFiniteSet(seller'.listed)
          /\ chain' \in {"none", "close", "arbitrated"} /\ (chain = "close" => chain' = "close")
          /\ n \in Nat /\ n = Many(seller'.listed, "paid") /\ Countersigned <= n
          /\ SellerOK(seller', n, chain', Ahead(Tail(running["seller"].todo)), buyer, crashed["seller"])
      BY <2>3, <2>4, <2>5 DEF T, n, k
    <2> QED BY <1>1, <1>3, <2>5, <2>6, SellerMoves
  <1>4. CASE Stop("seller")
    <2>1. Within(<<>>, 2, 80) /\ Start("seller", <<>>)
      BY <1>4, NoneWithin DEF Stop, Start, Resting
    <2>2. SellerOK(seller, Countersigned, chain, Ahead(<<>>), buyer, crashed["seller"])
      BY <1>1, StopKeepsSeller, NothingAhead
    <2>3. UNCHANGED <<buyer, seller, chain, up, toBuyer, poolBounds>> /\ toSeller' = toSeller
      BY <1>1 DEF channel
    <2>4. toSeller' \in Seq(Artifacts) /\ Ahead(toSeller') \subseteq Ahead(toSeller)
      BY <2>3 DEF PoolInv, PoolTypes
    <2> QED BY <2>1, <2>2, <2>3, <2>4, SellerStarts
  <1> QED BY <1>3, <1>4 DEF Exchange

(* A handler whose link is gone has as much to do as before.               *)
LEMMA UnlinkedTodo ==
  ASSUME PoolInv, NEW side \in Sides
  PROVE  Unlinked(side) \in Todos /\ Unlinked(side).todo = running[side].todo
  <1>1. running[side] \in Todos
    BY DEF PoolInv, PoolTypes
  <1>2. Resting \in Todos /\ Resting.todo = <<>>
    BY NothingAhead DEF Resting, Todos
  <1>3. CASE Rests(side)
    BY <1>2, <1>3 DEF Unlinked, Rests
  <1>4. CASE ~Rests(side)
    BY <1>1, <1>4 DEF Unlinked, Todos
  <1> QED BY <1>3, <1>4

(* The seller's handler ends, and the channel stays.                        *)
LEMMA EndKeeps ==
  ASSUME PoolInv, Stop("seller"), UNCHANGED <<buyer, seller, channel, chain, crashed>>, losses' \in Nat,
         SellerOK(seller, Countersigned, chain, {}, buyer, crashed["seller"])
  PROVE  PoolInv'
  <1>1. Resting \in Todos /\ Resting.todo = <<>>
    BY NothingAhead DEF Resting, Todos
  <1>2. /\ running' \in [Sides -> Todos]
        /\ running'["seller"].todo = <<>> /\ running'["buyer"].todo = BuyerTodo
    BY <1>1 DEF Stop, PoolInv, PoolTypes, Sides, BuyerTodo
  <1>3. /\ up' \in BOOLEAN /\ crashed' \in [Sides -> Nat] /\ crashed' = crashed
        /\ toBuyer' \in Seq(Artifacts) /\ toBuyer' = toBuyer
        /\ toSeller' \in Seq(Artifacts) /\ toSeller' = toSeller
    BY DEF PoolInv, PoolTypes, channel
  <1>4. FramesOK(buyer, Countersigned, Ahead(toSeller'), Ahead(toBuyer'))
    BY <1>3 DEF PoolInv
  <1>5. UNCHANGED <<buyer, seller, chain>>
    OBVIOUS
  <1>6. /\ Sorted(running'["buyer"].todo) /\ BuyerOK(buyer, Countersigned, chain, Ahead(running'["buyer"].todo))
        /\ Sorted(running'["seller"].todo)
        /\ SellerOK(seller, Countersigned, chain, Ahead(running'["seller"].todo), buyer, crashed'["seller"])
    BY <1>2, <1>3, NothingAhead DEF PoolInv
  <1> QED BY <1>2, <1>3, <1>4, <1>5, <1>6, HandlersMove

(* ... or closes the connection of its frame.                               *)
LEMMA BrokenKeeps ==
  ASSUME PoolInv, Broken, UNCHANGED <<buyer, seller, chain, crashed>>, losses' \in Nat,
         SellerOK(seller, Countersigned, chain, {}, buyer, crashed["seller"])
  PROVE  PoolInv'
  <1>1. "buyer" \in Sides /\ "seller" \in Sides
    BY DEF Sides
  <1>2. crashed' \in [Sides -> Nat] /\ crashed' = crashed
    BY DEF PoolInv, PoolTypes
  <1>3. CASE running["seller"].linked
    <2>1. /\ up' = FALSE /\ toSeller' = <<>> /\ toBuyer' = <<>>
          /\ running' = [running EXCEPT !["seller"] = Resting, !["buyer"] = Unlinked("buyer")]
      BY <1>3 DEF Broken
    <2>2. Unlinked("buyer") \in Todos /\ Unlinked("buyer").todo = BuyerTodo
      BY <1>1, UnlinkedTodo DEF BuyerTodo
    <2>3. Resting \in Todos /\ Resting.todo = <<>>
      BY NothingAhead DEF Resting, Todos
    <2>4. /\ running' \in [Sides -> Todos] /\ running'["buyer"].todo = BuyerTodo /\ running'["seller"].todo = <<>>
      BY <2>1, <2>2, <2>3 DEF PoolInv, PoolTypes, Sides
    <2> QED BY <1>2, <2>1, <2>4, ChannelEmptied
  <1>4. CASE ~running["seller"].linked
    <2>1. Stop("seller") /\ UNCHANGED channel
      BY <1>4 DEF Broken
    <2> QED BY <2>1, EndKeeps
  <1> QED BY <1>3, <1>4

(* An error of the seller's protocol.                                       *)
LEMMA BreakKeeps ==
  ASSUME PoolInv, Break PROVE PoolInv'
  <1>1. /\ running["seller"].todo # <<>> /\ Effected("seller").op = "fail"
        /\ Broken /\ UNCHANGED <<buyer, seller, chain, poolBounds>>
    BY DEF Break, Doing, Effected
  <1>2. SellerOK(seller, Countersigned, chain, {}, buyer, crashed["seller"])
    BY <1>1, StopKeepsSeller
  <1>3. UNCHANGED <<buyer, seller, chain, crashed>> /\ losses' \in Nat
    BY <1>1 DEF PoolInv, PoolTypes, poolBounds
  <1> QED BY <1>1, <1>2, <1>3, BrokenKeeps

(* The answer that the seller awaits comes, or the call fails.              *)
LEMMA AwaitKeeps ==
  ASSUME PoolInv, AwaitAnswer PROVE PoolInv'
  <1> DEFINE e == Effected("seller")  T == Tail(running["seller"].todo)  n == Countersigned  k == crashed["seller"]
  <1>1. /\ running["seller"].todo # <<>> /\ e.op = "await"
        /\ UNCHANGED <<buyer, seller, chain, crashed>>
    BY DEF AwaitAnswer, Doing, Effected
  <1>2. CASE Proceed("seller") /\ UNCHANGED <<channel, losses>>
    <2>1. "seller" \in Sides
      BY DEF Sides
    <2>2. Ahead(SellerTodo) = {e} \union Ahead(T)
      BY <1>1, <2>1, NextEffect DEF SellerTodo
    <2>3. SellerOK(seller, n, chain, {e} \union Ahead(T), buyer, k)
      BY <2>2 DEF PoolInv
    <2>4. /\ seller \in Sessions /\ IsFiniteSet(seller.file) /\ IsFiniteSet(seller.listed)
          /\ n \in Nat /\ n = Many(seller.listed, "paid") /\ chain \in {"none", "close", "arbitrated"}
      BY PoolFacts DEF PoolInv, PoolTypes
    <2> HIDE DEF e, T, n, k
    <2>5. SellerOK(seller, n, chain, Ahead(T), buyer, k)
      BY <1>1, <2>3, SellerPasses
    <2>6. UNCHANGED <<buyer, up, poolBounds, toBuyer, toSeller>> /\ seller' = seller /\ chain' = chain
      BY <1>1, <1>2 DEF channel, poolBounds
    <2>7. /\ seller' \in Sessions /\ IsFiniteSet(seller'.file) /\ IsFiniteSet(seller'.listed)
          /\ chain' \in {"none", "close", "arbitrated"} /\ (chain = "close" => chain' = "close")
          /\ n \in Nat /\ n = Many(seller'.listed, "paid") /\ Countersigned <= n
          /\ SellerOK(seller', n, chain', Ahead(Tail(running["seller"].todo)), buyer, crashed["seller"])
      BY <2>4, <2>5, <2>6 DEF T, n, k
    <2> QED BY <1>1, <1>2, <2>6, <2>7, SellerMoves
  <1>3. CASE losses' = losses + 1 /\ (Broken \/ (Stop("seller") /\ UNCHANGED channel))
    <2>1. losses' \in Nat
      BY <1>3 DEF PoolInv, PoolTypes
    <2>2. SellerOK(seller, Countersigned, chain, {}, buyer, crashed["seller"])
      BY <1>1, StopKeepsSeller
    <2>3. CASE Broken
      BY <1>1, <2>1, <2>2, <2>3, BrokenKeeps
    <2>4. CASE Stop("seller") /\ UNCHANGED channel
      BY <1>1, <2>1, <2>2, <2>4, EndKeeps
    <2> QED BY <1>3, <2>3, <2>4
  <1> QED BY <1>2, <1>3 DEF AwaitAnswer

(* The channel is closed: a lost or idle connection, or a refused frame.   *)
LEMMA ClosedKeeps ==
  ASSUME PoolInv, Closed, UNCHANGED <<buyer, seller, chain, crashed>>, losses' \in Nat
  PROVE  PoolInv'
  <1>1. "buyer" \in Sides /\ "seller" \in Sides
    BY DEF Sides
  <1>2. crashed' \in [Sides -> Nat] /\ crashed' = crashed
    BY DEF PoolInv, PoolTypes
  <1>3. /\ up' = FALSE /\ toSeller' = <<>> /\ toBuyer' = <<>> /\ running' = [side \in Sides |-> Unlinked(side)]
    BY DEF Closed
  <1>4. \A side \in Sides : Unlinked(side) \in Todos /\ Unlinked(side).todo = running[side].todo
    BY UnlinkedTodo
  <1>5. /\ running' \in [Sides -> Todos]
        /\ running'["buyer"].todo = BuyerTodo /\ running'["seller"].todo = SellerTodo
    BY <1>1, <1>3, <1>4 DEF BuyerTodo, SellerTodo
  <1> QED BY <1>2, <1>3, <1>5, ChannelEmptied

(* One side crashes.                                                        *)
LEMMA CrashKeeps ==
  ASSUME PoolInv, NEW side \in Sides, Crash(side) PROVE PoolInv'
  <1>1. "buyer" \in Sides /\ "seller" \in Sides
    BY DEF Sides
  <1>2. /\ crashed' = [crashed EXCEPT ![side] = @ + 1] /\ losses' = losses
        /\ up' = FALSE /\ toSeller' = <<>> /\ toBuyer' = <<>>
        /\ running' = [s \in Sides |-> IF s = side THEN Resting ELSE Unlinked(s)]
        /\ UNCHANGED <<buyer, seller, chain>>
    BY DEF Crash
  <1>3. losses \in Nat /\ crashed \in [Sides -> Nat]
    BY DEF PoolInv, PoolTypes
  <1>4. /\ crashed' \in [Sides -> Nat] /\ losses' \in Nat
        /\ crashed'["seller"] = 0 => side # "seller" /\ crashed["seller"] = 0
        /\ side = "seller" => crashed'["seller"] # 0
    BY <1>1, <1>2, <1>3
  <1>5. Resting \in Todos /\ Resting.todo = <<>>
    BY NothingAhead DEF Resting, Todos
  <1>6. \A s \in Sides : Unlinked(s) \in Todos /\ Unlinked(s).todo = running[s].todo
    BY UnlinkedTodo
  <1>7. /\ running' \in [Sides -> Todos]
        /\ running'["buyer"].todo \in {BuyerTodo, <<>>}
        /\ IF side = "seller" THEN running'["seller"].todo = <<>> ELSE running'["seller"].todo = SellerTodo
    BY <1>1, <1>2, <1>5, <1>6 DEF BuyerTodo, SellerTodo
  <1>8. side = "seller" => SellerOK(seller, Countersigned, chain, {}, buyer, crashed'["seller"])
    BY <1>4, SellerRests DEF PoolInv
  <1> QED BY <1>2, <1>4, <1>7, <1>8, ChannelEmptied

(* The sides connect.                                                       *)
LEMMA ConnectKeeps ==
  ASSUME PoolInv, Connect \/ Reconnect PROVE PoolInv'
  <1>1. /\ up' = TRUE /\ UNCHANGED <<buyer, seller, running, toBuyer, chain, poolBounds>>
        /\ toSeller' = toSeller \/ toSeller' = <<Kind2>>
    BY DEF Connect, Reconnect
  <1>2. Kind2 \in Artifacts /\ Kind2.kind = "kind2"
    <2>1. "kind2" \in Kinds
      BY DEF Kinds
    <2> QED BY <2>1, ArtifactShape DEF Kind2
  <1>3. /\ running' \in [Sides -> Todos] /\ running' = running
        /\ losses' \in Nat /\ crashed' \in [Sides -> Nat] /\ crashed' = crashed
        /\ toBuyer' \in Seq(Artifacts) /\ toBuyer' = toBuyer /\ toSeller \in Seq(Artifacts)
    BY <1>1 DEF PoolInv, PoolTypes, poolBounds
  <1>4. toSeller' \in Seq(Artifacts) /\ \A x \in Ahead(toSeller') : x \in Ahead(toSeller) \/ x = Kind2
    <2>1. CASE toSeller' = toSeller
      BY <1>3, <2>1
    <2>2. CASE toSeller' = <<Kind2>>
      BY <1>2, <2>2 DEF Ahead
    <2> QED BY <1>1, <2>1, <2>2
  <1>5. FramesOK(buyer, Countersigned, Ahead(toSeller'), Ahead(toBuyer'))
    BY <1>2, <1>3, <1>4 DEF PoolInv, FramesOK
  <1>6. /\ Sorted(running'["buyer"].todo) /\ BuyerOK(buyer, Countersigned, chain, Ahead(running'["buyer"].todo))
        /\ Sorted(running'["seller"].todo)
        /\ SellerOK(seller, Countersigned, chain, Ahead(running'["seller"].todo), buyer, crashed'["seller"])
    BY <1>3 DEF PoolInv, BuyerTodo, SellerTodo
  <1> QED BY <1>1, <1>3, <1>4, <1>5, <1>6, HandlersMove

-----------------------------------------------------------------------------
(* The buyer's handlers.                                                   *)

LEMMA RefusedKeeps ==
  ASSUME PoolInv, FailFrame \/ Refuse PROVE PoolInv'
  <1>1. Closed /\ UNCHANGED <<buyer, seller, chain, crashed>> /\ losses' = losses
    BY DEF FailFrame, Refuse, poolBounds
  <1>2. losses' \in Nat
    BY <1>1 DEF PoolInv, PoolTypes
  <1> QED BY <1>1, <1>2, ClosedKeeps

(* What the buyer knows of the frame it takes.                              *)
LEMMA BuyerTakes ==
  ASSUME PoolInv, NEW kind, Take(kind)
  PROVE  /\ BuyerOK(buyer, Countersigned, chain, {})
         /\ Head(toBuyer) \in Artifacts /\ Head(toBuyer).kind = kind
         /\ kind = "kind6" => Asked(buyer, Countersigned, Head(toBuyer))
         /\ kind = "kind13" => Ending(buyer) /\ Head(toBuyer).auth = 0
         /\ Tail(toBuyer) \in Seq(Artifacts) /\ Ahead(Tail(toBuyer)) \subseteq Ahead(toBuyer)
  <1>1. Rests("buyer") /\ toBuyer # <<>> /\ Head(toBuyer).kind = kind
    BY DEF Take
  <1>2. toBuyer \in Seq(Artifacts) /\ FramesOK(buyer, Countersigned, Ahead(toSeller), Ahead(toBuyer))
    BY DEF PoolInv, PoolTypes
  <1>3. /\ Head(toBuyer) \in Artifacts /\ Tail(toBuyer) \in Seq(Artifacts)
        /\ Ahead(toBuyer) = {Head(toBuyer)} \union Ahead(Tail(toBuyer))
    BY <1>1, <1>2, HeadAndTail
  <1> QED BY <1>1, <1>2, <1>3, PoolFacts DEF FramesOK

(* A handler of the buyer starts with a plan that is in order.              *)
LEMMA HandleKeeps ==
  ASSUME PoolInv, NEW kind, Take(kind), NEW s, Within(s, 2, 80), BuyerOK(buyer, Countersigned, chain, Ahead(s)),
         Handle(s)
  PROVE  PoolInv'
  <1>1. Tail(toBuyer) \in Seq(Artifacts) /\ Ahead(Tail(toBuyer)) \subseteq Ahead(toBuyer)
    BY BuyerTakes
  <1>2. /\ Start("buyer", s) /\ toBuyer' = Tail(toBuyer)
        /\ UNCHANGED <<buyer, seller, chain, up, toSeller, poolBounds>>
    BY DEF Handle
  <1>3. toBuyer' \in Seq(Artifacts) /\ Ahead(toBuyer') \subseteq Ahead(toBuyer)
    BY <1>1, <1>2
  <1> QED BY <1>2, <1>3, BuyerStarts

(* The answer to an opening.                                                *)
LEMMA OpeningResponseKeeps ==
  ASSUME PoolInv, HandleOpeningResponse PROVE PoolInv'
  <1>1. Take("kind3")
    BY DEF HandleOpeningResponse
  <1>2. /\ buyer \in Sessions /\ IsFiniteSet(buyer.file) /\ Countersigned \in Nat
        /\ BuyerOK(buyer, Countersigned, chain, {})
    BY <1>1, PoolFacts, BuyerTakes
  <1>3. CASE /\ buyer.phase \in {"close-required", "close-requested", "close-unknown"} /\ HasKind12
             /\ Handle(<<SendFrame(SavedKind12)>>)
    <2>1. SavedKind12 \in buyer.file /\ SavedKind12.kind = "kind12"
      BY <1>3 DEF HasKind12, SavedKind12, Of
    <2>2. SavedKind12 \in Artifacts /\ Ending(buyer)
      BY <1>2, <1>3, <2>1 DEF Sessions, Ending, EndPhases
    <2>3. /\ Within(<<SendFrame(SavedKind12)>>, 2, 80)
          /\ BuyerOK(buyer, Countersigned, chain, Ahead(<<SendFrame(SavedKind12)>>))
      BY <1>2, <2>1, <2>2, ReplayPlan
    <2> QED BY <1>1, <1>3, <2>3, HandleKeeps
  <1>4. CASE /\ buyer.phase \in {"close-required", "close-requested", "close-unknown"}
             /\ ~CloseRefused /\ Handle(PrepareAndSendClose)
    <2>1. Ending(buyer)
      BY <1>4 DEF Ending, EndPhases
    <2>2. /\ Within(PrepareAndSendClose, 20, 60)
          /\ BuyerOK(buyer, Countersigned, chain, Ahead(PrepareAndSendClose))
      BY <1>2, <1>4, <2>1, ClosePlanOK
    <2>3. Within(PrepareAndSendClose, 2, 80)
      BY <2>2, WithinAll
    <2> QED BY <1>1, <1>4, <2>2, <2>3, HandleKeeps
  <1>5. CASE FailFrame
    BY <1>5, RefusedKeeps
  <1> DEFINE x == CHOOSE e \in buyer.file : e.kind = "kind5" /\ e.auth = buyer.pending
             s == <<SendFrame(Kind4)>> \o When(buyer.pending # 0, <<SendFrame(x)>>)
  <1>6. CASE Handle(When(buyer.phase \in {"funded", "request-prepared"}, s))
    <2>1. Within(s, 2, 80) /\ BuyerOK(buyer, Countersigned, chain, Ahead(s))
      BY <1>2, ReopenPlan
    <2>2. Within(<<>>, 2, 80) /\ BuyerOK(buyer, Countersigned, chain, Ahead(<<>>))
      BY <1>2, NothingPlan
    <2> HIDE DEF s
    <2>3. /\ Within(When(buyer.phase \in {"funded", "request-prepared"}, s), 2, 80)
          /\ BuyerOK(buyer, Countersigned, chain, Ahead(When(buyer.phase \in {"funded", "request-prepared"}, s)))
      BY <2>1, <2>2 DEF When
    <2> QED BY <1>1, <1>6, <2>3, HandleKeeps
  <1> QED BY <1>3, <1>4, <1>5, <1>6 DEF HandleOpeningResponse

(* A delivery: the payment for it.                                          *)
LEMMA DeliveryKeeps ==
  ASSUME PoolInv, HandleContentDelivery PROVE PoolInv'
  <1> DEFINE y == Head(toBuyer)
             a == y.auth
             x == Artifact("kind7", a, y.sequence)
             sign == When(~Holds(buyer.file, "signature7", a),
                          <<Put(Artifact("digest7", a, 0)), Call("assert"), Put(Artifact("signature7", a, 0))>>)
             ended(complete) == IF complete THEN <<SetPhase("content-committing", 0), SetPhase("close-required", 0)>>
                                ELSE <<SetPhase("funded", 0)>>
             s(complete) == sign \o <<Call("assert"), Effect("file", x), Effect("list", x), Call("assert"), SendFrame(x)>>
                                 \o ended(complete)
  <1>1. Take("kind6")
    BY DEF HandleContentDelivery
  <1>2. /\ buyer \in Sessions /\ IsFiniteSet(buyer.file) /\ Countersigned \in Nat
        /\ BuyerOK(buyer, Countersigned, chain, {}) /\ y \in Artifacts /\ Asked(buyer, Countersigned, y)
    BY <1>1, PoolFacts, BuyerTakes
  <1>3. CASE x \in buyer.file /\ Handle(<<SendFrame(x)>>)
    <2>1. x \in Artifacts /\ x.kind = "kind7"
      <3>1. "kind7" \in Kinds /\ y.auth \in Nat /\ y.sequence \in Nat
        BY <1>2, ArtifactIs DEF Kinds
      <3> QED BY <3>1, ArtifactShape
    <2> HIDE DEF x
    <2>2. Within(<<SendFrame(x)>>, 2, 80) /\ BuyerOK(buyer, Countersigned, chain, Ahead(<<SendFrame(x)>>))
      BY <1>2, <1>3, <2>1, ReplayPlan
    <2> QED BY <1>1, <1>3, <2>2, HandleKeeps
  <1>4. CASE FailFrame
    BY <1>4, RefusedKeeps
  <1>5. ASSUME x \notin buyer.file, buyer.pending = a, NEW complete \in BOOLEAN, Handle(s(complete))
        PROVE  PoolInv'
    <2>1. Within(s(complete), 2, 80) /\ BuyerOK(buyer, Countersigned, chain, Ahead(s(complete)))
      BY <1>2, <1>5, PaymentPlan
    <2> HIDE DEF s
    <2> QED BY <1>1, <1>5, <2>1, HandleKeeps
  <1>6. \/ x \in buyer.file /\ Handle(<<SendFrame(x)>>)
        \/ FailFrame
        \/ x \notin buyer.file /\ buyer.pending = a /\ \E complete \in BOOLEAN : Handle(s(complete))
    BY DEF HandleContentDelivery
  <1> QED BY <1>3, <1>4, <1>5, <1>6

(* The answer to a close.                                                   *)
LEMMA CloseResponseKeeps ==
  ASSUME PoolInv, HandleCloseResponse PROVE PoolInv'
  <1> DEFINE x == Head(toBuyer)
             s == <<Call("assert")>> \o When(x \notin buyer.listed, <<Put(x)>>) \o CloseUnknown
  <1>1. Take("kind13")
    BY DEF HandleCloseResponse
  <1>2. /\ buyer \in Sessions /\ IsFiniteSet(buyer.file) /\ Countersigned \in Nat
        /\ BuyerOK(buyer, Countersigned, chain, {})
        /\ x \in Artifacts /\ x.kind = "kind13" /\ x.auth = 0 /\ Ending(buyer)
    BY <1>1, PoolFacts, BuyerTakes
  <1>3. CASE Of(buyer.listed, "kind12") = {Artifact("kind12", 0, x.sequence)} /\ BoundClose /\ Handle(s)
    <2>1. Within(s, 2, 80) /\ BuyerOK(buyer, Countersigned, chain, Ahead(s))
      BY <1>2, <1>3, CloseResponsePlan
    <2> HIDE DEF s
    <2> QED BY <1>1, <1>3, <2>1, HandleKeeps
  <1>4. CASE FailFrame
    BY <1>4, RefusedKeeps
  <1> QED BY <1>3, <1>4 DEF HandleCloseResponse

(* What the buyer starts of its own: a request, a close, a recovery.        *)
LEMMA BuyerActs ==
  ASSUME PoolInv, DispatchRequest \/ CloseDispatchedPool \/ ResumePoolRecovery PROVE PoolInv'
  <1>1. /\ buyer \in Sessions /\ IsFiniteSet(buyer.file) /\ Countersigned \in Nat
        /\ BuyerOK(buyer, Countersigned, chain, {})
    BY PoolFacts DEF DispatchRequest, CloseDispatchedPool, ResumePoolRecovery
  <1>2. UNCHANGED <<buyer, seller, chain, up, toSeller, poolBounds>> /\ toBuyer' = toBuyer
    BY DEF DispatchRequest, CloseDispatchedPool, ResumePoolRecovery, channel
  <1>3. toBuyer' \in Seq(Artifacts) /\ Ahead(toBuyer') \subseteq Ahead(toBuyer)
    BY <1>2 DEF PoolInv, PoolTypes
  <1>4. CASE DispatchRequest
    <2> DEFINE a == 1 + Cardinality(Of(buyer.file, "kind5"))
               x == Artifact("kind5", a, 1 + SignedPayments)
               s == <<Put(x), SetPhase("request-prepared", a), Call("assert"), SendFrame(x)>>
    <2>1. buyer.phase = "funded" /\ buyer.pending = 0 /\ Start("buyer", s)
      BY <1>4 DEF DispatchRequest
    <2>2. a = 1 + Many(buyer.file, "kind5")
      BY DEF Many
    <2>3. Within(s, 2, 80) /\ BuyerOK(buyer, Countersigned, chain, Ahead(s))
      BY <1>1, <2>1, <2>2, RequestPlan
    <2> HIDE DEF s
    <2> QED BY <1>2, <1>3, <2>1, <2>3, BuyerStarts
  <1>5. CASE CloseDispatchedPool
    <2> DEFINE w == When(buyer.phase = "funded", <<SetPhase("close-required", buyer.pending)>>)
    <2>1. Start("buyer", w \o When(~CloseRefused, PrepareAndSendClose))
      BY <1>5 DEF CloseDispatchedPool
    <2>2. CASE CloseRefused
      <3>1. Within(w \o <<>>, 2, 80) /\ BuyerOK(buyer, Countersigned, chain, Ahead(w \o <<>>))
        BY <1>1, CloseRequiredPlan
      <3>2. Start("buyer", w \o <<>>)
        BY <2>1, <2>2 DEF When
      <3> HIDE DEF w
      <3> QED BY <1>2, <1>3, <3>1, <3>2, BuyerStarts
    <2>3. CASE ~CloseRefused
      <3>1. Within(ClosePlan, 18, 60) /\ BuyerOK(buyer, Countersigned, chain, Ahead(ClosePlan))
        BY <1>1, <2>3, ClosePlanOK
      <3>2. Start("buyer", ClosePlan)
        BY <2>1, <2>3 DEF When, ClosePlan
      <3>3. Within(ClosePlan, 2, 80)
        BY <3>1, WithinAll
      <3> QED BY <1>2, <1>3, <3>1, <3>2, <3>3, BuyerStarts
    <2> QED BY <2>2, <2>3
  <1>6. CASE ResumePoolRecovery
    <2>1. Of(buyer.file, "kind13") # {} /\ Start("buyer", CloseUnknown)
      BY <1>6 DEF ResumePoolRecovery
    <2>2. Within(CloseUnknown, 2, 80) /\ BuyerOK(buyer, Countersigned, chain, Ahead(CloseUnknown))
      BY <1>1, <2>1, CloseUnknownPlan
    <2> QED BY <1>2, <1>3, <2>1, <2>2, BuyerStarts
  <1> QED BY <1>4, <1>5, <1>6

-----------------------------------------------------------------------------
(* The seller's handlers.                                                  *)

LEMMA SellerHears ==
  ASSUME PoolInv, NEW kind, Heard(kind)
  PROVE  /\ SellerOK(seller, Countersigned, chain, {}, buyer, crashed["seller"])
         /\ Of(seller.listed, "kind8") = {}
         /\ Head(toSeller) \in Artifacts /\ Head(toSeller).kind = kind
         /\ kind \in {"kind5", "kind7"} => Head(toSeller) \in buyer.file
         /\ kind = "kind12" => Ending(buyer)
         /\ Tail(toSeller) \in Seq(Artifacts) /\ Ahead(Tail(toSeller)) \subseteq Ahead(toSeller)
  <1>1. Rests("seller") /\ toSeller # <<>> /\ Head(toSeller).kind = kind /\ Of(seller.listed, "kind8") = {}
    BY DEF Heard
  <1>2. toSeller \in Seq(Artifacts) /\ FramesOK(buyer, Countersigned, Ahead(toSeller), Ahead(toBuyer))
    BY DEF PoolInv, PoolTypes
  <1>3. /\ Head(toSeller) \in Artifacts /\ Tail(toSeller) \in Seq(Artifacts)
        /\ Ahead(toSeller) = {Head(toSeller)} \union Ahead(Tail(toSeller))
    BY <1>1, <1>2, HeadAndTail
  <1> QED BY <1>1, <1>2, <1>3, PoolFacts DEF FramesOK

(* A handler of the seller starts with a plan that is in order.             *)
LEMMA ServeKeeps ==
  ASSUME PoolInv, NEW kind, Heard(kind), NEW s, Within(s, 2, 80),
         SellerOK(seller, Countersigned, chain, Ahead(s), buyer, crashed["seller"]), Serve(s)
  PROVE  PoolInv'
  <1>1. Tail(toSeller) \in Seq(Artifacts) /\ Ahead(Tail(toSeller)) \subseteq Ahead(toSeller)
    BY SellerHears
  <1>2. /\ Start("seller", s) /\ toSeller' = Tail(toSeller)
        /\ UNCHANGED <<buyer, seller, chain, up, toBuyer, poolBounds>>
    BY DEF Serve
  <1>3. toSeller' \in Seq(Artifacts) /\ Ahead(toSeller') \subseteq Ahead(toSeller)
    BY <1>1, <1>2
  <1> QED BY <1>2, <1>3, SellerStarts

(* A frame that the seller drops.                                           *)
LEMMA NothingServed ==
  ASSUME PoolInv, NEW kind, Heard(kind), Serve(<<>>) PROVE PoolInv'
  <1>1. /\ Within(<<>>, 2, 80)
        /\ SellerOK(seller, Countersigned, chain, Ahead(<<>>), buyer, crashed["seller"])
    BY SellerHears, SellerRestsOn
  <1> QED BY <1>1, ServeKeeps

(* An opening and its funding.                                              *)
LEMMA OpeningKeeps ==
  ASSUME PoolInv, HandleKind2 \/ HandleKind4 PROVE PoolInv'
  <1>1. CASE Refuse
    BY <1>1, RefusedKeeps
  <1>2. CASE Heard("kind2") /\ Serve(<<SendFrame(Kind3)>>)
    <2>1. Kind3 \in Artifacts /\ Kind3.kind = "kind3"
      <3>1. "kind3" \in Kinds
        BY DEF Kinds
      <3> QED BY <3>1, ArtifactShape DEF Kind3
    <2>2. SellerOK(seller, Countersigned, chain, {}, buyer, crashed["seller"])
      BY <1>2, SellerHears
    <2>3. /\ Within(<<SendFrame(Kind3)>>, 2, 80)
          /\ SellerOK(seller, Countersigned, chain, Ahead(<<SendFrame(Kind3)>>), buyer, crashed["seller"])
      <3> DEFINE x == Kind3
      <3>1. x \in Artifacts /\ (x.kind = "kind3" \/ (x.kind = "kind6" /\ Asked(buyer, Countersigned, x)))
        BY <2>1
      <3> HIDE DEF x
      <3>2. /\ Within(<<SendFrame(x)>>, 2, 80)
            /\ SellerOK(seller, Countersigned, chain, Ahead(<<SendFrame(x)>>), buyer, crashed["seller"])
        BY <2>2, <3>1, AnswerPlan
      <3> QED BY <3>2 DEF x
    <2> QED BY <1>2, <2>3, ServeKeeps
  <1>3. CASE /\ Heard("kind4") /\ seller.phase = "opening-presigned"
             /\ Serve(<<Put(Kind4), SetPhase("funded", 0)>>)
    <2> DEFINE s == <<Put(Kind4), SetPhase("funded", 0)>>
    <2>1. SellerOK(seller, Countersigned, chain, {}, buyer, crashed["seller"])
      BY <1>3, SellerHears
    <2>2. Within(s, 2, 80) /\ SellerOK(seller, Countersigned, chain, Ahead(s), buyer, crashed["seller"])
      BY <1>3, <2>1, FundedPlan
    <2> HIDE DEF s
    <2>3. Heard("kind4") /\ Serve(s)
      BY <1>3 DEF s
    <2> QED BY <2>2, <2>3, ServeKeeps
  <1>4. CASE Heard("kind4") /\ Serve(<<>>)
    BY <1>4, NothingServed
  <1> QED BY <1>1, <1>2, <1>3, <1>4 DEF HandleKind2, HandleKind4

(* A request: the delivery of its content.                                  *)
LEMMA RequestKeeps ==
  ASSUME PoolInv, HandleKind5 PROVE PoolInv'
  <1> DEFINE x == Head(toSeller)
             y == Artifact("kind6", x.auth, x.sequence)
             s == <<Put(x), Await(x), Put(y), SetPhase("delivery-prepared", x.auth), SendFrame(y)>>
  <1>1. Heard("kind5")
    BY DEF HandleKind5
  <1>2. /\ Countersigned \in Nat /\ SellerOK(seller, Countersigned, chain, {}, buyer, crashed["seller"])
        /\ x \in Artifacts /\ x.kind = "kind5" /\ x \in buyer.file
    BY <1>1, PoolFacts, SellerHears
  <1>3. y \in Artifacts /\ y.kind = "kind6" /\ y.auth = x.auth
    <2>1. "kind6" \in Kinds /\ x.auth \in Nat /\ x.sequence \in Nat
      BY <1>2, ArtifactIs DEF Kinds
    <2> QED BY <2>1, ArtifactShape
  <1>4. CASE {x, y} \subseteq seller.file /\ Serve(<<SendFrame(y)>>)
    <2>1. Asked(buyer, Countersigned, y)
      BY <1>2, <1>3, <1>4 DEF SellerOK, SellerFiles, Of
    <2> HIDE DEF y
    <2>2. /\ Within(<<SendFrame(y)>>, 2, 80)
          /\ SellerOK(seller, Countersigned, chain, Ahead(<<SendFrame(y)>>), buyer, crashed["seller"])
      BY <1>2, <1>3, <2>1, AnswerPlan
    <2> QED BY <1>1, <1>4, <2>2, ServeKeeps
  <1>5. CASE seller.phase \in {"funded", "paid"} /\ x.sequence = Countersigned + 1 /\ Serve(s)
    <2>1. x.sequence <= Countersigned + 1
      BY <1>2, <1>5
    <2>2. Within(s, 2, 80) /\ SellerOK(seller, Countersigned, chain, Ahead(s), buyer, crashed["seller"])
      BY <1>2, <1>3, <1>5, <2>1, DeliveryPlan
    <2> HIDE DEF s
    <2> QED BY <1>1, <1>5, <2>2, ServeKeeps
  <1>6. CASE Refuse
    BY <1>6, RefusedKeeps
  <1>7. \/ {x, y} \subseteq seller.file /\ Serve(<<SendFrame(y)>>)
        \/ seller.phase \in {"funded", "paid"} /\ x.sequence = Countersigned + 1 /\ Serve(s)
        \/ Refuse
    BY DEF HandleKind5
  <1> QED BY <1>4, <1>5, <1>6, <1>7

(* A payment: the countersignature.                                         *)
LEMMA PaymentKeeps ==
  ASSUME PoolInv, HandleKind7 PROVE PoolInv'
  <1> DEFINE x == Head(toSeller)
  <1>1. Heard("kind7")
    BY DEF HandleKind7
  <1>2. /\ Countersigned \in Nat /\ SellerOK(seller, Countersigned, chain, {}, buyer, crashed["seller"])
        /\ seller \in Sessions /\ x \in Artifacts /\ x.kind = "kind7" /\ x \in buyer.file
    BY <1>1, PoolFacts, SellerHears
  <1>3. CASE Refuse
    BY <1>3, RefusedKeeps
  <1>4. CASE Serve(<<>>)
    BY <1>1, <1>4, NothingServed
  <1>5. CASE seller.phase \in {"delivery-prepared", "payment-signing"} /\ Serve(SignPayment(x))
    <2>1. /\ Within(SignPayment(x), 2, 80)
          /\ SellerOK(seller, Countersigned, chain, Ahead(SignPayment(x)), buyer, crashed["seller"])
      BY <1>2, <1>5, CountersignPlan
    <2> QED BY <1>1, <1>5, <2>1, ServeKeeps
  <1> QED BY <1>3, <1>4, <1>5 DEF HandleKind7

(* A close: the countersigned close and its broadcast.                      *)
LEMMA CloseKeeps ==
  ASSUME PoolInv, HandleKind12 PROVE PoolInv'
  <1> DEFINE x == Head(toSeller)
  <1>1. Heard("kind12")
    BY DEF HandleKind12
  <1>2. /\ Countersigned \in Nat /\ SellerOK(seller, Countersigned, chain, {}, buyer, crashed["seller"])
        /\ seller \in Sessions /\ x \in Artifacts /\ x.kind = "kind12" /\ Ending(buyer)
        /\ Of(seller.listed, "kind8") = {}
    BY <1>1, PoolFacts, SellerHears
  <1>3. CASE Refuse
    BY <1>3, RefusedKeeps
  <1>4. CASE /\ Of(seller.file, "kind12") \subseteq {x} /\ Of(seller.file, "kind13") # {}
             /\ Serve(CompleteClose(x))
    <2>1. /\ Within(CompleteClose(x), 2, 80)
          /\ SellerOK(seller, Countersigned, chain, Ahead(CompleteClose(x)), buyer, crashed["seller"])
      BY <1>2, <1>4, CompleteClosePlan
    <2> QED BY <1>1, <1>4, <2>1, ServeKeeps
  <1>5. CASE Of(seller.file, "kind12") \subseteq {x} /\ Serve(SignClose(x))
    <2>1. /\ Within(SignClose(x), 2, 80)
          /\ SellerOK(seller, Countersigned, chain, Ahead(SignClose(x)), buyer, crashed["seller"])
      BY <1>2, <1>5, SignClosePlan
    <2> QED BY <1>1, <1>5, <2>1, ServeKeeps
  <1>6. \/ Refuse
        \/ Of(seller.file, "kind12") \subseteq {x} /\ Of(seller.file, "kind13") # {} /\ Serve(CompleteClose(x))
        \/ Of(seller.file, "kind12") \subseteq {x} /\ Serve(SignClose(x))
    <2>1. Of(seller.file, "kind12") \ {x} # {} \/ Of(seller.file, "kind12") \subseteq {x}
      OBVIOUS
    <2> QED BY <2>1 DEF HandleKind12
  <1> QED BY <1>3, <1>4, <1>5, <1>6

(* The seller goes to the arbitrator.                                       *)
LEMMA ArbitrationKeeps ==
  ASSUME PoolInv, SubmitArbitration PROVE PoolInv'
  <1>1. /\ Start("seller", ArbitrationPlan) /\ Rests("seller")
        /\ Of(seller.file, "kind8") # {} \/ seller.phase = "delivery-prepared"
        /\ UNCHANGED <<buyer, seller, channel, chain, poolBounds>>
    BY DEF SubmitArbitration, ArbitrationPlan, ArbitrationSigning
  <1>2. seller \in Sessions /\ SellerOK(seller, Countersigned, chain, {}, buyer, crashed["seller"])
    BY <1>1, PoolFacts
  <1>3. /\ Within(ArbitrationPlan, 2, 80)
        /\ SellerOK(seller, Countersigned, chain, Ahead(ArbitrationPlan), buyer, crashed["seller"])
    BY <1>1, <1>2, ArbitrationPlanOK
  <1>4. UNCHANGED <<buyer, seller, chain, up, toBuyer, poolBounds>> /\ toSeller' = toSeller
    BY <1>1 DEF channel
  <1>5. toSeller' \in Seq(Artifacts) /\ Ahead(toSeller') \subseteq Ahead(toSeller)
    BY <1>4 DEF PoolInv, PoolTypes
  <1> QED BY <1>1, <1>3, <1>4, <1>5, SellerStarts

-----------------------------------------------------------------------------
(* The theorems.                                                           *)

(* The evidence of both sides, the effects that are ahead of them, and the *)
(* frames in flight fit together in every state, whatever is lost and      *)
(* whenever either side crashes.                                           *)
THEOREM PoolInvariant == PoolSpec => []PoolInv
  <1>1. PoolInit => PoolInv
    BY PoolBegins
  <1>2. PoolInv /\ [PoolNext]_poolVars => PoolInv'
    <2> SUFFICES ASSUME PoolInv, [PoolNext]_poolVars PROVE PoolInv'
      OBVIOUS
    <2>1. CASE DispatchRequest \/ CloseDispatchedPool \/ ResumePoolRecovery
      BY <2>1, BuyerActs
    <2>2. CASE BuyerFrame
      BY <2>2, OpeningResponseKeeps, DeliveryKeeps, CloseResponseKeeps DEF BuyerFrame
    <2>3. CASE SellerFrame
      <3>1. CASE RefusePending
        BY <3>1, RefusedKeeps DEF RefusePending
      <3>2. CASE HandleKind2 \/ HandleKind4
        BY <3>2, OpeningKeeps
      <3> QED BY <2>3, <3>1, <3>2, RequestKeeps, PaymentKeeps, CloseKeeps DEF SellerFrame
    <2>4. CASE SubmitArbitration
      BY <2>4, ArbitrationKeeps
    <2>5. CASE BuyerStep
      BY <2>5, WriteKeepsBuyer, AssertKeeps, SendKeepsBuyer, ObserveCloseKeeps DEF BuyerStep
    <2>6. CASE SellerStep
      BY <2>6, WriteKeepsSeller, SendKeepsSeller, NetworkKeeps, ExchangeKeeps, BreakKeeps, AwaitKeeps
         DEF SellerStep
    <2>7. CASE Lose \/ IdleTimeout
      <3>1. Closed /\ UNCHANGED <<buyer, seller, chain, crashed>> /\ losses' \in {losses, losses + 1}
        BY <2>7 DEF Lose, IdleTimeout, poolBounds
      <3>2. losses' \in Nat
        BY <3>1 DEF PoolInv, PoolTypes
      <3> QED BY <3>1, <3>2, ClosedKeeps
    <2>8. CASE Connect \/ Reconnect
      BY <2>8, ConnectKeeps
    <2>9. ASSUME NEW side \in Sides, Crash(side) PROVE PoolInv'
      BY <2>9, CrashKeeps
    <2>10. CASE UNCHANGED poolVars
      BY <2>10 DEF poolVars, PoolInv, PoolTypes, Countersigned, BuyerTodo, SellerTodo
    <2> QED BY <2>1, <2>2, <2>3, <2>4, <2>5, <2>6, <2>7, <2>8, <2>9, <2>10 DEF PoolNext
  <1> QED BY <1>1, <1>2, PTL DEF PoolSpec

(* What the seller countersigned the buyer signed, payment for payment:    *)
(* SignPayment countersigns a payment the buyer's file holds, with the     *)
(* next sequence number, and handleContentDelivery signs the next only     *)
(* when the last was countersigned.                                        *)
THEOREM PaymentsAgreeAlways == PoolSpec => []PaymentsAgree
  <1>1. PoolInv => PaymentsAgree
    <2> SUFFICES ASSUME PoolInv PROVE PaymentsAgree
      OBVIOUS
    <2>1. Countersigned = Many(seller.listed, "paid")
      BY DEF Countersigned, Many
    <2>2. BuyerFiles(buyer, Countersigned) /\ SellerFiles(seller, Countersigned, buyer)
      BY DEF PoolInv, BuyerOK, SellerOK
    <2>3. \A p \in Of(seller.listed, "paid") : Artifact("kind7", p.auth, p.sequence) \in Of(buyer.file, "kind7")
      BY <2>2 DEF SellerFiles, Kind7Of, Of, Artifact
    <2> QED BY <2>1, <2>2, <2>3 DEF PaymentsAgree, BuyerFiles, SellerFiles, Numbered, Many
  <1> QED BY <1>1, PoolInvariant, PTL

(* A close in the network covers every countersigned payment: CompleteClose *)
(* broadcasts only such a close, and no payment is signed after it; the    *)
(* buyer is done when it saw the close it is bound to.                     *)
THEOREM CloseIsFinalAlways == PoolSpec => []CloseIsFinal
  <1>1. PoolInv => CloseIsFinal
    <2> SUFFICES ASSUME PoolInv PROVE CloseIsFinal
      OBVIOUS
    <2>1. BuyerRecord(buyer, chain) /\ SellerFiles(seller, Countersigned, buyer) /\ SellerChain(seller, Countersigned, chain)
      BY DEF PoolInv, BuyerOK, SellerOK
    <2>2. ASSUME chain = "close", NEW e \in Of(seller.file, "kind13") PROVE e.sequence >= Countersigned
      <3>1. PICK x \in Of(seller.file, "kind12") : x.sequence >= Countersigned
        BY <2>1, <2>2 DEF SellerChain
      <3>2. PICK y \in Of(seller.file, "kind12") : y.sequence = e.sequence
        BY <2>1, <2>2 DEF SellerFiles
      <3>3. x = y
        BY <2>1, <3>1, <3>2 DEF SellerFiles
      <3> QED BY <3>1, <3>2, <3>3
    <2>3. ASSUME buyer.phase = "completed"
          PROVE  chain = "close" /\ Of(buyer.file, "kind13") = {Artifact("kind13", 0, SignedPayments)}
      <3>1. CloseOf(buyer) = Artifact("kind13", 0, SignedPayments)
        BY DEF CloseOf, SignedPayments, Many
      <3>2. chain = "close" /\ CloseOf(buyer) \in Of(buyer.file, "kind13")
        BY <2>1, <2>3 DEF BuyerRecord, CloseOf, Artifact, Of
      <3>3. \A x \in Of(buyer.file, "kind13") : x = CloseOf(buyer)
        BY <2>1 DEF BuyerRecord
      <3> QED BY <3>1, <3>2, <3>3
    <2> QED BY <2>2, <2>3 DEF CloseIsFinal
  <1> QED BY <1>1, PoolInvariant, PTL

(* A pool that is arbitrated has no close beside it that could settle it:  *)
(* HandleKind12 hears nothing once kind 8 is listed, and SubmitArbitration *)
(* starts in no phase in which a close may be broadcast.                   *)
THEOREM OneSettlementAlways == PoolSpec => []OneSettlement
  <1>1. PoolInv => OneSettlement
    <2> SUFFICES ASSUME PoolInv, crashed["seller"] = 0, Of(seller.file, "arbitrated") # {},
                        NEW e \in Of(seller.file, "kind13")
                 PROVE  e.sequence < Countersigned
      BY DEF OneSettlement
    <2>1. SellerSettles(seller, Countersigned, Ahead(SellerTodo))
      BY DEF PoolInv, SellerOK
    <2> QED BY <2>1 DEF SellerSettles
  <1> QED BY <1>1, PoolInvariant, PTL

==============================================================================
