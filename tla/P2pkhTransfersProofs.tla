------------------------ MODULE P2pkhTransfersProofs ------------------------
(***************************************************************************)
(* Proofs about P2pkhTransfers, for every set of coins, submissions and    *)
(* handlers: its types, that a coin is not spent twice, and that a         *)
(* transfer which ended without a transaction holds no coins.              *)
(***************************************************************************)
EXTENDS P2pkhTransfers, TLAPS

Posted == {"dispatch", "provider", "result", "reject"}
Sending == Posted \union {"lease", "answered"}
NotSent == {"rejected", "not-dispatched"}

(* A handler works on a submission of its kind, and is where such handlers *)
(* can be.                                                                 *)
Shaped(r) ==
  \/ r = NoCall
  \/ r.op = "submit" /\ r.sub \in Transfers /\ r.pc \in {"resolving", "signing", "audit"} \union Sending
  \/ r.op = "exact" /\ r.sub \in Plans /\ r.pc \in Sending
  \/ r.op = "presign" /\ r.sub \in Plans /\ r.pc \in {"resolving", "signing", "record"}
  \/ r.op = "release" /\ r.sub \in Plans /\ r.pc \in {"read", "seal", "put"}

(* What a handler of submission s knows. *)
CallKnown(c, s) ==
  LET r == call[c] IN
  /\ state[s] # "none"
  /\ r.op = "submit" /\ r.pc # "resolving" => state[s] # "prepared"
  /\ r.op = "submit" /\ r.pc \in {"signing", "audit", "lease"} => tries[s] = 0
  /\ r.pc \in Posted => tries[s] > 0
  /\ r.pc = "result" /\ r.res = "accepted" => s \in taken
  /\ r.pc = "reject" => r.res \in NotSent
  /\ r.pc = "answered" => r.res \in NotSent \union {"unknown", "error"} \/ s \in taken

(* What it knows besides, as long as its transaction was dispatched once   *)
(* at most: the coins stay frozen until the provider has refused it.       *)
OnceKnown(c, s) ==
  LET r == call[c] IN
  /\ r.pc \in {"dispatch", "provider", "result"} =>
       s \in frozen /\ state[s] \in {"dispatching", "unknown", "accepted"}
  /\ r.pc = "dispatch" => s \notin taken
  /\ r.pc = "provider" /\ r.res = "lost" => s \notin taken
  /\ r.pc = "result" /\ r.res \in NotSent => s \notin taken
  /\ r.pc = "reject" => s \notin taken /\ state[s] = "rejected"
  /\ r.op = "submit" /\ r.pc = "answered" /\ r.res \in NotSent \union {"error"} => s \notin taken
  /\ r.pc = "put" => state[s] \in {"rejected", "cancelled"}

(* One handler of a transfer gets past its preview, and one dispatch is    *)
(* the work of one handler.                                                *)
Alone(c, d, s) ==
  /\ s \in Transfers /\ call[c].pc # "resolving" /\ call[d].pc # "resolving" => c = d
  /\ tries[s] <= 1 /\ call[c].pc \in Posted /\ call[d].pc \in Posted => c = d

(* The state of a submission tells where its coins and its bytes are. *)
StateKnown(s) ==
  /\ state[s] = "none" => s \notin frozen
  /\ state[s] \in {"none", "prepared"} => tries[s] = 0
  /\ state[s] = "accepted" => s \in taken
  /\ s \in taken => tries[s] > 0
  /\ tries[s] = 0 => /\ state[s] # "dispatching"
                     /\ state[s] \in {"prepared", "signing", "signed", "unknown"} => s \in frozen
  /\ tries[s] <= 1 /\ s \in taken =>
       s \in frozen /\ state[s] \in {"dispatching", "unknown", "accepted"}

(* A transfer that ended with its coins frozen has a handler to free them. *)
FreedKnown(s) ==
  s \in Transfers =>
    /\ state[s] = "cancelled" => s \notin frozen
    /\ state[s] = "rejected" /\ s \in frozen =>
         \E c \in Calls : call[c].sub = s /\ call[c].pc \in {"reject", "answered"}

Known(s) ==
  /\ StateKnown(s) /\ FreedKnown(s)
  /\ \A c \in Calls : call[c].sub = s =>
       /\ CallKnown(c, s)
       /\ tries[s] <= 1 => OnceKnown(c, s)
       /\ \A d \in Calls : call[d].sub = s => Alone(c, d, s)

Apart == \A s, t \in frozen : s # t => inputs[s] \intersect inputs[t] = {}

(* Only a funded submission was signed.                                    *)
SignedKnown == \A s \in raw : state[s] # "none"

TransfersInv ==
  /\ TransfersTypeOK
  /\ \A c \in Calls : Shaped(call[c])
  /\ \A s \in Subs : Known(s)
  /\ Apart /\ SignedKnown

-----------------------------------------------------------------------------
(* Handlers *)

LEMMA NoCallTyped == NoCall \in CallRecord
  BY DEF NoCall, CallRecord, Answers

LEMMA GotoFacts ==
  ASSUME call \in [Calls -> CallRecord], NEW c \in Calls,
         NEW pc \in {"none", "resolving", "signing", "audit", "lease", "record", "read", "seal",
                     "put", "dispatch", "provider", "result", "reject", "answered"},
         NEW res \in Answers, Goto(c, pc, res)
  PROVE  /\ call' \in [Calls -> CallRecord]
         /\ call'[c].op = call[c].op /\ call'[c].sub = call[c].sub
         /\ call'[c].pc = pc /\ call'[c].res = res
         /\ \A d \in Calls \ {c} : call'[d] = call[d]
<1> DEFINE r == [call[c] EXCEPT !.pc = pc, !.res = res]
<1>1. call[c] \in CallRecord
  OBVIOUS
<1>2. /\ r \in CallRecord /\ r.op = call[c].op /\ r.sub = call[c].sub
      /\ r.pc = pc /\ r.res = res
  BY <1>1 DEF CallRecord
<1>3. call' = [call EXCEPT ![c] = r]
  BY <1>1 DEF Goto, CallRecord
<1> HIDE DEF r
<1> QED
  BY <1>2, <1>3

LEMMA StartFacts ==
  ASSUME call \in [Calls -> CallRecord], NEW c \in Calls, NEW s \in Subs,
         NEW op \in {"submit", "presign", "exact", "release"},
         NEW pc \in {"resolving", "lease", "read"}, Start(c, op, s, pc)
  PROVE  /\ call' \in [Calls -> CallRecord]
         /\ call[c] = NoCall
         /\ call'[c].op = op /\ call'[c].sub = s
         /\ call'[c].pc = pc /\ call'[c].res = "none"
         /\ \A d \in Calls \ {c} : call'[d] = call[d]
<1> DEFINE r == [op |-> op, sub |-> s, pc |-> pc, res |-> "none"]
<1>1. /\ r \in CallRecord /\ r.op = op /\ r.sub = s /\ r.pc = pc /\ r.res = "none"
  BY DEF CallRecord, Answers
<1>2. call' = [call EXCEPT ![c] = r] /\ call[c] = NoCall
  BY DEF Start
<1> HIDE DEF r
<1> QED
  BY <1>1, <1>2

LEMMA ReturnFacts ==
  ASSUME call \in [Calls -> CallRecord], NEW c \in Calls, Return(c)
  PROVE  /\ call' \in [Calls -> CallRecord] /\ call'[c] = NoCall
         /\ \A d \in Calls \ {c} : call'[d] = call[d]
  BY NoCallTyped DEF Return

(* What an undispatched intention is sealed as, and what an outcome makes  *)
(* of a state.                                                             *)
LEMMA SealedFacts ==
  ASSUME NEW s \in Subs, state \in [Subs -> States]
  PROVE  /\ Sealed(s) \in {"rejected", "cancelled"}
         /\ state[s] = "rejected" => Sealed(s) = "rejected"
  BY DEF Sealed

LEMMA OutcomeFacts ==
  ASSUME NEW s \in Subs, state \in [Subs -> States], NEW o \in {"accepted", "rejected", "unknown"}
  PROVE  /\ Outcome(s, o) \in {state[s], o} /\ Outcome(s, o) \in States
         /\ Outcome(s, o) # state[s] => state[s] \in {"signed", "dispatching", "unknown"}
         /\ ~Refused(s, o) /\ state[s] \in {"signed", "dispatching", "unknown"} => Outcome(s, o) = o
         /\ ~Refused(s, o) => state[s] \in {o, "accepted", "signed", "dispatching", "unknown"}
                              \/ (o = "unknown" /\ state[s] \in {"rejected", "cancelled"})
  BY DEF Outcome, Ignored, Refused, States

-----------------------------------------------------------------------------
(* Types *)

LEMMA TypesInit == Init => TransfersTypeOK
  BY NoCallTyped DEF Init, TransfersTypeOK, States, Records

LEMMA SubsNamed == /\ Transfers \subseteq Subs /\ Plans \subseteq Subs
                   /\ Transfers \intersect Plans = {} /\ "none" \notin Subs
  BY SubsAssumption DEF Subs

(* A handler that is in flight has a submission. *)
LEMMA Busy ==
  ASSUME NEW c \in Calls, Shaped(call[c]), call[c].op # "none" \/ call[c].pc # "none"
  PROVE  call[c].sub \in Subs
  BY SubsNamed DEF Shaped, NoCall

(* What a step of a handler may do to its submission and no other, ...     *)
Touches(s) ==
  /\ state' \in [Subs -> States] /\ \A t \in Subs \ {s} : state'[t] = state[t]
  /\ raw' \subseteq raw \union {s} /\ inputs' = inputs /\ pool' \subseteq Coins \union Subs
  /\ frozen' \in {frozen, frozen \ {s}}
  /\ previews' \subseteq previews
  /\ record' \in [Subs -> Records]
  /\ taken' \in {taken, taken \union {s}}
  /\ tries' \in [Subs -> Nat] /\ \A t \in Subs \ {s} : tries'[t] = tries[t]

(* ... and where it leaves its handler.                                    *)
Moves(c) ==
  /\ call' \in [Calls -> CallRecord] /\ \A d \in Calls \ {c} : call'[d] = call[d]
  /\ Shaped(call'[c])
  /\ call'[c] = NoCall \/ (call'[c].op = call[c].op /\ call'[c].sub = call[c].sub)

LEMMA SealTouches ==
  ASSUME TransfersTypeOK, NEW s \in Subs, SealAndRelease(s)
  PROVE  /\ state' \in [Subs -> States] /\ \A t \in Subs \ {s} : state'[t] = state[t]
         /\ state'[s] \in {"rejected", "cancelled"} /\ frozen' = frozen \ {s}
         /\ state[s] = "rejected" => state'[s] = "rejected"
  BY SealedFacts DEF SealAndRelease, TransfersTypeOK, States

LEMMA CaughtMoves ==
  ASSUME TransfersTypeOK, NEW c \in Calls, Shaped(call[c]), call[c].sub \in Subs,
         NEW dispatched \in BOOLEAN, Caught(c, dispatched)
  PROVE  /\ Moves(c) /\ call'[c] = NoCall
         /\ state' \in [Subs -> States] /\ \A t \in Subs \ {call[c].sub} : state'[t] = state[t]
         /\ frozen' \in {frozen, frozen \ {call[c].sub}}
         /\ previews' \subseteq previews
<1> DEFINE s == call[c].sub
<1>1. Moves(c) /\ call'[c] = NoCall
  BY ReturnFacts DEF Caught, Moves, Shaped, TransfersTypeOK
<1>2. \/ SealAndRelease(s) /\ previews' = previews \ {s}
      \/ UNCHANGED <<state, frozen, previews>>
  BY DEF Caught
<1> HIDE DEF s
<1>3. CASE SealAndRelease(s) /\ previews' = previews \ {s}
  <2>1. s \in Subs
    BY DEF s
  <2> QED
    BY <1>1, <1>3, <2>1, SealTouches DEF s
<1>4. CASE UNCHANGED <<state, frozen, previews>>
  BY <1>1, <1>4 DEF TransfersTypeOK
<1> QED
  BY <1>2, <1>3, <1>4

LEMMA BuildFailsMoves ==
  ASSUME TransfersTypeOK, NEW c \in Calls, Shaped(call[c]), call[c].sub \in Subs, BuildFails(c)
  PROVE  /\ Moves(c) /\ call'[c] = NoCall
         /\ state' \in [Subs -> States] /\ \A t \in Subs \ {call[c].sub} : state'[t] = state[t]
         /\ frozen' \in {frozen, frozen \ {call[c].sub}}
<1> DEFINE s == call[c].sub
<1>1. Moves(c) /\ call'[c] = NoCall
  BY ReturnFacts DEF BuildFails, Moves, Shaped, TransfersTypeOK
<1>2. SealAndRelease(s) \/ UNCHANGED <<state, frozen>>
  BY DEF BuildFails
<1> HIDE DEF s
<1>3. CASE SealAndRelease(s)
  <2>1. s \in Subs
    BY DEF s
  <2> QED
    BY <1>1, <1>3, <2>1, SealTouches DEF s
<1>4. CASE UNCHANGED <<state, frozen>>
  BY <1>1, <1>4 DEF TransfersTypeOK
<1> QED
  BY <1>2, <1>3, <1>4

(* A handler that goes on within its kind is where it can be. *)
LEMMA GotoMoves ==
  ASSUME TransfersTypeOK, NEW c \in Calls, Shaped(call[c]),
         NEW pc \in {"signing", "audit", "lease", "record", "seal", "put",
                     "dispatch", "provider", "result", "reject", "answered"},
         NEW res \in Answers, Goto(c, pc, res),
         \/ call[c].op = "submit" /\ pc \in {"signing", "audit"} \union Sending
         \/ call[c].op = "exact" /\ pc \in Sending
         \/ call[c].op = "presign" /\ pc \in {"signing", "record"}
         \/ call[c].op = "release" /\ pc \in {"seal", "put"}
  PROVE  /\ Moves(c)
         /\ call'[c].op = call[c].op /\ call'[c].sub = call[c].sub
         /\ call'[c].pc = pc /\ call'[c].res = res
<1>1. /\ call' \in [Calls -> CallRecord]
      /\ call'[c].op = call[c].op /\ call'[c].sub = call[c].sub
      /\ call'[c].pc = pc /\ call'[c].res = res
      /\ \A d \in Calls \ {c} : call'[d] = call[d]
  BY GotoFacts DEF TransfersTypeOK
<1>2. Shaped(call'[c])
  BY <1>1 DEF Shaped, NoCall
<1> QED
  BY <1>1, <1>2 DEF Moves

-----------------------------------------------------------------------------
(* Steps of a handler *)

(* The submissions a step leaves alone stay known.                         *)
LEMMA OthersKnown ==
  ASSUME TransfersInv, NEW c \in Calls, NEW s \in Subs, Touches(s), Moves(c), call[c].sub = s,
         NEW t \in Subs, t # s
  PROVE  Known(t)'
<1>1. /\ state'[t] = state[t] /\ tries'[t] = tries[t]
      /\ t \in frozen' <=> t \in frozen
      /\ t \in taken' <=> t \in taken
  BY DEF Touches
<1>2. \A d \in Calls : call[d].sub = t \/ call'[d].sub = t => call'[d] = call[d]
  BY SubsNamed DEF Moves, NoCall
<1>3. Known(t)
  BY DEF TransfersInv
<1>4. StateKnown(t)'
  BY <1>1, <1>3 DEF Known, StateKnown
<1>5. FreedKnown(t)'
  BY <1>1, <1>2, <1>3 DEF Known, FreedKnown
<1>6. ASSUME NEW d \in Calls, call'[d].sub = t
      PROVE  CallKnown(d, t)' /\ (tries'[t] <= 1 => OnceKnown(d, t)')
  BY <1>1, <1>2, <1>3, <1>6 DEF Known, CallKnown, OnceKnown
<1>7. ASSUME NEW d \in Calls, NEW e \in Calls, call'[d].sub = t, call'[e].sub = t
      PROVE  Alone(d, e, t)'
  BY <1>1, <1>2, <1>3, <1>7 DEF Known, Alone
<1> QED
  BY <1>4, <1>5, <1>6, <1>7 DEF Known

LEMMA ApartKept ==
  ASSUME Apart, frozen' \subseteq frozen, inputs' = inputs
  PROVE  Apart'
  BY DEF Apart

LEMMA SignedKept ==
  ASSUME SignedKnown, TransfersTypeOK, NEW s \in Subs, Touches(s), state'[s] # "none"
  PROVE  SignedKnown'
  BY DEF SignedKnown, TransfersTypeOK, Touches

(* So a step of a handler keeps the invariant if the handler knows what it *)
(* should where it goes, and the state it leaves is true to the others.    *)
LEMMA HandlerKeeps ==
  ASSUME TransfersInv, NEW c \in Calls, NEW s \in Subs, call[c].sub = s,
         Touches(s), Moves(c), StateKnown(s)', FreedKnown(s)',
         call'[c].sub = s => CallKnown(c, s)' /\ (tries'[s] <= 1 => OnceKnown(c, s)'),
         \A d \in Calls \ {c} : call[d].sub = s /\ tries'[s] <= 1 => OnceKnown(d, s)',
         tries'[s] = tries[s] \/ (tries'[s] = tries[s] + 1 /\ call[c].pc = "lease"),
         state'[s] # "none", state'[s] = "prepared" => state[s] = "prepared",
         call'[c].sub = s /\ call[c].op = "submit" /\ call'[c].pc # "resolving" =>
           call[c].pc # "resolving" \/ state[s] = "prepared",
         call'[c].sub = s /\ call'[c].pc \in Posted => call[c].pc \in Posted \/ tries'[s] # tries[s]
  PROVE  TransfersInv'
<1>1. TransfersTypeOK'
  BY DEF TransfersInv, TransfersTypeOK, Touches, Moves
<1>2. \A d \in Calls : Shaped(call'[d])
  BY DEF TransfersInv, Moves
<1>3. Apart'
  BY ApartKept DEF TransfersInv, Touches
<1>4. Known(s) /\ tries[s] \in Nat /\ tries'[s] \in Nat /\ taken \subseteq taken'
  BY DEF TransfersInv, TransfersTypeOK, Touches
<1>5. \A d \in Calls \ {c} : call'[d] = call[d]
  BY DEF Moves
<1>6. ASSUME NEW d \in Calls, call'[d].sub = s
      PROVE  CallKnown(d, s)' /\ (tries'[s] <= 1 => OnceKnown(d, s)')
  <2>1. CASE d # c
    <3>1. CallKnown(d, s)
      BY <1>4, <1>5, <1>6, <2>1 DEF Known
    <3>2. Alone(c, d, s) /\ Shaped(call[d]) /\ call[d].sub = s
      BY <1>4, <1>5, <1>6, <2>1 DEF Known, TransfersInv
    <3>3. call[d].op = "submit" /\ call[d].pc \in {"signing", "audit", "lease"} => tries'[s] = tries[s]
      BY <2>1, <3>2, SubsNamed DEF Alone, Shaped, NoCall
    <3>4. CallKnown(d, s)'
      BY <1>4, <1>5, <1>6, <2>1, <3>1, <3>3 DEF CallKnown
    <3> QED
      BY <1>5, <1>6, <2>1, <3>4
  <2> QED
    BY <1>6, <2>1
<1>7. ASSUME NEW d \in Calls, NEW e \in Calls, call'[d].sub = s, call'[e].sub = s
      PROVE  Alone(d, e, s)'
  <2>1. ASSUME NEW f \in Calls, f # c, call'[f].sub = s, call'[c].sub = s
        PROVE  /\ ~(s \in Transfers /\ call'[f].pc # "resolving" /\ call'[c].pc # "resolving")
               /\ ~(tries'[s] <= 1 /\ call'[f].pc \in Posted /\ call'[c].pc \in Posted)
    <3>1. /\ call'[f] = call[f] /\ call[f].sub = s /\ CallKnown(f, s)
          /\ Alone(f, c, s)
      BY <1>4, <1>5, <2>1 DEF Known
    <3>2. s \in Transfers => call[c].op = "submit" /\ call[f].op = "submit"
      BY <2>1, <3>1, SubsNamed DEF TransfersInv, Shaped, NoCall
    <3> QED
      BY <1>4, <2>1, <3>1, <3>2 DEF Alone, CallKnown
  <2>2. CASE d # c /\ e # c
    BY <1>4, <1>5, <1>7, <2>2 DEF Known, Alone
  <2> QED
    BY <1>7, <2>1, <2>2 DEF Alone
<1>8. Known(s)'
  BY <1>6, <1>7 DEF Known
<1>9. \A t \in Subs : Known(t)'
  BY <1>8, OthersKnown
<1>10. SignedKnown'
  BY SignedKept DEF TransfersInv
<1> QED
  BY <1>1, <1>2, <1>3, <1>9, <1>10 DEF TransfersInv

(* What a handler of s is given, and what its catch block leaves.          *)
Handles(c, s) == TransfersInv /\ call[c].sub = s

LEMMA HandlesFacts ==
  ASSUME NEW c \in Calls, NEW s \in Subs, Handles(c, s)
  PROVE  /\ TransfersTypeOK /\ Shaped(call[c]) /\ Known(s) /\ call[c].sub = s
         /\ state[s] \in States /\ tries[s] \in Nat /\ call[c] \in CallRecord
         /\ CallKnown(c, s) /\ (tries[s] <= 1 => OnceKnown(c, s))
         /\ call[c].op = "submit" => s \in Transfers
         /\ call[c].op # "submit" => s \in Plans /\ s \notin Transfers
  BY SubsNamed DEF Handles, TransfersInv, TransfersTypeOK, Known, Shaped, NoCall

LEMMA SealKnown ==
  ASSUME TransfersTypeOK, NEW s \in Subs, Known(s), SealAndRelease(s), state[s] \in Undispatched,
         UNCHANGED <<taken, tries>>
  PROVE  /\ StateKnown(s)' /\ FreedKnown(s)' /\ tries'[s] = tries[s]
         /\ state'[s] \in {"rejected", "cancelled"}
         /\ \A d \in Calls : call[d].sub = s /\ call'[d] = call[d] /\ tries[s] <= 1 => OnceKnown(d, s)'
<1>1. /\ state'[s] \in {"rejected", "cancelled"} /\ s \notin frozen'
      /\ state[s] = "rejected" => state'[s] = "rejected"
      /\ taken' = taken /\ tries' = tries /\ tries[s] \in Nat
  BY SealTouches DEF TransfersTypeOK
<1>2. StateKnown(s)' /\ FreedKnown(s)'
  BY <1>1 DEF Known, StateKnown, FreedKnown, Undispatched
<1>3. ASSUME NEW d \in Calls, call[d].sub = s, call'[d] = call[d], tries[s] <= 1
      PROVE  OnceKnown(d, s)'
  <2>1. OnceKnown(d, s)
    BY <1>3 DEF Known
  <2> QED
    BY <1>1, <1>3, <2>1 DEF OnceKnown, Undispatched, Known, StateKnown
<1> QED
  BY <1>1, <1>2, <1>3

(* A handler that gives up, and seals its submission or leaves it.         *)
LEMMA GivesUp ==
  ASSUME NEW c \in Calls, NEW s \in Subs, Handles(c, s), Moves(c), call'[c] = NoCall, Touches(s),
         UNCHANGED <<taken, tries>>,
         \/ SealAndRelease(s) /\ state[s] \in Undispatched
         \/ /\ UNCHANGED <<state, frozen>>
            /\ call[c].pc \notin {"reject", "answered"} \/ state[s] # "rejected" \/ s \notin Transfers
  PROVE  TransfersInv'
<1>1. /\ TransfersInv /\ TransfersTypeOK /\ Shaped(call[c]) /\ Known(s) /\ call[c].sub = s
      /\ tries[s] \in Nat /\ tries' = tries /\ taken' = taken /\ call'[c].sub # s
      /\ \A d \in Calls \ {c} : call'[d] = call[d]
      /\ state[s] # "none"
  BY HandlesFacts, SubsNamed DEF Handles, NoCall, Moves, CallKnown
<1>2. CASE SealAndRelease(s) /\ state[s] \in Undispatched
  <2>1. /\ StateKnown(s)' /\ FreedKnown(s)' /\ tries'[s] = tries[s]
        /\ state'[s] \in {"rejected", "cancelled"}
        /\ \A d \in Calls \ {c} : call[d].sub = s /\ tries'[s] <= 1 => OnceKnown(d, s)'
    BY <1>1, <1>2, SealKnown
  <2> QED
    BY <1>1, <2>1, HandlerKeeps
<1>3. CASE /\ UNCHANGED <<state, frozen>>
           /\ call[c].pc \notin {"reject", "answered"} \/ state[s] # "rejected" \/ s \notin Transfers
  <2>1. StateKnown(s)' /\ FreedKnown(s)'
    BY <1>1, <1>3 DEF Known, StateKnown, FreedKnown
  <2>2. \A d \in Calls \ {c} : call[d].sub = s /\ tries'[s] <= 1 => OnceKnown(d, s)'
    BY <1>1, <1>3 DEF Known, OnceKnown
  <2> QED
    BY <1>1, <1>3, <2>1, <2>2, HandlerKeeps
<1> QED
  BY <1>2, <1>3

LEMMA CaughtKeeps ==
  ASSUME NEW c \in Calls, NEW s \in Subs, Handles(c, s), NEW dispatched \in BOOLEAN,
         Caught(c, dispatched), UNCHANGED <<raw, inputs, pool, record, taken, tries>>,
         dispatched => state[s] \notin {"accepted", "rejected"},
         ~dispatched => call[c].pc \notin {"reject", "answered"}
  PROVE  TransfersInv'
<1>1. TransfersInv /\ TransfersTypeOK /\ Shaped(call[c]) /\ Known(s) /\ call[c].sub = s
  BY HandlesFacts DEF Handles
<1>2. /\ Moves(c) /\ call'[c] = NoCall
      /\ state' \in [Subs -> States] /\ \A t \in Subs \ {s} : state'[t] = state[t]
      /\ frozen' \in {frozen, frozen \ {s}}
      /\ previews' \subseteq previews
  BY <1>1, CaughtMoves
<1>3. Touches(s)
  BY <1>1, <1>2 DEF Touches, TransfersTypeOK
<1>4. \/ SealAndRelease(s) /\ state[s] \in Undispatched
      \/ UNCHANGED <<state, frozen>>
  BY <1>1 DEF Caught, Undispatched
<1> QED
  BY <1>1, <1>2, <1>3, <1>4, GivesUp DEF Undispatched

LEMMA BuildFailsKeeps ==
  ASSUME NEW c \in Calls, NEW s \in Subs, Handles(c, s), s \in Plans, BuildFails(c),
         UNCHANGED <<raw, inputs, pool, previews, record, taken, tries>>
  PROVE  TransfersInv'
<1>1. TransfersInv /\ TransfersTypeOK /\ Shaped(call[c]) /\ Known(s) /\ call[c].sub = s
  BY HandlesFacts DEF Handles
<1>2. /\ Moves(c) /\ call'[c] = NoCall
      /\ state' \in [Subs -> States] /\ \A t \in Subs \ {s} : state'[t] = state[t]
      /\ frozen' \in {frozen, frozen \ {s}}
  BY <1>1, BuildFailsMoves
<1>3. Touches(s)
  BY <1>1, <1>2 DEF Touches, TransfersTypeOK
<1>4. \/ SealAndRelease(s) /\ state[s] \in Undispatched
      \/ UNCHANGED <<state, frozen>>
  BY <1>1 DEF BuildFails
<1> QED
  BY <1>1, <1>2, <1>3, <1>4, GivesUp, SubsNamed

(* The signer starts or returns: the intention is not dispatched yet.      *)
LEMMA SigningKeeps ==
  ASSUME NEW c \in Calls, NEW s \in Subs, Handles(c, s), Touches(s), Moves(c),
         UNCHANGED <<frozen, taken, tries>>,
         state[s] \in {"prepared", "signing"}, state'[s] \in {"signing", "signed"},
         call[c].pc # "resolving" \/ state[s] = "prepared",
         call'[c].sub = s, call'[c].op = call[c].op, call[c].pc \in {"resolving", "signing"},
         call'[c].pc \in {"signing", "audit", "record"}
  PROVE  TransfersInv'
<1>1. /\ TransfersInv /\ Known(s) /\ call[c].sub = s /\ tries[s] \in Nat
      /\ frozen' = frozen /\ taken' = taken /\ tries' = tries
      /\ \A d \in Calls \ {c} : call'[d] = call[d]
  BY HandlesFacts DEF Handles, Moves
<1>2. StateKnown(s)' /\ FreedKnown(s)'
  BY <1>1 DEF Known, StateKnown, FreedKnown
<1>3. CallKnown(c, s)' /\ OnceKnown(c, s)'
  BY <1>1 DEF CallKnown, OnceKnown, Posted, Known, StateKnown
<1>4. ASSUME NEW d \in Calls \ {c}, call[d].sub = s, tries'[s] <= 1
      PROVE  OnceKnown(d, s)'
  BY <1>1, <1>4 DEF Known, OnceKnown
<1> QED
  BY <1>1, <1>2, <1>3, <1>4, HandlerKeeps DEF Posted

LEMMA BeginSigningKeeps ==
  ASSUME NEW c \in Calls, NEW s \in Subs, Handles(c, s), BeginSigning(c)
  PROVE  TransfersInv'
<1>1. /\ TransfersTypeOK /\ Shaped(call[c]) /\ call[c].sub = s
      /\ call[c].op = "submit" /\ call[c].pc = "resolving" /\ s \in Transfers
  BY HandlesFacts DEF BeginSigning, At
<1>2. CASE s \in previews /\ state[s] = "prepared"
  <2>1. /\ state' = [state EXCEPT ![s] = "signing"] /\ Goto(c, "signing", "none")
        /\ previews' = previews \ {s} /\ UNCHANGED <<raw, inputs, frozen, pool, record, taken, tries>>
    BY <1>1, <1>2 DEF BeginSigning
  <2>2. Moves(c) /\ call'[c].pc = "signing" /\ call'[c].sub = s /\ call'[c].op = call[c].op
    BY <1>1, <2>1, GotoMoves DEF Answers
  <2>3. Touches(s) /\ state'[s] = "signing"
    BY <1>1, <2>1 DEF Touches, TransfersTypeOK, States
  <2> QED
    BY <1>1, <1>2, <2>1, <2>2, <2>3, SigningKeeps
<1>3. CASE ~(s \in previews /\ state[s] = "prepared")
  <2>1. Caught(c, FALSE) /\ UNCHANGED <<raw, inputs, pool, record, taken, tries>>
    BY <1>1, <1>3 DEF BeginSigning
  <2> QED
    BY <1>1, <2>1, CaughtKeeps
<1> QED
  BY <1>2, <1>3

LEMMA TransferSignedKeeps ==
  ASSUME NEW c \in Calls, NEW s \in Subs, Handles(c, s), TransferSigned(c)
  PROVE  TransfersInv'
<1>1. /\ TransfersTypeOK /\ Shaped(call[c]) /\ call[c].sub = s
      /\ call[c].op = "submit" /\ call[c].pc = "signing" /\ s \in Transfers
  BY HandlesFacts DEF TransferSigned, At
<1>2. CASE state[s] = "signing"
  <2>1. /\ state' = [state EXCEPT ![s] = "signed"] /\ Goto(c, "audit", "none")
        /\ raw' = raw \union {s} /\ UNCHANGED <<inputs, frozen, pool, previews, record, taken, tries>>
    BY <1>1, <1>2 DEF TransferSigned
  <2>2. Moves(c) /\ call'[c].pc = "audit" /\ call'[c].sub = s /\ call'[c].op = call[c].op
    BY <1>1, <2>1, GotoMoves DEF Answers
  <2>3. Touches(s) /\ state'[s] = "signed"
    BY <1>1, <2>1 DEF Touches, TransfersTypeOK, States
  <2> QED
    BY <1>1, <1>2, <2>1, <2>2, <2>3, SigningKeeps
<1>3. CASE ~(state[s] = "signing")
  <2>1. Caught(c, FALSE) /\ UNCHANGED <<raw, inputs, pool, record, taken, tries>>
    BY <1>1, <1>3 DEF TransferSigned
  <2> QED
    BY <1>1, <2>1, CaughtKeeps
<1> QED
  BY <1>2, <1>3

LEMMA PresignBeginKeeps ==
  ASSUME NEW c \in Calls, NEW s \in Subs, Handles(c, s), PresignBegin(c)
  PROVE  TransfersInv'
<1>1. /\ TransfersTypeOK /\ Shaped(call[c]) /\ call[c].sub = s
      /\ call[c].op = "presign" /\ call[c].pc = "resolving" /\ s \in Plans
  BY HandlesFacts DEF PresignBegin, At
<1>2. CASE state[s] = "prepared"
  <2>1. /\ state' = [state EXCEPT ![s] = "signing"] /\ Goto(c, "signing", "none")
        /\ UNCHANGED <<raw, inputs, frozen, pool, previews, record, taken, tries>>
    BY <1>1, <1>2 DEF PresignBegin
  <2>2. Moves(c) /\ call'[c].pc = "signing" /\ call'[c].sub = s /\ call'[c].op = call[c].op
    BY <1>1, <2>1, GotoMoves DEF Answers
  <2>3. Touches(s) /\ state'[s] = "signing"
    BY <1>1, <2>1 DEF Touches, TransfersTypeOK, States
  <2> QED
    BY <1>1, <1>2, <2>1, <2>2, <2>3, SigningKeeps
<1>3. CASE ~(state[s] = "prepared")
  <2>1. BuildFails(c) /\ UNCHANGED <<raw, inputs, pool, previews, record, taken, tries>>
    BY <1>1, <1>3 DEF PresignBegin
  <2> QED
    BY <1>1, <2>1, BuildFailsKeeps
<1> QED
  BY <1>2, <1>3

LEMMA PresignSignedKeeps ==
  ASSUME NEW c \in Calls, NEW s \in Subs, Handles(c, s), PresignSigned(c)
  PROVE  TransfersInv'
<1>1. /\ TransfersTypeOK /\ Shaped(call[c]) /\ call[c].sub = s
      /\ call[c].op = "presign" /\ call[c].pc = "signing" /\ s \in Plans
  BY HandlesFacts DEF PresignSigned, At
<1>2. CASE state[s] = "signing"
  <2>1. /\ state' = [state EXCEPT ![s] = "signed"] /\ Goto(c, "record", "none")
        /\ raw' = raw \union {s} /\ UNCHANGED <<inputs, frozen, pool, previews, record, taken, tries>>
    BY <1>1, <1>2 DEF PresignSigned
  <2>2. Moves(c) /\ call'[c].pc = "record" /\ call'[c].sub = s /\ call'[c].op = call[c].op
    BY <1>1, <2>1, GotoMoves DEF Answers
  <2>3. Touches(s) /\ state'[s] = "signed"
    BY <1>1, <2>1 DEF Touches, TransfersTypeOK, States
  <2> QED
    BY <1>1, <1>2, <2>1, <2>2, <2>3, SigningKeeps
<1>3. CASE ~(state[s] = "signing")
  <2>1. BuildFails(c) /\ UNCHANGED <<raw, inputs, pool, previews, record, taken, tries>>
    BY <1>1, <1>3 DEF PresignSigned
  <2> QED
    BY <1>1, <2>1, BuildFailsKeeps
<1> QED
  BY <1>2, <1>3

(* Steps that only move the handler, or write its record. *)
LEMMA WaitsKeeps ==
  ASSUME NEW c \in Calls, NEW s \in Subs, Handles(c, s), Touches(s), Moves(c),
         UNCHANGED <<state, frozen, taken, tries>>,
         \/ call'[c] = NoCall /\ call[c].pc \notin {"reject", "answered"}
         \/ /\ call'[c].sub = s /\ call'[c].op = call[c].op
            /\ call[c].pc \notin Posted \union {"resolving", "answered"}
            /\ \/ call'[c].pc = "lease" /\ call[c].pc = "audit"
               \/ call'[c].pc = "seal"
               \/ call'[c].pc = "answered" /\ call'[c].res = "unknown"
               \/ call'[c].pc = "answered" /\ call'[c].res = "accepted" /\ state[s] = "accepted"
  PROVE  TransfersInv'
<1>1. /\ TransfersInv /\ Known(s) /\ call[c].sub = s /\ tries[s] \in Nat
      /\ frozen' = frozen /\ taken' = taken /\ tries' = tries /\ state' = state
      /\ \A d \in Calls \ {c} : call'[d] = call[d]
      /\ CallKnown(c, s)
  BY HandlesFacts DEF Handles, Moves
<1>2. StateKnown(s)' /\ FreedKnown(s)'
  BY <1>1 DEF Known, StateKnown, FreedKnown, Posted
<1>3. NoCall.sub # s
  BY SubsNamed DEF NoCall
<1>4. ASSUME call'[c].sub = s
      PROVE  CallKnown(c, s)' /\ OnceKnown(c, s)'
  <2>1. /\ call'[c].op = call[c].op /\ call[c].pc # "resolving"
        /\ \/ call'[c].pc = "lease" /\ call[c].pc = "audit"
           \/ call'[c].pc = "seal"
           \/ call'[c].pc = "answered" /\ call'[c].res = "unknown"
           \/ call'[c].pc = "answered" /\ call'[c].res = "accepted" /\ state[s] = "accepted"
    BY <1>3, <1>4
  <2>2. state[s] = "accepted" => s \in taken
    BY <1>1 DEF Known, StateKnown
  <2>3. CallKnown(c, s)'
    BY <1>1, <2>1, <2>2 DEF CallKnown, Posted, NotSent
  <2>4. OnceKnown(c, s)'
    BY <2>1 DEF OnceKnown, Posted, NotSent
  <2> QED
    BY <2>3, <2>4
<1>5. ASSUME NEW d \in Calls \ {c}, call[d].sub = s, tries'[s] <= 1
      PROVE  OnceKnown(d, s)'
  BY <1>1, <1>5 DEF Known, OnceKnown
<1>6. state[s] # "none"
  BY <1>1 DEF CallKnown
<1> QED
  BY <1>1, <1>2, <1>3, <1>4, <1>5, <1>6, HandlerKeeps DEF Posted

LEMMA TransferAuditedKeeps ==
  ASSUME NEW c \in Calls, NEW s \in Subs, Handles(c, s), TransferAudited(c)
  PROVE  TransfersInv'
<1>1. /\ TransfersTypeOK /\ Shaped(call[c]) /\ call[c].sub = s
      /\ call[c].op = "submit" /\ call[c].pc = "audit"
      /\ UNCHANGED <<state, raw, inputs, frozen, pool, previews, record, taken, tries>>
  BY HandlesFacts DEF TransferAudited, At
<1>2. Moves(c) /\ call'[c].op = "submit" /\ call'[c].pc = "lease" /\ call'[c].sub = s
  BY <1>1, GotoMoves DEF TransferAudited, Answers, Sending
<1>3. Touches(s)
  BY <1>1 DEF Touches, TransfersTypeOK
<1> QED
  BY <1>1, <1>2, <1>3, WaitsKeeps DEF Posted

LEMMA SubmitFailsKeeps ==
  ASSUME NEW c \in Calls, NEW s \in Subs, Handles(c, s), SubmitFails(c)
  PROVE  TransfersInv'
  BY CaughtKeeps DEF SubmitFails

LEMMA PresignRecordedKeeps ==
  ASSUME NEW c \in Calls, NEW s \in Subs, Handles(c, s), PresignRecorded(c)
  PROVE  TransfersInv'
<1>1. /\ TransfersTypeOK /\ Shaped(call[c]) /\ call[c].sub = s
      /\ call[c].op = "presign" /\ call[c].pc = "record" /\ Return(c)
      /\ record' = [record EXCEPT ![s] = "prepared"]
      /\ UNCHANGED <<state, raw, inputs, frozen, pool, previews, taken, tries>>
  BY HandlesFacts DEF PresignRecorded, At
<1>2. Moves(c) /\ call'[c] = NoCall
  BY <1>1, ReturnFacts DEF Moves, Shaped, TransfersTypeOK
<1>3. Touches(s)
  BY <1>1 DEF Touches, TransfersTypeOK, Records
<1> QED
  BY <1>1, <1>2, <1>3, WaitsKeeps

LEMMA PresignFailsKeeps ==
  ASSUME NEW c \in Calls, NEW s \in Subs, Handles(c, s), PresignFails(c)
  PROVE  TransfersInv'
  BY HandlesFacts, BuildFailsKeeps DEF PresignFails

LEMMA ReleaseReadsKeeps ==
  ASSUME NEW c \in Calls, NEW s \in Subs, Handles(c, s), ReleaseReads(c)
  PROVE  TransfersInv'
<1>1. /\ TransfersTypeOK /\ Shaped(call[c]) /\ call[c].sub = s
      /\ call[c].op = "release" /\ call[c].pc = "read"
      /\ UNCHANGED <<state, raw, inputs, frozen, pool, previews, record, taken, tries>>
      /\ record[s] \in Answers
  BY HandlesFacts DEF ReleaseReads, At, TransfersTypeOK, Answers
<1>2. Moves(c)
      /\ (call'[c] = NoCall \/ (call'[c].op = "release" /\ call'[c].pc = "seal" /\ call'[c].sub = s))
  <2>1. CASE Goto(c, "seal", record[s])
    BY <1>1, <2>1, GotoMoves
  <2>2. CASE Return(c)
    BY <1>1, <2>2, ReturnFacts DEF Moves, Shaped, TransfersTypeOK
  <2> QED
    BY <1>1, <2>1, <2>2 DEF ReleaseReads
<1>3. Touches(s)
  BY <1>1 DEF Touches, TransfersTypeOK
<1> QED
  BY <1>1, <1>2, <1>3, WaitsKeeps DEF Posted

LEMMA LeaseRefusedKeeps ==
  ASSUME NEW c \in Calls, NEW s \in Subs, Handles(c, s), LeaseRefused(c)
  PROVE  TransfersInv'
<1>1. /\ TransfersTypeOK /\ Shaped(call[c]) /\ call[c].sub = s
      /\ call[c].op \in {"submit", "exact"} /\ call[c].pc = "lease"
      /\ UNCHANGED <<state, raw, inputs, frozen, pool, previews, record, taken, tries>>
  BY HandlesFacts DEF LeaseRefused, Broadcasting
<1>2. Moves(c) /\ call'[c].pc = "answered" /\ call'[c].sub = s /\ call'[c].res = "unknown"
      /\ call'[c].op = call[c].op
  BY <1>1, GotoMoves DEF LeaseRefused, Answers, Sending
<1>3. Touches(s)
  BY <1>1 DEF Touches, TransfersTypeOK
<1> QED
  BY <1>1, <1>2, <1>3, WaitsKeeps DEF Posted

LEMMA BroadcastFailsKeeps ==
  ASSUME NEW c \in Calls, NEW s \in Subs, Handles(c, s), BroadcastFails(c),
         call[c].op \in {"submit", "exact"}, call[c].pc \in {"lease", "dispatch", "result", "reject"},
         UNCHANGED <<raw, inputs, frozen, pool, previews, record, taken, tries>>,
         call[c].pc = "result" => tries[s] > 1
  PROVE  TransfersInv'
<1>1. /\ TransfersInv /\ TransfersTypeOK /\ Shaped(call[c]) /\ Known(s) /\ call[c].sub = s
      /\ CallKnown(c, s) /\ (tries[s] <= 1 => OnceKnown(c, s))
      /\ tries[s] \in Nat /\ state[s] \in States
      /\ frozen' = frozen /\ taken' = taken /\ tries' = tries
  BY HandlesFacts DEF Handles
<1>2. /\ Moves(c) /\ call'[c].pc = "answered" /\ call'[c].sub = s /\ call'[c].res = "error"
      /\ call'[c].op = call[c].op
  BY <1>1, GotoMoves DEF BroadcastFails, Answers, Sending
<1>3. /\ Touches(s)
      /\ state'[s] = IF state[s] = "dispatching" THEN "unknown" ELSE state[s]
  BY <1>1 DEF BroadcastFails, Touches, TransfersTypeOK, States
<1>4. StateKnown(s)'
  BY <1>1, <1>3 DEF Known, StateKnown
<1>5. FreedKnown(s)'
  BY <1>1, <1>2, <1>3 DEF Known, FreedKnown, Moves
<1>6. CallKnown(c, s)'
  BY <1>1, <1>2, <1>3 DEF CallKnown, Posted
<1>7. tries[s] <= 1 /\ call[c].op = "submit" => s \notin taken
  <2>1. call[c].op = "submit" /\ call[c].pc = "lease" => s \notin taken
    BY <1>1 DEF CallKnown, Known, StateKnown
  <2>2. tries[s] <= 1 /\ call[c].pc \in {"dispatch", "reject"} => s \notin taken
    BY <1>1 DEF OnceKnown
  <2> QED
    BY <1>1, <2>1, <2>2
<1>8. tries'[s] <= 1 => OnceKnown(c, s)'
  BY <1>1, <1>2, <1>3, <1>7 DEF OnceKnown
<1>9. ASSUME NEW d \in Calls \ {c}, call[d].sub = s, tries'[s] <= 1
      PROVE  OnceKnown(d, s)'
  <2>1. OnceKnown(d, s) /\ call'[d] = call[d]
    BY <1>1, <1>2, <1>9 DEF Known, Moves
  <2> QED
    BY <1>1, <1>3, <2>1 DEF OnceKnown
<1>10. state[s] # "none"
  BY <1>1 DEF CallKnown
<1> QED
  BY <1>1, <1>2, <1>3, <1>4, <1>5, <1>6, <1>8, <1>9, <1>10, HandlerKeeps DEF Posted

LEMMA BeginDispatchKeeps ==
  ASSUME NEW c \in Calls, NEW s \in Subs, Handles(c, s), BeginDispatch(c)
  PROVE  TransfersInv'
<1>1. /\ TransfersInv /\ TransfersTypeOK /\ Shaped(call[c]) /\ Known(s) /\ call[c].sub = s
      /\ CallKnown(c, s) /\ (tries[s] <= 1 => OnceKnown(c, s))
      /\ tries[s] \in Nat /\ state[s] \in States
      /\ call[c].op \in {"submit", "exact"} /\ call[c].pc = "lease"
      /\ UNCHANGED <<raw, inputs, frozen, pool, previews, record, taken>>
  BY HandlesFacts DEF Handles, BeginDispatch, Broadcasting
<1>2. CASE state[s] = "accepted" /\ Goto(c, "answered", "accepted") /\ UNCHANGED <<state, tries>>
  <2>1. Moves(c) /\ call'[c].pc = "answered" /\ call'[c].sub = s /\ call'[c].res = "accepted"
        /\ call'[c].op = call[c].op
    BY <1>1, <1>2, GotoMoves DEF Answers, Sending
  <2>2. Touches(s)
    BY <1>1, <1>2 DEF Touches, TransfersTypeOK
  <2> QED
    BY <1>1, <1>2, <2>1, <2>2, WaitsKeeps DEF Posted
<1>3. CASE /\ MayDispatch(s) /\ state' = [state EXCEPT ![s] = "dispatching"]
           /\ tries' = [tries EXCEPT ![s] = @ + 1] /\ Goto(c, "dispatch", "none")
  <2>1. Moves(c) /\ call'[c].pc = "dispatch" /\ call'[c].sub = s /\ call'[c].res = "none"
        /\ call'[c].op = call[c].op
    BY <1>1, <1>3, GotoMoves DEF Answers, Sending, Posted
  <2>2. Touches(s) /\ state'[s] = "dispatching" /\ tries'[s] = tries[s] + 1
        /\ frozen' = frozen /\ taken' = taken
    BY <1>1, <1>3 DEF Touches, TransfersTypeOK, States
  <2>3. state[s] \in {"signed", "unknown"}
    BY <1>3 DEF MayDispatch
  <2>4. StateKnown(s)' /\ FreedKnown(s)'
    BY <1>1, <2>2, <2>3 DEF Known, StateKnown, FreedKnown
  <2>5. CallKnown(c, s)'
    BY <1>1, <2>1, <2>2 DEF CallKnown
  <2>6. tries'[s] <= 1 => s \in frozen /\ s \notin taken /\ tries[s] = 0
    BY <1>1, <2>2, <2>3 DEF Known, StateKnown
  <2>7. tries'[s] <= 1 => OnceKnown(c, s)'
    BY <2>1, <2>2, <2>6 DEF OnceKnown
  <2>8. ASSUME NEW d \in Calls \ {c}, call[d].sub = s, tries'[s] <= 1
        PROVE  OnceKnown(d, s)'
    <3>1. OnceKnown(d, s) /\ CallKnown(d, s) /\ call'[d] = call[d]
      BY <1>1, <2>1, <2>6, <2>8 DEF Known, Moves
    <3> QED
      BY <1>1, <2>2, <2>3, <2>6, <2>8, <3>1 DEF OnceKnown, CallKnown, Posted
  <2> QED
    BY <1>1, <2>1, <2>2, <2>4, <2>5, <2>7, <2>8, HandlerKeeps DEF Posted
<1>4. CASE state[s] # "accepted" /\ ~MayDispatch(s) /\ BroadcastFails(c) /\ UNCHANGED tries
  BY <1>1, <1>4, BroadcastFailsKeeps
<1> QED
  BY <1>1, <1>2, <1>3, <1>4 DEF BeginDispatch

(* A posted submission goes on: nothing but the handler's place and what   *)
(* the network and the record know of it changes.                          *)
LEMMA PostedKeeps ==
  ASSUME NEW c \in Calls, NEW s \in Subs, Handles(c, s), Touches(s), Moves(c),
         UNCHANGED <<state, frozen, tries>>, call[c].op \in {"submit", "exact"},
         call'[c].sub = s, call'[c].op = call[c].op,
         \/ /\ call[c].pc = "dispatch" /\ taken' = taken
            /\ call'[c].pc = "result" /\ call'[c].res = "not-dispatched"
         \/ /\ call[c].pc = "dispatch" /\ call'[c].pc = "provider"
            /\ (taken' = taken /\ call'[c].res = "lost") \/ (s \in taken' /\ call'[c].res = "taken")
         \/ /\ call[c].pc = "provider" /\ taken' = taken /\ call'[c].pc = "result"
            /\ \/ s \in taken /\ call'[c].res = "accepted"
               \/ call[c].res = "lost" /\ call'[c].res = "rejected"
               \/ call'[c].res = "unknown"
  PROVE  TransfersInv'
<1>1. /\ TransfersInv /\ TransfersTypeOK /\ Shaped(call[c]) /\ Known(s) /\ call[c].sub = s
      /\ CallKnown(c, s) /\ (tries[s] <= 1 => OnceKnown(c, s))
      /\ tries[s] \in Nat /\ state[s] \in States
      /\ frozen' = frozen /\ tries' = tries /\ state' = state
      /\ taken' \in {taken, taken \union {s}}
      /\ taken' # taken => call[c].pc = "dispatch"
      /\ \A d \in Calls \ {c} : call'[d] = call[d]
      /\ tries[s] > 0
  BY HandlesFacts DEF Handles, Touches, Moves, CallKnown, Posted
<1>2. StateKnown(s)' /\ FreedKnown(s)'
  BY <1>1 DEF Known, StateKnown, FreedKnown, OnceKnown
<1>3. CallKnown(c, s)'
  BY <1>1 DEF CallKnown, Posted
<1>4. tries'[s] <= 1 => OnceKnown(c, s)'
  BY <1>1 DEF OnceKnown, NotSent
<1>5. ASSUME NEW d \in Calls \ {c}, call[d].sub = s, tries'[s] <= 1
      PROVE  OnceKnown(d, s)'
  <2>1. /\ OnceKnown(d, s) /\ call'[d] = call[d] /\ Alone(c, d, s) /\ Shaped(call[d])
        /\ OnceKnown(c, s)
    BY <1>1, <1>5 DEF Known, TransfersInv
  <2>2. call[c].pc \in Posted /\ call[c].pc # "resolving"
    BY DEF Posted
  <2>3. call[d].pc \notin Posted
    BY <1>1, <1>5, <2>1, <2>2 DEF Alone
  <2>4. call[d].op = "submit" => call[d].pc = "resolving"
    BY <1>5, <2>1, <2>2, SubsNamed DEF Alone, Shaped, NoCall
  <2>5. call[d].pc = "put" => state[s] \in {"rejected", "cancelled"}
    BY <2>1 DEF OnceKnown
  <2> QED
    BY <1>1, <2>1, <2>3, <2>4, <2>5 DEF OnceKnown, Posted
<1>6. state[s] # "none"
  BY <1>1 DEF CallKnown
<1> QED
  BY <1>1, <1>2, <1>3, <1>4, <1>5, <1>6, HandlerKeeps DEF Posted

LEMMA DispatchFailsKeeps ==
  ASSUME NEW c \in Calls, NEW s \in Subs, Handles(c, s), DispatchFails(c)
  PROVE  TransfersInv'
<1>1. /\ TransfersTypeOK /\ Shaped(call[c]) /\ call[c].sub = s
      /\ call[c].op \in {"submit", "exact"} /\ call[c].pc = "dispatch"
      /\ UNCHANGED <<raw, inputs, frozen, pool, previews, record, taken, tries>>
  BY HandlesFacts DEF DispatchFails, Broadcasting
<1>2. CASE BroadcastFails(c)
  BY <1>1, <1>2, BroadcastFailsKeeps
<1>3. CASE Goto(c, "result", "not-dispatched") /\ UNCHANGED state
  <2>1. /\ Moves(c) /\ call'[c].pc = "result" /\ call'[c].sub = s
        /\ call'[c].res = "not-dispatched" /\ call'[c].op = call[c].op
    BY <1>1, <1>3, GotoMoves DEF Answers, Sending, Posted
  <2>2. Touches(s)
    BY <1>1, <1>3 DEF Touches, TransfersTypeOK
  <2> QED
    BY <1>1, <1>3, <2>1, <2>2, PostedKeeps
<1> QED
  BY <1>2, <1>3 DEF DispatchFails

LEMMA ProvideKeeps ==
  ASSUME NEW c \in Calls, NEW s \in Subs, Handles(c, s), Provide(c)
  PROVE  TransfersInv'
<1>1. /\ TransfersTypeOK /\ Shaped(call[c]) /\ call[c].sub = s
      /\ call[c].op \in {"submit", "exact"} /\ call[c].pc = "dispatch"
      /\ UNCHANGED <<state, raw, inputs, frozen, pool, previews, tries>>
      /\ record' = IF record[s] = "none" THEN record ELSE [record EXCEPT ![s] = "unknown"]
      /\ \/ taken' = taken \union {s} /\ Goto(c, "provider", "taken")
         \/ taken' = taken /\ Goto(c, "provider", "lost")
  BY HandlesFacts DEF Provide, Broadcasting
<1>2. Touches(s)
  BY <1>1 DEF Touches, TransfersTypeOK, Records
<1>3. /\ Moves(c) /\ call'[c].pc = "provider" /\ call'[c].sub = s /\ call'[c].op = call[c].op
      /\ (taken' = taken /\ call'[c].res = "lost") \/ (s \in taken' /\ call'[c].res = "taken")
  BY <1>1, GotoMoves DEF Answers, Sending, Posted
<1> QED
  BY <1>1, <1>2, <1>3, PostedKeeps

LEMMA ProviderAnswersKeeps ==
  ASSUME NEW c \in Calls, NEW s \in Subs, Handles(c, s), ProviderAnswers(c)
  PROVE  TransfersInv'
<1>1. /\ TransfersTypeOK /\ Shaped(call[c]) /\ call[c].sub = s
      /\ call[c].op \in {"submit", "exact"} /\ call[c].pc = "provider"
      /\ UNCHANGED <<state, raw, inputs, frozen, pool, previews, record, taken, tries>>
      /\ \/ s \in taken /\ Goto(c, "result", "accepted")
         \/ call[c].res = "lost" /\ Goto(c, "result", "rejected")
         \/ Goto(c, "result", "unknown")
  BY HandlesFacts DEF ProviderAnswers, Broadcasting
<1>2. Touches(s)
  BY <1>1 DEF Touches, TransfersTypeOK
<1>3. /\ Moves(c) /\ call'[c].pc = "result" /\ call'[c].sub = s /\ call'[c].op = call[c].op
      /\ \/ s \in taken /\ call'[c].res = "accepted"
         \/ call[c].res = "lost" /\ call'[c].res = "rejected"
         \/ call'[c].res = "unknown"
  BY <1>1, GotoMoves DEF Answers, Sending, Posted
<1> QED
  BY <1>1, <1>2, <1>3, PostedKeeps

(* Besides a handler that posted the transaction for the only time, others *)
(* of the submission wait for its owner or for the record.                 *)
LEMMA PostedAlone ==
  ASSUME NEW c \in Calls, NEW s \in Subs, Handles(c, s), call[c].pc \in Posted, tries[s] <= 1,
         NEW d \in Calls \ {c}, call[d].sub = s
  PROVE  /\ OnceKnown(d, s) /\ call[d].pc \notin Posted
         /\ call[d].op = "submit" => call[d].pc = "resolving"
         /\ call[c].pc # "reject" => call[d].pc # "put"
<1>1. /\ OnceKnown(d, s) /\ Alone(c, d, s) /\ Shaped(call[d]) /\ OnceKnown(c, s)
  BY HandlesFacts DEF Handles, TransfersInv, Known
<1>2. call[d].pc \notin Posted
  BY <1>1 DEF Alone
<1>3. call[d].op = "submit" => call[d].pc = "resolving"
  BY <1>1, SubsNamed DEF Alone, Shaped, NoCall, Posted
<1>4. call[c].pc # "reject" => call[d].pc # "put"
  BY <1>1 DEF OnceKnown, Posted
<1> QED
  BY <1>1, <1>2, <1>3, <1>4

(* The outcome of a broadcast is recorded. *)
LEMMA ResultKeeps ==
  ASSUME NEW c \in Calls, NEW s \in Subs, Handles(c, s), Touches(s), Moves(c),
         UNCHANGED <<taken, tries>>, call[c].pc \in {"result", "reject"},
         call'[c].sub = s, call'[c].op = call[c].op, call'[c].pc \in {"reject", "answered"},
         state'[s] \notin {"none", "prepared"}, call[c].pc = "reject" => state'[s] = state[s],
         StateKnown(s)', FreedKnown(s)', CallKnown(c, s)', tries[s] <= 1 => OnceKnown(c, s)'
  PROVE  TransfersInv'
<1>1. /\ TransfersInv /\ call[c].sub = s /\ taken' = taken /\ tries' = tries
      /\ \A d \in Calls \ {c} : call'[d] = call[d]
      /\ call[c].pc \in Posted /\ call[c].pc # "resolving"
  BY DEF Handles, Moves, Posted
<1>2. ASSUME NEW d \in Calls \ {c}, call[d].sub = s, tries'[s] <= 1
      PROVE  OnceKnown(d, s)'
  <2>1. /\ OnceKnown(d, s) /\ call[d].pc \notin Posted
        /\ call[d].op = "submit" => call[d].pc = "resolving"
        /\ call[c].pc # "reject" => call[d].pc # "put"
    BY <1>1, <1>2, PostedAlone
  <2> QED
    BY <1>1, <2>1 DEF OnceKnown, Posted
<1> QED
  BY <1>1, <1>2, HandlerKeeps

LEMMA InjectedPool ==
  ASSUME TransfersTypeOK, NEW s \in Subs
  PROVE  Injected(s) \subseteq Coins \union Subs
  BY DEF Injected, TransfersTypeOK

LEMMA RecordedAs ==
  ASSUME TransfersTypeOK, NEW s \in Subs, NEW status \in Records
  PROVE  RecordAs(s, status) \in [Subs -> Records]
  BY DEF RecordAs, TransfersTypeOK

LEMMA BroadcastAcceptedKeeps ==
  ASSUME NEW c \in Calls, NEW s \in Subs, Handles(c, s), BroadcastAccepted(c)
  PROVE  TransfersInv'
<1>1. /\ TransfersTypeOK /\ Shaped(call[c]) /\ Known(s) /\ call[c].sub = s
      /\ CallKnown(c, s) /\ (tries[s] <= 1 => OnceKnown(c, s)) /\ tries[s] \in Nat
      /\ call[c].op \in {"submit", "exact"} /\ call[c].pc = "result" /\ call[c].res = "accepted"
      /\ UNCHANGED <<raw, inputs, frozen, previews, taken, tries>>
      /\ IF Refused(s, "accepted")
         THEN BroadcastFails(c) /\ UNCHANGED <<pool, record>>
         ELSE /\ state' = [state EXCEPT ![s] = "accepted"]
              /\ pool' = Injected(s)
              /\ record' = RecordAs(s, "pending")
              /\ Goto(c, "answered", "accepted")
  BY HandlesFacts DEF BroadcastAccepted, Broadcasting
<1>2. CASE Refused(s, "accepted")
  <2>1. tries[s] > 1
    BY <1>1, <1>2 DEF OnceKnown, Refused, Ignored
  <2> QED
    BY <1>1, <1>2, <2>1, BroadcastFailsKeeps
<1>3. CASE ~Refused(s, "accepted")
  <2>1. /\ Moves(c) /\ call'[c].pc = "answered" /\ call'[c].sub = s
        /\ call'[c].res = "accepted" /\ call'[c].op = call[c].op
    BY <1>1, <1>3, GotoMoves DEF Answers, Sending
  <2>2. Touches(s) /\ state'[s] = "accepted"
    <3>1. pool' \subseteq Coins \union Subs /\ record' \in [Subs -> Records]
      BY <1>1, <1>3, InjectedPool, RecordedAs DEF Records
    <3> QED
      BY <1>1, <1>3, <3>1 DEF Touches, TransfersTypeOK, States
  <2>3. s \in taken /\ tries[s] > 0
    BY <1>1 DEF CallKnown, Posted
  <2>4. StateKnown(s)' /\ FreedKnown(s)'
    BY <1>1, <2>2, <2>3 DEF Known, StateKnown, FreedKnown
  <2>5. CallKnown(c, s)' /\ OnceKnown(c, s)'
    BY <1>1, <2>1, <2>2, <2>3 DEF CallKnown, OnceKnown, NotSent, Posted
  <2> QED
    BY <1>1, <2>1, <2>2, <2>4, <2>5, ResultKeeps
<1> QED
  BY <1>2, <1>3

LEMMA BroadcastRejectedKeeps ==
  ASSUME NEW c \in Calls, NEW s \in Subs, Handles(c, s), BroadcastRejected(c)
  PROVE  TransfersInv'
<1>1. /\ TransfersTypeOK /\ Shaped(call[c]) /\ Known(s) /\ call[c].sub = s
      /\ CallKnown(c, s) /\ (tries[s] <= 1 => OnceKnown(c, s)) /\ tries[s] \in Nat
      /\ call[c].op \in {"submit", "exact"} /\ call[c].pc = "result" /\ call[c].res \in NotSent
      /\ UNCHANGED <<raw, inputs, frozen, pool, previews, record, taken, tries>>
      /\ IF Refused(s, "rejected")
         THEN BroadcastFails(c)
         ELSE state' = [state EXCEPT ![s] = Outcome(s, "rejected")] /\ Goto(c, "reject", call[c].res)
  BY HandlesFacts DEF BroadcastRejected, Broadcasting, NotSent
<1>2. tries[s] <= 1 => s \notin taken /\ s \in frozen /\ state[s] \in {"dispatching", "unknown"}
  BY <1>1 DEF OnceKnown, Known, StateKnown
<1>3. CASE Refused(s, "rejected")
  <2>1. tries[s] > 1
    BY <1>1, <1>2, <1>3 DEF Refused
  <2> QED
    BY <1>1, <1>3, <2>1, BroadcastFailsKeeps
<1>4. CASE ~Refused(s, "rejected")
  <2>1. /\ Moves(c) /\ call'[c].pc = "reject" /\ call'[c].sub = s
        /\ call'[c].res \in NotSent /\ call'[c].op = call[c].op
    BY <1>1, <1>4, GotoMoves DEF Answers, Sending, Posted, NotSent
  <2>2. /\ Outcome(s, "rejected") \in States /\ Outcome(s, "rejected") \in {"rejected", "accepted"}
        /\ Outcome(s, "rejected") = "accepted" => state[s] = "accepted"
    BY <1>1, <1>4 DEF Outcome, Ignored, Refused, States
  <2>3. /\ Touches(s) /\ state'[s] \in {"rejected", "accepted"}
        /\ state'[s] = "accepted" => state[s] = "accepted"
    BY <1>1, <1>4, <2>2 DEF Touches, TransfersTypeOK
  <2>4. tries[s] > 0
    BY <1>1 DEF CallKnown, Posted
  <2>5. StateKnown(s)'
    BY <1>1, <1>2, <2>3, <2>4 DEF Known, StateKnown
  <2>6. FreedKnown(s)'
    BY <2>1, <2>3 DEF FreedKnown
  <2>7. CallKnown(c, s)' /\ (tries[s] <= 1 => OnceKnown(c, s)')
    BY <1>1, <1>2, <2>1, <2>3, <2>4 DEF CallKnown, OnceKnown, NotSent, Posted
  <2> QED
    BY <1>1, <2>1, <2>3, <2>5, <2>6, <2>7, ResultKeeps
<1> QED
  BY <1>3, <1>4

LEMMA BroadcastUnknownKeeps ==
  ASSUME NEW c \in Calls, NEW s \in Subs, Handles(c, s), BroadcastUnknown(c)
  PROVE  TransfersInv'
<1>1. /\ TransfersTypeOK /\ Shaped(call[c]) /\ Known(s) /\ call[c].sub = s
      /\ CallKnown(c, s) /\ (tries[s] <= 1 => OnceKnown(c, s)) /\ tries[s] \in Nat
      /\ call[c].op \in {"submit", "exact"} /\ call[c].pc = "result" /\ call[c].res = "unknown"
      /\ UNCHANGED <<raw, inputs, frozen, pool, previews, record, taken, tries>>
      /\ IF Refused(s, "unknown")
         THEN BroadcastFails(c)
         ELSE state' = [state EXCEPT ![s] = Outcome(s, "unknown")] /\ Goto(c, "answered", "unknown")
  BY HandlesFacts DEF BroadcastUnknown, Broadcasting
<1>2. CASE Refused(s, "unknown")
  <2>1. tries[s] > 1
    BY <1>1, <1>2 DEF OnceKnown, Refused, Ignored
  <2> QED
    BY <1>1, <1>2, <2>1, BroadcastFailsKeeps
<1>3. CASE ~Refused(s, "unknown")
  <2>1. /\ Moves(c) /\ call'[c].pc = "answered" /\ call'[c].sub = s
        /\ call'[c].res = "unknown" /\ call'[c].op = call[c].op
    BY <1>1, <1>3, GotoMoves DEF Answers, Sending
  <2>2. /\ Outcome(s, "unknown") \in States
        /\ Outcome(s, "unknown") = "unknown" \/ (Outcome(s, "unknown") = state[s]
             /\ state[s] \in {"accepted", "rejected", "cancelled"})
    BY <1>1, <1>3 DEF Outcome, Ignored, Refused, States
  <2>3. /\ Touches(s)
        /\ state'[s] = "unknown" \/ (state'[s] = state[s]
             /\ state[s] \in {"accepted", "rejected", "cancelled"})
    BY <1>1, <1>3, <2>2 DEF Touches, TransfersTypeOK
  <2>4. tries[s] > 0 /\ (tries[s] <= 1 => s \in frozen /\ state[s] \in {"dispatching", "unknown", "accepted"})
    BY <1>1 DEF CallKnown, OnceKnown, Posted
  <2>5. StateKnown(s)'
    BY <1>1, <2>3, <2>4 DEF Known, StateKnown
  <2>6. FreedKnown(s)'
    BY <1>1, <2>1, <2>3 DEF Known, FreedKnown, Moves
  <2>7. CallKnown(c, s)' /\ OnceKnown(c, s)'
    BY <1>1, <2>1, <2>3, <2>4 DEF CallKnown, OnceKnown, NotSent, Posted
  <2> QED
    BY <1>1, <2>1, <2>3, <2>5, <2>6, <2>7, ResultKeeps
<1> QED
  BY <1>2, <1>3

LEMMA RejectionRecordedKeeps ==
  ASSUME NEW c \in Calls, NEW s \in Subs, Handles(c, s), RejectionRecorded(c)
  PROVE  TransfersInv'
<1>1. /\ TransfersTypeOK /\ Shaped(call[c]) /\ Known(s) /\ call[c].sub = s
      /\ CallKnown(c, s) /\ (tries[s] <= 1 => OnceKnown(c, s)) /\ tries[s] \in Nat
      /\ call[c].op \in {"submit", "exact"} /\ call[c].pc = "reject"
      /\ UNCHANGED <<raw, inputs, pool, previews, taken, tries>>
      /\ \/ /\ record' = RecordAs(s, "rejected") /\ frozen' = frozen \ {s}
            /\ Goto(c, "answered", call[c].res) /\ state' = state
         \/ BroadcastFails(c) /\ UNCHANGED <<record, frozen>>
  BY HandlesFacts DEF RejectionRecorded, Broadcasting
<1>2. CASE /\ record' = RecordAs(s, "rejected") /\ frozen' = frozen \ {s}
           /\ Goto(c, "answered", call[c].res) /\ state' = state
  <2>1. call[c].res \in NotSent /\ tries[s] > 0 /\ state[s] # "none"
    BY <1>1 DEF CallKnown, Posted
  <2>2. /\ Moves(c) /\ call'[c].pc = "answered" /\ call'[c].sub = s
        /\ call'[c].res \in NotSent /\ call'[c].op = call[c].op
    BY <1>1, <1>2, <2>1, GotoMoves DEF Answers, Sending, NotSent
  <2>3. record' \in [Subs -> Records]
    BY <1>1, <1>2, RecordedAs DEF Records
  <2>4. Touches(s) /\ state'[s] = state[s] /\ s \notin frozen' /\ state[s] # "prepared"
    BY <1>1, <1>2, <2>1, <2>3 DEF Touches, TransfersTypeOK, Known, StateKnown
  <2>5. tries[s] <= 1 => s \notin taken
    BY <1>1 DEF OnceKnown
  <2>6. StateKnown(s)' /\ FreedKnown(s)'
    BY <1>1, <2>1, <2>4, <2>5 DEF Known, StateKnown, FreedKnown
  <2>7. CallKnown(c, s)' /\ (tries[s] <= 1 => OnceKnown(c, s)')
    BY <1>1, <2>1, <2>2, <2>4, <2>5 DEF CallKnown, OnceKnown, NotSent, Posted
  <2> QED
    BY <1>1, <2>1, <2>2, <2>4, <2>6, <2>7, ResultKeeps
<1>3. CASE BroadcastFails(c) /\ UNCHANGED <<record, frozen>>
  BY <1>1, <1>3, BroadcastFailsKeeps
<1> QED
  BY <1>1, <1>2, <1>3

LEMMA SettleTransferKeeps ==
  ASSUME NEW c \in Calls, NEW s \in Subs, Handles(c, s), SettleTransfer(c)
  PROVE  TransfersInv'
<1> DEFINE o == CASE call[c].res \in {"rejected", "not-dispatched", "error"} -> "rejected"
                  [] call[c].res = "unknown" -> "unknown"
                  [] OTHER -> "accepted"
           next == IF state[s] \in {"accepted", "rejected"} THEN state[s] ELSE Outcome(s, o)
<1>1. /\ TransfersInv /\ TransfersTypeOK /\ Shaped(call[c]) /\ Known(s) /\ call[c].sub = s
      /\ CallKnown(c, s) /\ (tries[s] <= 1 => OnceKnown(c, s)) /\ tries[s] \in Nat
      /\ call[c].op = "submit" /\ call[c].pc = "answered" /\ s \in Transfers
      /\ UNCHANGED <<raw, inputs, pool, record, taken, tries>>
      /\ IF state[s] \notin {"accepted", "rejected"} /\ Refused(s, o)
         THEN Caught(c, TRUE)
         ELSE /\ state' = [state EXCEPT ![s] = next]
              /\ frozen' = IF next = "rejected" THEN frozen \ {s} ELSE frozen
              /\ Return(c)
              /\ UNCHANGED previews
  BY HandlesFacts DEF Handles, SettleTransfer, At
<1>2. CASE state[s] \notin {"accepted", "rejected"} /\ Refused(s, o)
  BY <1>1, <1>2, CaughtKeeps
<1>3. CASE ~(state[s] \notin {"accepted", "rejected"} /\ Refused(s, o))
  <2>1. Moves(c) /\ call'[c] = NoCall /\ (\A d \in Calls \ {c} : call'[d] = call[d]) /\ NoCall.sub # s
    BY <1>1, <1>3, ReturnFacts, SubsNamed DEF Moves, Shaped, TransfersTypeOK, NoCall
  <2>2. /\ next \in States
        /\ next = state[s] \/ (next = o /\ state[s] \in {"signed", "dispatching", "unknown"})
        /\ next \in {"accepted", "rejected", "cancelled", "unknown"}
        /\ next = "cancelled" => state[s] = "cancelled"
    BY <1>1, <1>3 DEF Outcome, Ignored, Refused, States
  <2>3. tries[s] <= 1 /\ o = "rejected" => s \notin taken
    BY <1>1 DEF OnceKnown, NotSent
  <2>4. o = "accepted" => s \in taken
    BY <1>1 DEF CallKnown, NotSent
  <2> HIDE DEF o, next
  <2>5. /\ Touches(s) /\ state'[s] = next /\ taken' = taken /\ tries' = tries
        /\ frozen' = IF next = "rejected" THEN frozen \ {s} ELSE frozen
    BY <1>1, <1>3, <2>2 DEF Touches, TransfersTypeOK
  <2>6. StateKnown(s)'
    <3>1. (s \in taken => tries[s] > 0) /\ StateKnown(s)
      BY <1>1 DEF Known, StateKnown
    <3>2. CASE next = "rejected"
      <4>1. tries[s] <= 1 => s \notin taken
        BY <1>1, <2>2, <2>3, <3>1, <3>2 DEF StateKnown
      <4> QED
        BY <1>1, <2>5, <3>1, <3>2, <4>1 DEF StateKnown
    <3>3. CASE next # "rejected"
      BY <1>1, <2>2, <2>4, <2>5, <3>1, <3>3 DEF StateKnown
    <3> QED
      BY <3>2, <3>3
  <2>7. FreedKnown(s)'
    BY <1>1, <2>2, <2>5 DEF Known, FreedKnown
  <2>8. ASSUME NEW d \in Calls \ {c}, call[d].sub = s, tries'[s] <= 1
        PROVE  OnceKnown(d, s)'
    <3>1. call[d].pc = "resolving"
      BY <1>1, <2>8, SubsNamed DEF TransfersInv, Known, Alone, Shaped, NoCall
    <3> QED
      BY <2>1, <3>1 DEF OnceKnown
  <2> QED
    BY <1>1, <2>1, <2>2, <2>5, <2>6, <2>7, <2>8, HandlerKeeps
<1> QED
  BY <1>2, <1>3

LEMMA SettleExactKeeps ==
  ASSUME NEW c \in Calls, NEW s \in Subs, Handles(c, s), SettleExact(c)
  PROVE  TransfersInv'
<1>1. /\ TransfersInv /\ TransfersTypeOK /\ Shaped(call[c]) /\ Known(s) /\ call[c].sub = s
      /\ CallKnown(c, s) /\ tries[s] \in Nat /\ s \notin Transfers /\ call[c].op = "exact"
      /\ UNCHANGED <<raw, inputs, frozen, pool, previews, record, taken, tries>>
      /\ state' = IF call[c].res \in {"unknown", "error"}
                  THEN [state EXCEPT ![s] = Outcome(s, "unknown")] ELSE state
      /\ Return(c)
  BY HandlesFacts DEF Handles, SettleExact, At
<1>2. Moves(c) /\ call'[c] = NoCall /\ (\A d \in Calls \ {c} : call'[d] = call[d]) /\ NoCall.sub # s
  BY <1>1, ReturnFacts, SubsNamed DEF Moves, Shaped, TransfersTypeOK, NoCall
<1>3. /\ Outcome(s, "unknown") \in States
      /\ \/ Outcome(s, "unknown") = state[s]
         \/ Outcome(s, "unknown") = "unknown" /\ state[s] \in {"signed", "dispatching"}
  BY <1>1 DEF Outcome, Ignored, Refused, States, TransfersTypeOK
<1>4. /\ Touches(s)
      /\ state'[s] = state[s] \/ (state'[s] = "unknown" /\ state[s] \in {"signed", "dispatching"})
  BY <1>1, <1>3 DEF Touches, TransfersTypeOK
<1>5. StateKnown(s)' /\ FreedKnown(s)'
  BY <1>1, <1>4 DEF Known, StateKnown, FreedKnown
<1>6. ASSUME NEW d \in Calls \ {c}, call[d].sub = s, tries'[s] <= 1
      PROVE  OnceKnown(d, s)'
  <2>1. OnceKnown(d, s) /\ call'[d] = call[d]
    BY <1>1, <1>2, <1>6 DEF Known
  <2> QED
    BY <1>1, <1>4, <2>1 DEF OnceKnown
<1>7. state[s] # "none"
  BY <1>1 DEF CallKnown
<1> QED
  BY <1>1, <1>2, <1>4, <1>5, <1>6, <1>7, HandlerKeeps

LEMMA ReleaseSealsKeeps ==
  ASSUME NEW c \in Calls, NEW s \in Subs, Handles(c, s), ReleaseSeals(c)
  PROVE  TransfersInv'
<1>1. /\ TransfersInv /\ TransfersTypeOK /\ Shaped(call[c]) /\ Known(s) /\ call[c].sub = s
      /\ CallKnown(c, s) /\ tries[s] \in Nat /\ s \notin Transfers
      /\ call[c].op = "release" /\ call[c].pc = "seal"
      /\ UNCHANGED <<raw, inputs, pool, previews, record, taken, tries>>
      /\ \/ /\ state[s] \in Undispatched /\ state' = [state EXCEPT ![s] = Sealed(s)]
            /\ Goto(c, "put", "none") /\ UNCHANGED frozen
         \/ state[s] \in Undispatched /\ Return(c) /\ SealAndRelease(s)
         \/ Return(c) /\ UNCHANGED <<state, frozen>>
  BY HandlesFacts DEF Handles, ReleaseSeals, At, SealAndRelease
<1>2. ASSUME Return(c)
      PROVE  Moves(c) /\ call'[c] = NoCall
  BY <1>1, <1>2, ReturnFacts DEF Moves, Shaped, TransfersTypeOK
<1>3. CASE /\ state[s] \in Undispatched /\ state' = [state EXCEPT ![s] = Sealed(s)]
           /\ Goto(c, "put", "none") /\ UNCHANGED frozen
  <2>1. /\ Moves(c) /\ call'[c].pc = "put" /\ call'[c].sub = s /\ call'[c].op = "release"
        /\ \A d \in Calls \ {c} : call'[d] = call[d]
    BY <1>1, <1>3, GotoMoves DEF Answers, Moves
  <2>2. Sealed(s) \in {"rejected", "cancelled"} /\ (state[s] = "rejected" => Sealed(s) = "rejected")
    BY <1>1, SealedFacts DEF TransfersTypeOK
  <2>3. /\ Touches(s) /\ state'[s] \in {"rejected", "cancelled"}
        /\ state[s] = "rejected" => state'[s] = "rejected"
    BY <1>1, <1>3, <2>2 DEF Touches, TransfersTypeOK, States
  <2>4. StateKnown(s)' /\ FreedKnown(s)'
    BY <1>1, <1>3, <2>3 DEF Known, StateKnown, FreedKnown, Undispatched
  <2>5. CallKnown(c, s)' /\ OnceKnown(c, s)'
    BY <2>1, <2>3 DEF CallKnown, OnceKnown, Posted
  <2>6. ASSUME NEW d \in Calls \ {c}, call[d].sub = s, tries'[s] <= 1
        PROVE  OnceKnown(d, s)'
    <3>1. OnceKnown(d, s) /\ call'[d] = call[d]
      BY <1>1, <2>1, <2>6 DEF Known
    <3> QED
      BY <1>1, <1>3, <2>3, <3>1 DEF OnceKnown, Undispatched
  <2> QED
    BY <1>1, <2>1, <2>3, <2>4, <2>5, <2>6, HandlerKeeps DEF Posted
<1>4. CASE state[s] \in Undispatched /\ Return(c) /\ SealAndRelease(s)
  <2>1. Touches(s)
    BY <1>1, <1>4, SealTouches DEF Touches, TransfersTypeOK
  <2> QED
    BY <1>1, <1>2, <1>4, <2>1, GivesUp
<1>5. CASE Return(c) /\ UNCHANGED <<state, frozen>>
  <2>1. Touches(s)
    BY <1>1, <1>5 DEF Touches, TransfersTypeOK
  <2> QED
    BY <1>1, <1>2, <1>5, <2>1, GivesUp
<1> QED
  BY <1>1, <1>3, <1>4, <1>5

LEMMA ReleaseRecordedKeeps ==
  ASSUME NEW c \in Calls, NEW s \in Subs, Handles(c, s), ReleaseRecorded(c)
  PROVE  TransfersInv'
<1>1. /\ TransfersInv /\ TransfersTypeOK /\ Shaped(call[c]) /\ Known(s) /\ call[c].sub = s
      /\ CallKnown(c, s) /\ (tries[s] <= 1 => OnceKnown(c, s)) /\ tries[s] \in Nat
      /\ s \notin Transfers /\ call[c].op = "release" /\ call[c].pc = "put" /\ Return(c)
      /\ UNCHANGED <<state, raw, inputs, pool, previews, taken, tries>>
      /\ \/ record' = [record EXCEPT ![s] = "rejected"] /\ frozen' = frozen \ {s}
         \/ UNCHANGED <<record, frozen>>
  BY HandlesFacts DEF Handles, ReleaseRecorded, At
<1>2. Moves(c) /\ call'[c] = NoCall /\ (\A d \in Calls \ {c} : call'[d] = call[d]) /\ NoCall.sub # s
  BY <1>1, ReturnFacts, SubsNamed DEF Moves, Shaped, TransfersTypeOK, NoCall
<1>3. Touches(s)
  BY <1>1 DEF Touches, TransfersTypeOK, Records
<1>4. CASE UNCHANGED <<record, frozen>>
  BY <1>1, <1>2, <1>3, <1>4, GivesUp
<1>5. CASE record' = [record EXCEPT ![s] = "rejected"] /\ frozen' = frozen \ {s}
  <2>1. tries[s] <= 1 => state[s] \in {"rejected", "cancelled"}
    BY <1>1 DEF OnceKnown
  <2>2. StateKnown(s)' /\ FreedKnown(s)'
    BY <1>1, <1>5, <2>1 DEF Known, StateKnown, FreedKnown
  <2>3. ASSUME NEW d \in Calls \ {c}, call[d].sub = s, tries'[s] <= 1
        PROVE  OnceKnown(d, s)'
    <3>1. OnceKnown(d, s) /\ call'[d] = call[d]
      BY <1>1, <1>2, <2>3 DEF Known
    <3> QED
      BY <1>1, <2>1, <2>3, <3>1 DEF OnceKnown
  <2>4. state[s] # "none"
    BY <1>1 DEF CallKnown
  <2> QED
    BY <1>1, <1>2, <1>3, <2>2, <2>3, <2>4, HandlerKeeps
<1> QED
  BY <1>1, <1>4, <1>5

LEMMA CallStepKeeps ==
  ASSUME TransfersInv, NEW c \in Calls, CallStep(c)
  PROVE  TransfersInv'
<1>1. call[c].op # "none" \/ call[c].pc # "none"
  BY DEF CallStep, BeginSigning, TransferSigned, TransferAudited, SubmitFails, SettleTransfer,
         PresignBegin, PresignSigned, PresignRecorded, PresignFails, SettleExact, ReleaseReads,
         ReleaseSeals, ReleaseRecorded, BeginDispatch, LeaseRefused, DispatchFails, Provide,
         ProviderAnswers, BroadcastAccepted, BroadcastRejected, RejectionRecorded,
         BroadcastUnknown, At, Broadcasting
<1>2. PICK s \in Subs : Handles(c, s)
  BY <1>1, Busy DEF Handles, TransfersInv
<1>3. CASE BeginSigning(c) \/ TransferSigned(c) \/ TransferAudited(c) \/ SubmitFails(c)
           \/ SettleTransfer(c)
  BY <1>2, <1>3, BeginSigningKeeps, TransferSignedKeeps, TransferAuditedKeeps, SubmitFailsKeeps,
     SettleTransferKeeps
<1>4. CASE PresignBegin(c) \/ PresignSigned(c) \/ PresignRecorded(c) \/ PresignFails(c) \/ SettleExact(c)
  BY <1>2, <1>4, PresignBeginKeeps, PresignSignedKeeps, PresignRecordedKeeps, PresignFailsKeeps,
     SettleExactKeeps
<1>5. CASE ReleaseReads(c) \/ ReleaseSeals(c) \/ ReleaseRecorded(c)
  BY <1>2, <1>5, ReleaseReadsKeeps, ReleaseSealsKeeps, ReleaseRecordedKeeps
<1>6. CASE BeginDispatch(c) \/ LeaseRefused(c) \/ DispatchFails(c) \/ Provide(c) \/ ProviderAnswers(c)
  BY <1>2, <1>6, BeginDispatchKeeps, LeaseRefusedKeeps, DispatchFailsKeeps, ProvideKeeps,
     ProviderAnswersKeeps
<1>7. CASE BroadcastAccepted(c) \/ BroadcastRejected(c) \/ RejectionRecorded(c) \/ BroadcastUnknown(c)
  BY <1>2, <1>7, BroadcastAcceptedKeeps, BroadcastRejectedKeeps, RejectionRecordedKeeps,
     BroadcastUnknownKeeps
<1> QED
  BY <1>3, <1>4, <1>5, <1>6, <1>7 DEF CallStep

-----------------------------------------------------------------------------
(* Steps outside the handlers *)

(* A step that moves no handler and touches one submission.                *)
LEMMA OutsideKeeps ==
  ASSUME TransfersInv, NEW s \in Subs, Touches(s), UNCHANGED <<call, raw, taken, tries>>,
         StateKnown(s)', FreedKnown(s)', state'[s] \notin {"none", "prepared"} \/ state'[s] = state[s],
         \A d \in Calls : call[d].sub = s /\ tries[s] <= 1 => OnceKnown(d, s)'
  PROVE  TransfersInv'
<1>1. TransfersTypeOK'
  BY DEF TransfersInv, TransfersTypeOK, Touches
<1>2. Apart'
  BY ApartKept DEF TransfersInv, Touches
<1>3. ASSUME NEW t \in Subs, t # s
      PROVE  Known(t)'
  <2>1. /\ state'[t] = state[t] /\ Known(t) /\ call' = call
        /\ (t \in frozen' <=> t \in frozen) /\ taken' = taken /\ tries' = tries
    BY <1>3 DEF TransfersInv, Touches
  <2>2. StateKnown(t)' /\ FreedKnown(t)'
    BY <2>1 DEF Known, StateKnown, FreedKnown
  <2>3. ASSUME NEW d \in Calls, call[d].sub = t
        PROVE  CallKnown(d, t)' /\ (tries[t] <= 1 => OnceKnown(d, t)')
    BY <2>1, <2>3 DEF Known, CallKnown, OnceKnown
  <2> QED
    BY <2>1, <2>2, <2>3 DEF Known, Alone
<1>4. Known(s)'
  <2>1. Known(s)
    BY DEF TransfersInv
  <2>2. ASSUME NEW d \in Calls, call[d].sub = s
        PROVE  CallKnown(d, s)'
    BY <2>1, <2>2 DEF Known, CallKnown
  <2> QED
    BY <2>1, <2>2 DEF Known, Alone
<1>5. SignedKnown'
  BY DEF SignedKnown, TransfersInv, TransfersTypeOK, Touches
<1> QED
  BY <1>1, <1>2, <1>3, <1>4, <1>5 DEF TransfersInv

LEMMA SealKeeps ==
  ASSUME TransfersInv, NEW s \in Subs, SealAndRelease(s), state[s] \in Undispatched,
         previews' \subseteq previews, UNCHANGED <<raw, inputs, pool, record, call, taken, tries>>
  PROVE  TransfersInv'
<1>1. TransfersTypeOK /\ Known(s)
  BY DEF TransfersInv
<1>2. Touches(s)
  BY <1>1, SealTouches DEF Touches, TransfersTypeOK
<1>3. /\ StateKnown(s)' /\ FreedKnown(s)' /\ state'[s] \in {"rejected", "cancelled"}
      /\ \A d \in Calls : call[d].sub = s /\ tries[s] <= 1 => OnceKnown(d, s)'
  BY <1>1, SealKnown
<1> QED
  BY <1>2, <1>3, OutsideKeeps

LEMMA FundKeeps ==
  ASSUME TransfersInv, NEW s \in Subs, Fund(s)
  PROVE  TransfersInv'
<1>1. /\ TransfersTypeOK /\ (\A c \in Calls : Shaped(call[c])) /\ Apart
      /\ (\A t \in Subs : Known(t)) /\ Known(s) /\ state[s] = "none"
      /\ UNCHANGED <<raw, pool, record, call, taken, tries>>
  BY DEF TransfersInv, Fund
<1>2. PICK coins \in SUBSET Available : coins # {} /\ inputs' = [inputs EXCEPT ![s] = coins]
  BY DEF Fund
<1>3. /\ \/ state' = [state EXCEPT ![s] = "prepared"] /\ frozen' = frozen \union {s}
         \/ state' = [state EXCEPT ![s] = "cancelled"] /\ frozen' = frozen
      /\ previews' \subseteq previews \union ({s} \intersect Transfers)
  BY DEF Fund
<1>4. /\ s \notin frozen /\ tries[s] = 0 /\ s \notin taken
  BY <1>1 DEF Known, StateKnown
<1>5. \A d \in Calls : call[d].sub # s
  BY <1>1 DEF Known, CallKnown
<1>6. TransfersTypeOK'
  <2>1. coins \subseteq Coins \union Subs
    BY <1>1, <1>2 DEF Available, TransfersTypeOK
  <2>2. state' \in [Subs -> States] /\ frozen' \subseteq Subs /\ previews' \subseteq Transfers
    BY <1>1, <1>3 DEF TransfersTypeOK, States
  <2>3. inputs' \in [Subs -> SUBSET (Coins \union Subs)]
    BY <1>1, <1>2, <2>1 DEF TransfersTypeOK
  <2> QED
    BY <1>1, <2>2, <2>3 DEF TransfersTypeOK
<1>7. Apart'
  <2>1. inputs'[s] = coins /\ \A t \in Subs \ {s} : inputs'[t] = inputs[t]
    BY <1>1, <1>2 DEF TransfersTypeOK
  <2>2. ASSUME NEW t \in frozen
        PROVE  coins \intersect inputs[t] = {}
    BY <1>2 DEF Available
  <2>3. frozen \subseteq Subs \ {s} /\ frozen' \subseteq frozen \union {s}
    BY <1>1, <1>3, <1>4 DEF TransfersTypeOK
  <2>4. ASSUME NEW t \in frozen', NEW u \in frozen', t # u
        PROVE  inputs'[t] \intersect inputs'[u] = {}
    <3>1. CASE t # s /\ u # s
      BY <1>1, <2>1, <2>3, <2>4, <3>1 DEF Apart
    <3>2. CASE t = s
      BY <2>1, <2>2, <2>3, <2>4, <3>2
    <3>3. CASE u = s
      BY <2>1, <2>2, <2>3, <2>4, <3>3
    <3> QED
      BY <3>1, <3>2, <3>3
  <2> QED
    BY <2>4 DEF Apart
<1>8. ASSUME NEW t \in Subs
      PROVE  Known(t)'
  <2>1. CASE t = s
    <3>1. /\ \/ state'[s] = "prepared" /\ s \in frozen'
             \/ state'[s] = "cancelled" /\ s \notin frozen'
          /\ tries' = tries /\ taken' = taken /\ call' = call
      BY <1>1, <1>3, <1>4 DEF TransfersTypeOK
    <3>2. StateKnown(s)' /\ FreedKnown(s)'
      BY <1>4, <3>1 DEF StateKnown, FreedKnown
    <3> QED
      BY <1>5, <2>1, <3>1, <3>2 DEF Known
  <2>2. CASE t # s
    <3>1. /\ state'[t] = state[t] /\ Known(t) /\ call' = call
          /\ (t \in frozen' <=> t \in frozen) /\ taken' = taken /\ tries' = tries
      BY <1>1, <1>3, <2>2 DEF TransfersTypeOK
    <3>2. StateKnown(t)' /\ FreedKnown(t)'
      BY <3>1 DEF Known, StateKnown, FreedKnown
    <3>3. ASSUME NEW d \in Calls, call[d].sub = t
          PROVE  CallKnown(d, t)' /\ (tries[t] <= 1 => OnceKnown(d, t)')
      BY <3>1, <3>3 DEF Known, CallKnown, OnceKnown
    <3> QED
      BY <3>1, <3>2, <3>3 DEF Known, Alone
  <2> QED
    BY <2>1, <2>2
<1>9. SignedKnown'
  BY <1>1, <1>3 DEF TransfersInv, SignedKnown, TransfersTypeOK
<1> QED
  BY <1>1, <1>6, <1>7, <1>8, <1>9 DEF TransfersInv

LEMMA ExpireKeeps ==
  ASSUME TransfersInv, NEW s \in Transfers, Expire(s) \/ SubmitAborted(s)
  PROVE  TransfersInv'
<1>1. TransfersTypeOK /\ Known(s) /\ s \in Subs
  BY SubsNamed DEF TransfersInv
<1>2. CASE SealAndRelease(s) /\ state[s] = "prepared"
  <2>1. previews' \subseteq previews /\ UNCHANGED <<raw, inputs, pool, record, call, taken, tries>>
    BY DEF Expire, SubmitAborted
  <2> QED
    BY <1>1, <1>2, <2>1, SealKeeps DEF Undispatched
<1>3. CASE UNCHANGED <<state, frozen>> /\ Expire(s)
  <2>1. /\ Touches(s) /\ UNCHANGED <<call, raw, taken, tries, state, frozen>>
    BY <1>1, <1>3 DEF Expire, Touches, TransfersTypeOK
  <2>2. StateKnown(s)' /\ FreedKnown(s)'
    BY <1>1, <2>1 DEF Known, StateKnown, FreedKnown
  <2>3. ASSUME NEW d \in Calls, call[d].sub = s, tries[s] <= 1
        PROVE  OnceKnown(d, s)'
    BY <1>1, <2>1, <2>3 DEF Known, OnceKnown
  <2> QED
    BY <1>1, <2>1, <2>2, <2>3, OutsideKeeps
<1> QED
  BY <1>2, <1>3 DEF Expire, SubmitAborted

LEMMA ObserveReceiptKeeps ==
  ASSUME TransfersInv, NEW s \in Plans, ObserveReceipt(s)
  PROVE  TransfersInv'
<1>1. /\ TransfersTypeOK /\ Known(s) /\ s \in Subs /\ s \notin Transfers
      /\ s \in taken /\ pool' = Injected(s)
      /\ state' = [state EXCEPT ![s] = "accepted"]
         /\ UNCHANGED <<raw, inputs, frozen, previews, record, call, taken, tries>>
  BY SubsNamed DEF TransfersInv, ObserveReceipt
<1>2. Touches(s) /\ state'[s] = "accepted"
  BY <1>1, InjectedPool DEF Touches, TransfersTypeOK, States
<1>3. StateKnown(s)' /\ FreedKnown(s)'
  BY <1>1, <1>2 DEF Known, StateKnown, FreedKnown, TransfersTypeOK
<1>4. ASSUME NEW d \in Calls, call[d].sub = s, tries[s] <= 1
      PROVE  OnceKnown(d, s)'
  BY <1>1, <1>2, <1>4 DEF Known, StateKnown, OnceKnown
<1> QED
  BY <1>1, <1>2, <1>3, <1>4, OutsideKeeps

(* A new handler of s knows nothing but that the submission exists.        *)
LEMMA StartKeeps ==
  ASSUME TransfersInv, NEW c \in Calls, NEW s \in Subs,
         NEW op \in {"submit", "presign", "exact", "release"}, NEW pc \in {"resolving", "lease", "read"},
         \/ op = "submit" /\ pc = "resolving" /\ s \in Transfers
         \/ op = "presign" /\ pc = "resolving" /\ s \in Plans
         \/ op = "exact" /\ pc = "lease" /\ s \in Plans
         \/ op = "release" /\ pc = "read" /\ s \in Plans,
         Start(c, op, s, pc), state[s] # "none",
         UNCHANGED <<state, raw, inputs, frozen, pool, previews, record, taken, tries>>
  PROVE  TransfersInv'
<1>1. /\ TransfersTypeOK /\ Apart /\ \A d \in Calls : Shaped(call[d])
  BY DEF TransfersInv
<1>2. /\ call' \in [Calls -> CallRecord] /\ call[c] = NoCall
      /\ call'[c].op = op /\ call'[c].sub = s /\ call'[c].pc = pc /\ call'[c].res = "none"
      /\ \A d \in Calls \ {c} : call'[d] = call[d]
  BY <1>1, StartFacts DEF TransfersTypeOK
<1>3. TransfersTypeOK' /\ Apart'
  BY <1>1, <1>2 DEF TransfersTypeOK, Apart
<1>4. \A d \in Calls : Shaped(call'[d])
  BY <1>1, <1>2 DEF Shaped, Sending
<1>5. ASSUME NEW t \in Subs
      PROVE  Known(t)'
  <2>1. /\ Known(t) /\ taken' = taken /\ tries' = tries /\ state' = state /\ frozen' = frozen
        /\ NoCall.sub # t
    BY SubsNamed DEF TransfersInv, NoCall
  <2>2. StateKnown(t)'
    BY <2>1 DEF Known, StateKnown
  <2>3. FreedKnown(t)'
    <3>1. \A d \in Calls : call[d].sub = t => call'[d] = call[d]
      BY <1>2, <2>1
    <3> QED
      BY <2>1, <3>1 DEF Known, FreedKnown
  <2>4. ASSUME NEW d \in Calls, call'[d].sub = t
        PROVE  CallKnown(d, t)' /\ (tries[t] <= 1 => OnceKnown(d, t)')
    <3>1. CASE d = c
      BY <1>2, <2>4, <3>1 DEF CallKnown, OnceKnown, Posted
    <3>2. CASE d # c
      BY <1>2, <2>1, <2>4, <3>2 DEF Known, CallKnown, OnceKnown
    <3> QED
      BY <3>1, <3>2
  <2>5. ASSUME NEW d \in Calls, NEW e \in Calls, call'[d].sub = t, call'[e].sub = t
        PROVE  Alone(d, e, t)'
    <3>1. call'[c].pc \notin Posted /\ (call'[c].sub \in Transfers => call'[c].pc = "resolving")
      BY <1>2, SubsNamed DEF Posted
    <3>2. CASE d # c /\ e # c
      BY <1>2, <2>1, <2>5, <3>2 DEF Known, Alone
    <3> QED
      BY <2>5, <3>1, <3>2 DEF Alone
  <2> QED
    BY <2>1, <2>2, <2>3, <2>4, <2>5 DEF Known
<1>6. SignedKnown'
  BY DEF TransfersInv, SignedKnown
<1> QED
  BY <1>3, <1>4, <1>5, <1>6 DEF TransfersInv

LEMMA ReleasePlanKeeps ==
  ASSUME TransfersInv, NEW c \in Calls, NEW s \in Plans, ReleasePlan(c, s)
  PROVE  TransfersInv'
<1>1. s \in Subs
  BY SubsNamed
<1>2. CASE Start(c, "release", s, "read") /\ UNCHANGED <<state, frozen>>
  BY <1>1, <1>2, StartKeeps DEF ReleasePlan
<1>3. CASE state[s] \in Undispatched /\ SealAndRelease(s) /\ UNCHANGED call
  BY <1>1, <1>3, SealKeeps DEF ReleasePlan
<1> QED
  BY <1>2, <1>3 DEF ReleasePlan, Undispatched

LEMMA StartersKeep ==
  ASSUME TransfersInv, NEW c \in Calls, NEW s \in Subs,
         \/ s \in Transfers /\ Submit(c, s)
         \/ s \in Plans /\ (Presign(c, s) \/ SubmitExact(c, s) \/ ReleasePlan(c, s))
  PROVE  TransfersInv'
<1>1. CASE s \in Transfers /\ Submit(c, s)
  BY <1>1, StartKeeps DEF Submit
<1>2. CASE s \in Plans /\ Presign(c, s)
  BY <1>2, StartKeeps DEF Presign
<1>3. CASE s \in Plans /\ SubmitExact(c, s)
  <2>1. state[s] # "none"
    BY <1>3 DEF SubmitExact, TransfersInv, SignedKnown
  <2> QED
    BY <1>3, <2>1, StartKeeps DEF SubmitExact
<1>4. CASE s \in Plans /\ ReleasePlan(c, s)
  BY <1>4, ReleasePlanKeeps
<1> QED
  BY <1>1, <1>2, <1>3, <1>4

-----------------------------------------------------------------------------
(* The invariant, and what follows from it *)

LEMMA TransfersInvInit == Init => TransfersInv
<1> SUFFICES ASSUME Init PROVE TransfersInv
  OBVIOUS
<1>1. TransfersTypeOK
  BY TypesInit
<1>2. \A c \in Calls : call[c] = NoCall
  BY DEF Init
<1>3. \A c \in Calls : Shaped(call[c])
  BY <1>2 DEF Shaped
<1>4. ASSUME NEW s \in Subs
      PROVE  Known(s)
  <2>1. StateKnown(s) /\ FreedKnown(s)
    BY DEF Init, StateKnown, FreedKnown
  <2>2. \A c \in Calls : call[c].sub # s
    BY <1>2, SubsNamed DEF NoCall
  <2> QED
    BY <2>1, <2>2 DEF Known
<1>5. Apart /\ SignedKnown
  BY DEF Init, Apart, SignedKnown
<1> QED
  BY <1>1, <1>3, <1>4, <1>5 DEF TransfersInv

LEMMA TransfersInvUnchanged ==
  ASSUME TransfersInv, UNCHANGED vars
  PROVE  TransfersInv'
  BY DEF TransfersInv, vars, TransfersTypeOK, Shaped, Known, StateKnown, FreedKnown, CallKnown,
         OnceKnown, Alone, Apart, SignedKnown

(* Every handler is of a known kind at a known place, and the state of a   *)
(* submission, its allocation, the handlers at work on it and what the     *)
(* network may have of it agree.                                           *)
THEOREM TransfersInvariant == Spec => []TransfersInv
<1>1. Init => TransfersInv
  BY TransfersInvInit
<1>2. TransfersInv /\ [Next]_vars => TransfersInv'
  <2> SUFFICES ASSUME TransfersInv, [Next]_vars PROVE TransfersInv'
    OBVIOUS
  <2>1. CASE \E s \in Subs : Fund(s)
    BY <2>1, FundKeeps
  <2>2. CASE \E s \in Transfers : Expire(s) \/ SubmitAborted(s)
    BY <2>2, ExpireKeeps
  <2>3. CASE \E s \in Plans : ObserveReceipt(s)
    BY <2>3, ObserveReceiptKeeps
  <2>4. CASE \E c \in Calls : CallStep(c)
    BY <2>4, CallStepKeeps
  <2>5. CASE \E c \in Calls, s \in Transfers : Submit(c, s)
    BY <2>5, StartersKeep, SubsNamed
  <2>6. CASE \E c \in Calls, s \in Plans : Presign(c, s) \/ SubmitExact(c, s) \/ ReleasePlan(c, s)
    BY <2>6, StartersKeep, SubsNamed
  <2>7. CASE UNCHANGED vars
    BY <2>7, TransfersInvUnchanged
  <2> QED
    BY <2>1, <2>2, <2>3, <2>4, <2>5, <2>6, <2>7 DEF Next
<1> QED
  BY <1>1, <1>2, PTL DEF Spec

(* Of two transactions that nodes took and that spend a common coin, one   *)
(* was sent more than once: expiry timers, cancellations, late signers and *)
(* rejections free no coin of a transaction a node may have taken.         *)
THEOREM CoinsAreSpentOnce == Spec => []NoDoubleSpend
<1>1. TransfersInv => NoDoubleSpend
  <2> SUFFICES ASSUME TransfersInv, NEW s \in taken, NEW t \in taken, s # t,
                      inputs[s] \intersect inputs[t] # {}
               PROVE  \E u \in {s, t} : tries[u] > 1
    BY DEF NoDoubleSpend
  <2>1. s \in Subs /\ t \in Subs /\ tries[s] \in Nat /\ tries[t] \in Nat
    BY DEF TransfersInv, TransfersTypeOK
  <2>2. ~(s \in frozen /\ t \in frozen)
    BY DEF TransfersInv, Apart
  <2>3. StateKnown(s) /\ StateKnown(t)
    BY <2>1 DEF TransfersInv, Known
  <2> QED
    BY <2>1, <2>2, <2>3 DEF StateKnown
<1> QED
  BY <1>1, TransfersInvariant, PTL

(* A transfer that was rejected or cancelled holds no coins once none of   *)
(* its handlers is left, wherever they failed.                             *)
THEOREM EndedTransfersAreFreed == Spec => []EndedTransferFreed
<1>1. TransfersInv => EndedTransferFreed
  BY SubsNamed DEF TransfersInv, Known, FreedKnown, EndedTransferFreed
<1> QED
  BY <1>1, TransfersInvariant, PTL
=============================================================================
