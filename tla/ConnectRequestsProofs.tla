------------------------ MODULE ConnectRequestsProofs ------------------------
(***************************************************************************)
(* A refused request is never carried out, and the payments of an          *)
(* application keep the promise of PaymentLedger, for any requests and     *)
(* connections and however often they fail, end or are locked.             *)
(***************************************************************************)
EXTENDS ConnectRequests, FiniteSetTheorems, TLAPS

\* The entries of a queue belong to its connection, wait, and are there once.
Fit(c, q, ph) ==
    /\ \A i \in DOMAIN q : ConnOf[q[i]] = c /\ ph[q[i]] = "queued"
    /\ \A i, j \in DOMAIN q : q[i] = q[j] => i = j

\* The request the executor asks the probe for is the first of its queue, or was
\* cancelled and is in it no more.
QueueOk(c) ==
    /\ Fit(c, queue[c], phase)
    /\ drain[c] # "idle" => head[c] \in Of(c)
    /\ drain[c] = "probe" => \A i \in DOMAIN queue[c] : queue[c][i] = head[c] => i = 1
    /\ drain[c] = "run" => at[head[c]] \in RunSteps

Holds(r, doing) == drain[ConnOf[r]] = doing /\ head[ConnOf[r]] = r

\* Where a request is in its handler says what its record may show; what was
\* refused is at no await that leads to its execution.
RequestOk(r) ==
    /\ phase[r] = "none" => at[r] \in {"off", "done"}
    /\ phase[r] = "accepting" => at[r] = "checking"
    /\ phase[r] = "queued" => at[r] = "waiting"
    /\ phase[r] = "confirming" =>
           \/ at[r] = "waiting" /\ ~Holds(r, "probe")
           \/ at[r] = "approval" /\ approval[r] = "asked"
    /\ approval[r] # "none" => at[r] = "approval"
    /\ Holds(r, "probe") => at[r] = "waiting" /\ phase[r] \in {"queued", "rejected"} /\ r \notin refused
    /\ at[r] \in RunSteps => Holds(r, "run")
    /\ r \in carried => at[r] \in {"submitting", "outcome", "caught", "done"}
    /\ r \in refused =>
           /\ phase[r] \in TerminalPhases
           /\ \/ at[r] \in {"checking", "waiting", "caught", "done"}
              \/ at[r] = "approval" /\ approval[r] = "no"
           /\ r \notin carried

RunInv ==
    /\ \A c \in Conns : QueueOk(c)
    /\ \A r \in Requests : RequestOk(r)

-----------------------------------------------------------------------------
\* What a claimed payment goes through from its preparation on.
Paying == {"prepare", "plan", "approval", "submitting", "outcome", "caught"}
Prepared == (Paying \ {"prepare"}) \cup {"done"}

\* No transaction of r will be handed to the network from here on.
PostsNoMore(r) ==
    /\ at[r] # "prepare"
    /\ tx[r] \notin {"signing", "signed"}
    /\ tx[r] = "prepared" => r \notin carried /\ at[r] \in {"caught", "done"}

\* The final status s is true of the claim of r.
TrueOf(r, s) ==
    /\ PostsNoMore(r)
    /\ s = "not_signed" => r \notin posted
    /\ s = "accepted" => r \in posted

KeyOk(k) ==
    /\ status[k] = "none" <=> claimant[k] = None
    /\ claimant[k] # None =>
           /\ KeyOf[claimant[k]] = k
           /\ at[claimant[k]] \in {"prepare"} \cup Prepared
    /\ status[k] \in FinalStatuses => PostsNoMore(claimant[k])

\* Only the claimant of a key has a row in the Worker, and what an execution is
\* about to record is true.
RowOk(r) ==
    LET q == claimant[KeyOf[r]] IN
    /\ fresh[r] => status[KeyOf[r]] = "none"
    /\ at[r] \in Paying => q = r
    /\ at[r] \in {"lookup", "merge"} => status[KeyOf[r]] # "none"
    /\ tx[r] # "none" => q = r /\ at[r] \in Prepared
    /\ r \in posted => q = r
    /\ r \notin carried => tx[r] \in {"none", "prepared", "cancelled"} /\ r \notin posted
    /\ tx[r] \in {"prepared", "signing", "signed", "cancelled"} => r \notin posted
    /\ tx[r] \in {"dispatching", "unknown", "accepted"} => r \in posted
    /\ at[r] \in {"outcome", "caught", "merge"} /\ got[r] \in FinalStatuses => TrueOf(q, got[r])

PayInv ==
    /\ \A k \in Keys : KeyOk(k)
    /\ \A r \in Requests : RowOk(r)

\* The inductive invariant: RunInv keeps a refused request from its execution,
\* PayInv ties the record of a payment to the one claim that can be posted.
ConnectInv == ConnectTypeOK /\ RunInv /\ PayInv

-----------------------------------------------------------------------------
(* The helpers of the model on a queue q of the connection c.              *)

\* shift() keeps the order of what is left.
LEMMA ShiftedFits ==
    ASSUME NEW c \in Conns, NEW ph, queue[c] \in Seq(Requests), Fit(c, queue[c], ph)
    PROVE  /\ Shifted(c) \in Seq(Requests)
           /\ Fit(c, Shifted(c), ph)
           /\ \A i \in DOMAIN Shifted(c) : i + 1 \in DOMAIN queue[c] /\ Shifted(c)[i] = queue[c][i + 1]
  <1>1. CASE queue[c] = <<>>
    BY <1>1 DEF Shifted, Fit
  <1>2. CASE queue[c] # <<>>
    <2>1. Shifted(c) = Tail(queue[c]) /\ Tail(queue[c]) \in Seq(Requests)
      BY <1>2 DEF Shifted
    <2>2. \A i \in DOMAIN Tail(queue[c]) : i + 1 \in DOMAIN queue[c] /\ Tail(queue[c])[i] = queue[c][i + 1]
      BY <1>2
    <2>3. \A i \in DOMAIN Tail(queue[c]) : i \in Nat
      BY <1>2
    <2> HIDE <1>2
    <2> QED BY <2>1, <2>2, <2>3 DEF Fit
  <1> QED BY <1>1, <1>2

\* push() adds a request that is not there.
LEMMA AppendFits ==
    ASSUME NEW c \in Conns, NEW r \in Requests, ConnOf[r] = c, NEW q \in Seq(Requests), NEW ph, NEW new,
           Fit(c, q, ph), \A i \in DOMAIN q : q[i] # r /\ new[q[i]] = ph[q[i]], new[r] = "queued"
    PROVE  Append(q, r) \in Seq(Requests) /\ Fit(c, Append(q, r), new)
  <1>1. /\ Append(q, r) \in Seq(Requests)
        /\ \A i \in DOMAIN Append(q, r) : IF i \in DOMAIN q THEN Append(q, r)[i] = q[i]
                                          ELSE i = Len(q) + 1 /\ Append(q, r)[i] = r
    OBVIOUS
  <1> QED BY <1>1 DEF Fit

\* w is q without r: an entry keeps its place or moves up by one.
TakenOut(w, q, r) ==
    /\ \A i \in DOMAIN w : w[i] # r
    /\ \A i \in DOMAIN w :
           \/ i \in DOMAIN q /\ w[i] = q[i]
           \/ i + 1 \in DOMAIN q /\ w[i] = q[i + 1] /\ \E j \in 1 .. i : q[j] = r

\* filter() takes out the request and leaves the others in their order.
LEMMA WithoutFits ==
    ASSUME NEW c \in Conns, NEW r, NEW q \in Seq(Requests), NEW ph, NEW new, Fit(c, q, ph),
           \A i \in DOMAIN q : q[i] # r => new[q[i]] = ph[q[i]]
    PROVE  /\ Without(q, r) \in Seq(Requests)
           /\ Fit(c, Without(q, r), new)
           /\ TakenOut(Without(q, r), q, r)
  <1>1. CASE ~ \E j \in DOMAIN q : q[j] = r
    BY <1>1 DEF Without, Fit, TakenOut
  <1>2. CASE \E j \in DOMAIN q : q[j] = r
    <2> DEFINE i == CHOOSE i \in DOMAIN q : q[i] = r
               w == [j \in 1 .. Len(q) - 1 |-> IF j < i THEN q[j] ELSE q[j + 1]]
    <2>1. i \in DOMAIN q /\ q[i] = r
      BY <1>2
    <2>2. Without(q, r) = w
      BY <1>2 DEF Without
    <2> HIDE DEF i
    <2>3. i \in 1 .. Len(q) /\ Len(q) \in Nat
      BY <2>1
    <2>4. \A j \in 1 .. Len(q) : q[j] \in Requests /\ (q[j] = r => j = i)
      BY <2>1, <2>3 DEF Fit
    <2>5. w \in Seq(Requests) /\ DOMAIN w = 1 .. Len(q) - 1
      BY <2>3, <2>4
    <2>6. \A j \in 1 .. Len(q) - 1 : w[j] = IF j < i THEN q[j] ELSE q[j + 1]
      OBVIOUS
    <2> HIDE DEF w
    <2>7. \A j \in 1 .. Len(q) - 1 :
              /\ w[j] # r
              /\ \/ j \in DOMAIN q /\ w[j] = q[j] /\ j < i
                 \/ j + 1 \in DOMAIN q /\ w[j] = q[j + 1] /\ i \in 1 .. j
      <3> SUFFICES ASSUME NEW j \in 1 .. Len(q) - 1
                   PROVE  /\ w[j] # r
                          /\ \/ j \in DOMAIN q /\ w[j] = q[j] /\ j < i
                             \/ j + 1 \in DOMAIN q /\ w[j] = q[j + 1] /\ i \in 1 .. j
        OBVIOUS
      <3>1. j \in 1 .. Len(q) /\ j + 1 \in 1 .. Len(q) /\ j \in Nat /\ DOMAIN q = 1 .. Len(q)
        BY <2>3
      <3>2. CASE j < i
        <4>1. w[j] = q[j]
          BY <3>2, <2>6
        <4>2. j # i
          BY <3>2, <3>1, <2>3
        <4> QED BY <4>1, <4>2, <3>1, <3>2, <2>4
      <3>3. CASE ~(j < i)
        <4>1. i \in 1 .. j /\ j + 1 # i
          BY <3>1, <3>3, <2>3
        <4> QED BY <4>1, <3>1, <3>3, <2>4, <2>6
      <3> QED BY <3>2, <3>3
    <2>8. Fit(c, w, new)
      <3>1. \A j \in 1 .. Len(q) - 1 : ConnOf[w[j]] = c /\ new[w[j]] = "queued"
        BY <2>7 DEF Fit
      <3>2. \A j, k \in 1 .. Len(q) - 1 : w[j] = w[k] => j = k
        BY <2>3, <2>7 DEF Fit
      <3> QED BY <2>5, <3>1, <3>2 DEF Fit
    <2>9. TakenOut(w, q, r)
      BY <2>1, <2>5, <2>7 DEF TakenOut
    <2> QED BY <2>2, <2>5, <2>8, <2>9
  <1> QED BY <1>1, <1>2

LEMMA WithoutTyped ==
    ASSUME NEW q \in Seq(Requests), NEW r
    PROVE  Without(q, r) \in Seq(Requests)
  <1> DEFINE i == CHOOSE i \in DOMAIN q : q[i] = r
  <1>1. Len(q) \in Nat /\ \A j \in 1 .. Len(q) : q[j] \in Requests
    OBVIOUS
  <1>2. ASSUME NEW j \in DOMAIN q, q[j] = r
        PROVE  [x \in 1 .. Len(q) - 1 |-> IF x < i THEN q[x] ELSE q[x + 1]] \in Seq(Requests)
    <2>1. Len(q) - 1 \in Nat
      BY <1>1, <1>2
    <2> HIDE DEF i
    <2> QED BY <1>1, <2>1
  <1> QED BY <1>2 DEF Without

-----------------------------------------------------------------------------
(* Types.                                                                  *)

TypedRun ==
    /\ phase \in [Requests -> Phases]
    /\ at \in [Requests -> {"off", "checking", "waiting", "done"} \cup RunSteps]
    /\ queue \in [Conns -> Seq(Requests)]
    /\ drain \in [Conns -> {"idle", "probe", "run"}]
    /\ head \in [Conns -> Requests \cup {None}]

LEMMA TypedParts ==
    ASSUME ConnectTypeOK
    PROVE  TypedRun /\ \A r \in Requests : ConnOf[r] \in Conns /\ KeyOf[r] \in Keys /\ r # None
  BY RequestsAssumption DEF ConnectTypeOK, TypedRun

LEMMA FaultCounts ==
    ASSUME ConnectTypeOK, NEW c, Fault(c) \/ Trouble
    PROVE  troubles' \in 0 .. MaxTroubles
  BY RequestsAssumption DEF ConnectTypeOK, Fault, Trouble

LEMMA ProceedTyped ==
    ASSUME TypedRun, NEW c \in Conns, NEW q \in Seq(Requests), Proceed(c, q)
    PROVE  /\ queue' \in [Conns -> Seq(Requests)]
           /\ drain' \in [Conns -> {"idle", "probe", "run"}]
           /\ head' \in [Conns -> Requests \cup {None}]
  BY DEF Proceed, TypedRun

LEMMA PushTyped ==
    ASSUME TypedRun, NEW r \in Requests, ConnOf[r] \in Conns, Push(r),
           at' \in [Requests -> {"off", "checking", "waiting", "done"} \cup RunSteps]
    PROVE  TypedRun'
  <1> DEFINE q == Append(queue[ConnOf[r]], r)
  <1>1. q \in Seq(Requests) /\ phase' \in [Requests -> Phases]
    BY DEF TypedRun, Push, Phases
  <1>2. CASE Proceed(ConnOf[r], q)
    BY <1>1, <1>2, ProceedTyped DEF TypedRun
  <1>3. CASE queue' = [queue EXCEPT ![ConnOf[r]] = q] /\ UNCHANGED <<drain, head>>
    BY <1>1, <1>3 DEF TypedRun
  <1> QED BY <1>2, <1>3 DEF Push

LEMMA FinishTyped ==
    ASSUME TypedRun, NEW r \in Requests, ConnOf[r] \in Conns, NEW end \in TerminalPhases, Finish(r, end)
    PROVE  TypedRun'
  <1>1. queue[ConnOf[r]] \in Seq(Requests)
    BY DEF TypedRun
  <1>2. phase' \in [Requests -> Phases]
        /\ at' \in [Requests -> {"off", "checking", "waiting", "done"} \cup RunSteps]
    BY DEF TypedRun, Finish, Phases
  <1> QED BY <1>1, <1>2, ProceedTyped DEF TypedRun, Finish

LEMMA GoesTyped ==
    ASSUME TypedRun, NEW r \in Requests, NEW step \in RunSteps, Goes(r, step)
    PROVE  TypedRun'
  BY DEF TypedRun, Goes


-----------------------------------------------------------------------------
(* What a step does to the requests and queues it is not about.            *)

RunTypes ==
    /\ TypedRun
    /\ approval \in [Requests -> {"none", "asked", "yes", "no"}]
    /\ \A r \in Requests : ConnOf[r] \in Conns /\ r # None

\* A connection whose queue and requests are left alone stays as it was.
LEMMA OtherQueue ==
    ASSUME RunTypes, NEW c \in Conns, QueueOk(c),
           queue'[c] = queue[c], drain'[c] = drain[c], head'[c] = head[c],
           \A r \in Of(c) : phase'[r] = phase[r] /\ at'[r] = at[r]
    PROVE  QueueOk(c)'
  <1>1. \A i \in DOMAIN queue[c] : queue[c][i] \in Of(c)
    BY DEF RunTypes, TypedRun, QueueOk, Fit, Of
  <1> QED BY <1>1 DEF QueueOk, Fit, Of

LEMMA OtherRequest ==
    ASSUME RunTypes, NEW r \in Requests, RequestOk(r),
           Holds(r, "probe")' => Holds(r, "probe"),
           Holds(r, "run") => Holds(r, "run")',
           phase'[r] = phase[r], at'[r] = at[r], approval'[r] = approval[r],
           r \in carried' <=> r \in carried, r \in refused' <=> r \in refused
    PROVE  RequestOk(r)'
  BY DEF RequestOk

\* Nothing of the run changes.
LEMMA RunFrame ==
    ASSUME RunTypes, RunInv, UNCHANGED <<runVars, approval, carried, refused>>
    PROVE  RunInv'
  BY DEF RunInv, QueueOk, RequestOk, Fit, Holds, runVars, Of

\* Everything else in a step on the connection c is left alone.
Elsewhere(c) ==
    /\ \A d \in Conns \ {c} : queue'[d] = queue[d] /\ drain'[d] = drain[d] /\ head'[d] = head[d]
    /\ \A r \in Requests \ Of(c) :
           /\ phase'[r] = phase[r] /\ at'[r] = at[r] /\ approval'[r] = approval[r]
           /\ (r \in carried' <=> r \in carried) /\ (r \in refused' <=> r \in refused)

LEMMA OneConnection ==
    ASSUME RunTypes, RunInv, NEW c \in Conns, Elsewhere(c), QueueOk(c)',
           \A r \in Of(c) : RequestOk(r)'
    PROVE  RunInv'
  <1>1. ASSUME NEW d \in Conns \ {c} PROVE QueueOk(d)'
    <2>1. \A r \in Of(d) : r \in Requests \ Of(c)
      BY DEF Of
    <2> QED BY <2>1, OtherQueue DEF Elsewhere, RunInv
  <1>2. ASSUME NEW r \in Requests \ Of(c) PROVE RequestOk(r)'
    <2>1. ConnOf[r] \in Conns \ {c}
      BY DEF RunTypes, Of
    <2>2. Holds(r, "probe")' <=> Holds(r, "probe")
      BY <2>1 DEF Holds, Elsewhere
    <2>3. Holds(r, "run")' <=> Holds(r, "run")
      BY <2>1 DEF Holds, Elsewhere
    <2> QED BY <2>2, <2>3, OtherRequest DEF Elsewhere, RunInv
  <1> QED BY <1>1, <1>2 DEF RunInv, Of

\* The executor of c goes on with what q holds: a request that waits, or none.
LEMMA ProceedKeeps ==
    ASSUME RunTypes, NEW c \in Conns, NEW q \in Seq(Requests), Proceed(c, q), Fit(c, q, phase')
    PROVE  /\ QueueOk(c)'
           /\ \A r \in Of(c) : ~Holds(r, "run")' /\ (Holds(r, "probe")' => \E i \in DOMAIN q : q[i] = r)
           /\ \A d \in Conns \ {c} : queue'[d] = queue[d] /\ drain'[d] = drain[d] /\ head'[d] = head[d]
  <1>1. /\ queue'[c] = q
        /\ drain'[c] = IF q = <<>> THEN "idle" ELSE "probe"
        /\ head'[c] = IF q = <<>> THEN None ELSE q[1]
    BY DEF Proceed, RunTypes, TypedRun
  <1>2. q # <<>> => 1 \in DOMAIN q
    OBVIOUS
  <1>3. QueueOk(c)'
    BY <1>1, <1>2 DEF QueueOk, Fit, Of
  <1>4. \A r \in Of(c) : ~Holds(r, "run")' /\ (Holds(r, "probe")' => \E i \in DOMAIN q : q[i] = r)
    BY <1>1, <1>2 DEF Holds, Of
  <1> QED BY <1>3, <1>4 DEF Proceed, RunTypes, TypedRun

\* A step on the record of r and nothing else.
LEMMA OneRequest ==
    ASSUME RunTypes, RunInv, NEW r \in Requests, UNCHANGED <<queue, drain, head>>,
           \A q \in Requests \ {r} :
               /\ phase'[q] = phase[q] /\ at'[q] = at[q] /\ approval'[q] = approval[q]
               /\ (q \in carried' <=> q \in carried) /\ (q \in refused' <=> q \in refused),
           phase[r] = "queued" => phase'[r] = "queued",
           Holds(r, "run") => at'[r] \in RunSteps,
           RequestOk(r)'
    PROVE  RunInv'
  <1> DEFINE c == ConnOf[r]
  <1>1. c \in Conns /\ QueueOk(c)
    BY DEF RunTypes, RunInv
  <1>2. QueueOk(c)'
    <2>1. \A i \in DOMAIN queue[c] : phase'[queue[c][i]] = "queued"
      <3>1. \A i \in DOMAIN queue[c] : queue[c][i] \in Requests
        BY <1>1 DEF RunTypes, TypedRun
      <3> QED BY <1>1, <3>1 DEF QueueOk, Fit
    <2>2. Fit(c, queue[c], phase')
      BY <1>1, <2>1 DEF QueueOk, Fit
    <2>3. drain[c] = "run" => at'[head[c]] \in RunSteps
      BY <1>1 DEF QueueOk, Holds, Of
    <2> QED BY <1>1, <2>2, <2>3 DEF QueueOk, Of
  <1>3. \A q \in Of(c) : RequestOk(q)'
    <2> SUFFICES ASSUME NEW q \in Of(c), q # r PROVE RequestOk(q)'
      OBVIOUS
    <2>1. q \in Requests /\ (Holds(q, "probe")' => Holds(q, "probe")) /\ (Holds(q, "run") => Holds(q, "run")')
      BY DEF Of, Holds
    <2> QED BY <2>1, OtherRequest DEF RunInv
  <1>4. Elsewhere(c)
    BY DEF Elsewhere, Of
  <1> QED BY <1>1, <1>2, <1>3, <1>4, OneConnection

\* A checked or confirmed request that is in no queue yet is pushed.
LEMMA PushKeeps ==
    ASSUME RunTypes, RunInv, NEW r \in Requests, Push(r), phase[r] # "queued", ~Holds(r, "probe"),
           at' \in {at, [at EXCEPT ![r] = "waiting"]}, at'[r] = "waiting", at[r] \notin RunSteps,
           UNCHANGED <<approval, carried, refused>>,
           approval[r] = "none", r \notin carried, r \notin refused
    PROVE  RunInv'
  <1> DEFINE c == ConnOf[r]
             q == Append(queue[c], r)
  <1>1. c \in Conns /\ QueueOk(c) /\ queue[c] \in Seq(Requests) /\ ConnOf[r] = c
    BY DEF RunTypes, RunInv, TypedRun
  <1>q. q = Append(queue[c], r)
    OBVIOUS
  <1>p. IF drain[c] = "idle" THEN Proceed(c, q)
        ELSE queue' = [queue EXCEPT ![c] = q] /\ UNCHANGED <<drain, head>>
    BY DEF Push
  <1> HIDE DEF c, q
  <1>2. phase'[r] = "queued" /\ \A s \in Requests \ {r} : phase'[s] = phase[s] /\ at'[s] = at[s]
    BY <1>1 DEF RunTypes, TypedRun, Push
  <1>3. \A i \in DOMAIN queue[c] : queue[c][i] \in Requests \ {r}
    BY <1>1 DEF QueueOk, Fit
  <1>4. q \in Seq(Requests) /\ Fit(c, q, phase')
    <2>1. \A i \in DOMAIN queue[c] : queue[c][i] # r /\ phase'[queue[c][i]] = phase[queue[c][i]]
      BY <1>2, <1>3
    <2>2. Fit(c, queue[c], phase)
      BY <1>1 DEF QueueOk
    <2>3. Append(queue[c], r) \in Seq(Requests) /\ Fit(c, Append(queue[c], r), phase')
      BY <1>1, <1>2, <2>1, <2>2, AppendFits
    <2> QED BY <1>q, <2>3, Zenon
  <1>5. ASSUME drain[c] = "idle" PROVE RunInv'
    <2>1. Proceed(c, q)
      BY <1>5, <1>p
    <2>2. \A s \in Of(c) : Holds(s, "probe")' => s = r \/ (phase[s] = "queued" /\ s \in Requests \ {r})
      <3>1. \A i \in DOMAIN q : q[i] = r \/ (q[i] \in Requests \ {r} /\ phase[q[i]] = "queued")
        <4>1. \A i \in DOMAIN q : q[i] = r \/ (i \in DOMAIN queue[c] /\ q[i] = queue[c][i])
          BY <1>1, <1>q
        <4> QED BY <4>1, <1>1, <1>3 DEF QueueOk, Fit
      <3>2. \A s \in Of(c) : Holds(s, "probe")' => \E i \in DOMAIN q : q[i] = s
        BY <1>1, <1>4, <2>1, ProceedKeeps
      <3> QED BY <3>1, <3>2
    <2>3. QueueOk(c)' /\ Elsewhere(c)
      BY <1>1, <1>2, <1>4, <2>1, ProceedKeeps DEF Elsewhere, Of
    <2>4. \A s \in Of(c) : ~Holds(s, "run")
      BY <1>5 DEF Holds, Of
    <2>5. RequestOk(r)'
      BY <1>2, <2>4 DEF RequestOk, RunInv, Of, RunSteps, TerminalPhases
    <2>6. \A s \in Of(c) \ {r} : RequestOk(s)'
      BY <1>2, <2>2, <2>4 DEF RequestOk, RunInv, Of, TerminalPhases
    <2> QED BY <1>1, <2>3, <2>5, <2>6, OneConnection
  <1>6. ASSUME queue' = [queue EXCEPT ![c] = q], UNCHANGED <<drain, head>>, drain[c] # "idle"
        PROVE  RunInv'
    <2>1. \A s \in Of(c) : (Holds(s, "run")' <=> Holds(s, "run")) /\ (Holds(s, "probe")' <=> Holds(s, "probe"))
      BY <1>6 DEF Holds
    <2>2. Elsewhere(c)
      BY <1>1, <1>2, <1>6 DEF Elsewhere, Of, RunTypes, TypedRun
    <2>3. \A s \in Of(c) \ {r} : RequestOk(s)'
      BY <1>2, <2>1 DEF RequestOk, RunInv, Of
    <2>4. RequestOk(r)'
      BY <1>1, <1>2, <2>1 DEF RequestOk, RunInv, Of, RunSteps, TerminalPhases
    <2>5. QueueOk(c)'
      <3>1. queue'[c] = q
        BY <1>1, <1>6 DEF RunTypes, TypedRun
      <3>2. \A i \in DOMAIN q : q[i] = r \/ (i \in DOMAIN queue[c] /\ q[i] = queue[c][i])
        BY <1>1, <1>q
      <3>3. head[c] \in Of(c) \ {r}
        BY <1>1, <1>6 DEF QueueOk, Holds, Of, RunTypes, TypedRun
      <3>4. Fit(c, queue[c], phase)' /\ (drain[c] = "run" => at[head[c]] \in RunSteps)'
        BY <1>1, <1>2, <1>4, <1>6, <3>1, <3>3 DEF QueueOk, Of
      <3>5. (drain[c] = "probe" => \A i \in DOMAIN queue[c] : queue[c][i] = head[c] => i = 1)'
        BY <1>1, <1>6, <3>1, <3>2, <3>3 DEF QueueOk
      <3> QED BY <1>6, <3>3, <3>4, <3>5 DEF QueueOk, Of
    <2> QED BY <1>1, <2>2, <2>3, <2>4, <2>5, OneConnection
  <1> QED BY <1>5, <1>6, <1>p

\* The executor goes on with q, which was queued; r is done with.
LEMMA LeavesKeeps ==
    ASSUME RunTypes, RunInv, NEW r \in Requests, NEW q \in Seq(Requests), Proceed(ConnOf[r], q),
           Fit(ConnOf[r], q, phase), \A i \in DOMAIN q : q[i] # r,
           \A s \in Requests \ {r} : phase'[s] = phase[s] /\ at'[s] = at[s],
           \A s \in Of(ConnOf[r]) \ {r} : ~Holds(s, "run"),
           phase'[r] \in TerminalPhases, at'[r] = "done",
           UNCHANGED <<approval, refused>>, carried \subseteq carried', carried' \subseteq carried \cup {r},
           approval[r] = "none", r \in refused => r \notin carried'
    PROVE  RunInv'
  <1> DEFINE c == ConnOf[r]
  <1>1. c \in Conns /\ c = ConnOf[r] /\ Proceed(c, q) /\ Fit(c, q, phase)
    BY DEF RunTypes
  <1> HIDE DEF c
  <1>2. \A i \in DOMAIN q : q[i] \in Requests \ {r} /\ phase[q[i]] = "queued"
    BY <1>1 DEF Fit
  <1>3. Fit(c, q, phase')
    BY <1>1, <1>2 DEF Fit
  <1>4. QueueOk(c)' /\ Elsewhere(c)
    BY <1>1, <1>3, ProceedKeeps DEF Elsewhere, Of
  <1>5. \A s \in Of(c) : Holds(s, "probe")' => \E i \in DOMAIN q : q[i] = s
    BY <1>1, <1>3, ProceedKeeps
  <1>6. RequestOk(r)'
    <2>1. ~Holds(r, "probe")'
      BY <1>1, <1>5 DEF Of
    <2> QED BY <2>1 DEF RequestOk, RunInv, TerminalPhases, RunSteps
  <1>7. \A s \in Of(c) \ {r} : RequestOk(s)'
    BY <1>1, <1>2, <1>5 DEF RequestOk, RunInv, Of, TerminalPhases
  <1> QED BY <1>1, <1>4, <1>6, <1>7, OneConnection

\* The probe is answered: the head, which the queue holds no more, is executed.
LEMMA ProbeExecutesRun ==
    ASSUME RunTypes, RunInv, NEW c \in Conns, ProbeExecutes(c)
    PROVE  RunInv'
  <1>0. PICK r \in Requests : r = head[c] /\ ConnOf[r] = c
    BY DEF RunInv, ProbeExecutes, QueueOk, Of
  <1> DEFINE q == Shifted(c)
  <1>1. QueueOk(c) /\ drain[c] = "probe" /\ r = head[c] /\ r \in Of(c) /\ queue[c] \in Seq(Requests)
    BY <1>0 DEF RunInv, ProbeExecutes, QueueOk, Of, RunTypes, TypedRun
  <1>2. /\ queue'[c] = q /\ drain'[c] = "run" /\ head'[c] = r
        /\ phase'[r] = "executing" /\ at'[r] \in {"claim", "act"}
        /\ \A s \in Requests \ {r} : phase'[s] = phase[s] /\ at'[s] = at[s]
        /\ \A d \in Conns \ {c} : queue'[d] = queue[d] /\ drain'[d] = drain[d] /\ head'[d] = head[d]
    BY <1>1 DEF ProbeExecutes, RunTypes, TypedRun
  <1>3. /\ q \in Seq(Requests) /\ Fit(c, q, phase)
        /\ \A i \in DOMAIN q : i + 1 \in DOMAIN queue[c] /\ q[i] = queue[c][i + 1]
    BY <1>1, ShiftedFits DEF QueueOk
  <1> HIDE DEF q
  <1>4. \A i \in DOMAIN q : q[i] \in Requests \ {r}
    <2>1. \A i \in DOMAIN q : i \in Nat /\ i # 0
      BY <1>3
    <2>2. \A i \in DOMAIN q : q[i] # r
      BY <1>1, <1>3, <2>1 DEF QueueOk
    <2> QED BY <1>3, <2>2
  <1>5. QueueOk(c)'
    BY <1>1, <1>2, <1>3, <1>4 DEF QueueOk, Fit, RunSteps, Of
  <1>6. Elsewhere(c) /\ UNCHANGED <<approval, carried, refused>>
    BY <1>1, <1>2 DEF Elsewhere, Of, ProbeExecutes
  <1>7. Holds(r, "run")' /\ ~Holds(r, "probe")' /\ Holds(r, "probe")
    BY <1>0, <1>1, <1>2 DEF Holds
  <1>8. RequestOk(r)'
    <2>1. at[r] = "waiting" /\ r \notin refused /\ approval[r] = "none" /\ r \notin carried
      BY <1>1, <1>7 DEF RequestOk, RunInv
    <2>2. r \notin refused' /\ approval'[r] = "none" /\ r \notin carried'
      BY <1>6, <2>1
    <2> QED BY <1>2, <1>7, <2>2 DEF RequestOk, RunSteps, TerminalPhases
  <1>9. \A s \in Of(c) \ {r} : RequestOk(s)'
    <2>1. \A s \in Of(c) \ {r} : ~Holds(s, "probe")' /\ ~Holds(s, "run")
      BY <1>1, <1>2 DEF Holds, Of
    <2> QED BY <1>2, <1>6, <2>1 DEF RequestOk, RunInv, Of
  <1>a. \A s \in Of(c) : RequestOk(s)'
    BY <1>8, <1>9
  <1> QED BY <1>5, <1>6, <1>a, OneConnection

LEMMA ProbeFailsRun ==
    ASSUME RunTypes, RunInv, NEW c \in Conns, ProbeFails(c)
    PROVE  RunInv'
  <1> DEFINE r == head[c]
             q == Shifted(c)
  <1>1. QueueOk(c) /\ drain[c] = "probe" /\ r \in Of(c) /\ ConnOf[r] = c /\ r \in Requests
        /\ queue[c] \in Seq(Requests)
    BY DEF RunInv, ProbeFails, QueueOk, Of, RunTypes, TypedRun
  <1>2. /\ Proceed(c, q)
        /\ phase'[r] \in TerminalPhases /\ at'[r] = "done"
        /\ \A s \in Requests \ {r} : phase'[s] = phase[s] /\ at'[s] = at[s]
        /\ UNCHANGED <<approval, carried, refused>>
    BY <1>1 DEF ProbeFails, RunTypes, TypedRun, TerminalPhases
  <1>3. /\ q \in Seq(Requests) /\ Fit(c, q, phase)
        /\ \A i \in DOMAIN q : i + 1 \in DOMAIN queue[c] /\ q[i] = queue[c][i + 1]
    BY <1>1, ShiftedFits DEF QueueOk
  <1> HIDE DEF q
  <1>4. \A i \in DOMAIN q : q[i] # r
    <2>1. \A i \in DOMAIN q : i \in Nat /\ i # 0
      BY <1>3
    <2> QED BY <1>1, <1>3, <2>1 DEF QueueOk
  <1>5. Holds(r, "probe") /\ \A s \in Of(c) : ~Holds(s, "run")
    BY <1>1 DEF Holds, Of
  <1> HIDE DEF r
  <1>6. \A s \in Requests \ {r} : at[s] \in RunSteps => Holds(s, "run")
    BY DEF RunInv, RequestOk
  <1>7. approval[r] = "none" /\ r \notin carried /\ r \notin refused
    BY <1>1, <1>5 DEF RunInv, RequestOk
  <1> QED BY <1>1, <1>2, <1>3, <1>4, <1>5, <1>7, LeavesKeeps

\* The end of an execution keeps a refusal: what was refused is at the catch.
LEMMA FinishRun ==
    ASSUME RunTypes, RunInv, NEW r \in Requests, NEW end \in TerminalPhases, Finish(r, end),
           at[r] \in RunSteps \ {"approval"}, UNCHANGED <<approval, refused>>,
           carried' = carried \/ (at[r] = "act" /\ carried' = carried \cup {r})
    PROVE  RunInv'
  <1>1. QueueOk(ConnOf[r]) /\ queue[ConnOf[r]] \in Seq(Requests) /\ Holds(r, "run") /\ RequestOk(r)
    BY DEF RunTypes, TypedRun, RunInv, RequestOk
  <1>2. /\ phase'[r] = IF Alive(r) THEN end ELSE phase[r]
        /\ at'[r] = "done"
        /\ \A s \in Requests \ {r} : phase'[s] = phase[s] /\ at'[s] = at[s]
        /\ Proceed(ConnOf[r], queue[ConnOf[r]])
    BY DEF Finish, RunTypes, TypedRun
  <1>3. phase[r] # "none" /\ phase[r] # "queued" /\ approval[r] = "none"
    BY <1>1 DEF RequestOk, RunSteps
  <1>4. phase'[r] \in TerminalPhases
    BY <1>2, <1>3 DEF Alive
  <1>5. \A i \in DOMAIN queue[ConnOf[r]] : queue[ConnOf[r]][i] # r
    BY <1>1, <1>3 DEF QueueOk, Fit
  <1>6. \A s \in Of(ConnOf[r]) \ {r} : ~Holds(s, "run")
    BY <1>1 DEF Holds, Of
  <1>7. r \in refused => r \notin carried'
    BY <1>1 DEF RequestOk
  <1>8. carried \subseteq carried' /\ carried' \subseteq carried \cup {r}
    OBVIOUS
  <1>9. Fit(ConnOf[r], queue[ConnOf[r]], phase)
    BY <1>1 DEF QueueOk
  <1> QED BY <1>1, <1>2, <1>3, <1>4, <1>5, <1>6, <1>7, <1>8, <1>9, LeavesKeeps

\* A step of an execution to another await.
LEMMA GoesRun ==
    ASSUME RunTypes, RunInv, NEW r \in Requests, NEW step \in RunSteps, Goes(r, step),
           at[r] \in RunSteps, step # "approval", at[r] = "approval" => phase[r] # "confirming",
           UNCHANGED refused, approval' = [approval EXCEPT ![r] = "none"],
           carried' \in {carried, carried \cup {r}},
           r \in carried' => step \in {"submitting", "outcome", "caught"},
           r \in refused => step = "caught" /\ r \notin carried'
    PROVE  RunInv'
  <1>1. /\ at'[r] = step
        /\ \A s \in Requests \ {r} : at'[s] = at[s] /\ approval'[s] = approval[s]
        /\ UNCHANGED <<phase, queue, drain, head>>
        /\ approval'[r] = "none"
    BY DEF Goes, RunTypes, TypedRun
  <1>2. RequestOk(r) /\ Holds(r, "run") /\ ~Holds(r, "probe")
    BY DEF RunInv, RequestOk, Holds
  <1>3. RequestOk(r)'
    BY <1>1, <1>2 DEF RequestOk, RunSteps, TerminalPhases, Holds
  <1>4. \A s \in Requests \ {r} : (s \in carried' <=> s \in carried) /\ (s \in refused' <=> s \in refused)
    OBVIOUS
  <1> QED BY <1>1, <1>2, <1>3, <1>4, OneRequest DEF RequestOk

\* A decision on the record of r that is not queued.
LEMMA CancelRun ==
    ASSUME RunTypes, RunInv, NEW r \in Requests, Cancel(r)
    PROVE  RunInv'
  <1>c. PICK c \in Conns : c = ConnOf[r]
    BY DEF RunTypes
  <1>0. RequestOk(r) /\ QueueOk(c) /\ queue[c] \in Seq(Requests)
    BY DEF RunTypes, TypedRun, RunInv
  <1>1. /\ phase'[r] = "rejected"
        /\ approval'[r] = IF approval[r] = "asked" THEN "no" ELSE approval[r]
        /\ \A s \in Requests \ {r} :
              /\ phase'[s] = phase[s] /\ at'[s] = at[s] /\ approval'[s] = approval[s]
              /\ (s \in carried' <=> s \in carried) /\ (s \in refused' <=> s \in refused)
        /\ UNCHANGED <<drain, head, at, carried>>
        /\ r \in refused' => r \in refused \/ phase[r] \in {"accepting", "confirming"}
    BY DEF Cancel, Cancellable, RunTypes, TypedRun
  <1>2. CASE phase[r] # "queued"
    <2>1. UNCHANGED queue /\ phase[r] \in {"accepting", "confirming"}
      BY <1>2 DEF Cancel, Cancellable
    <2>2. RequestOk(r)'
      BY <1>0, <1>1, <2>1 DEF RequestOk, RunSteps, TerminalPhases, Holds
    <2>3. Holds(r, "run") => at'[r] \in RunSteps
      BY <1>0, <1>c, <1>1 DEF QueueOk, Holds
    <2> QED BY <1>1, <1>2, <2>1, <2>2, <2>3, OneRequest
  <1>3. CASE phase[r] = "queued"
    <2> DEFINE q == Without(queue[c], r)
    <2>1. queue' = [queue EXCEPT ![c] = q] /\ refused' = refused
      BY <1>3, <1>c DEF Cancel
    <2>2. queue'[c] = q /\ \A d \in Conns \ {c} : queue'[d] = queue[d]
      BY <1>0, <2>1 DEF RunTypes, TypedRun
    <2>a. \A i \in DOMAIN queue[c] : queue[c][i] # r => phase'[queue[c][i]] = phase[queue[c][i]]
      BY <1>0, <1>1
    <2>3. q \in Seq(Requests) /\ Fit(c, q, phase') /\ TakenOut(q, queue[c], r)
      <3>1. Fit(c, queue[c], phase)
        BY <1>0 DEF QueueOk
      <3> QED BY <1>0, <2>a, <3>1, WithoutFits
    <2>4. RequestOk(r)'
      BY <1>0, <1>1, <1>3, <2>1 DEF RequestOk, RunSteps, TerminalPhases, Holds
    <2>5. Elsewhere(c)
      BY <1>c, <1>1, <2>2 DEF Elsewhere, Of
    <2>6. \A s \in Of(c) \ {r} : RequestOk(s)'
      BY <1>1 DEF RequestOk, RunInv, Of, Holds
    <2> HIDE DEF q
    <2>7. \A i \in DOMAIN q : q[i] = head[c] /\ drain[c] = "probe" => i = 1
      <3> SUFFICES ASSUME NEW i \in DOMAIN q, q[i] = head[c], drain[c] = "probe", i # 1 PROVE FALSE
        OBVIOUS
      <3>1. \A j \in DOMAIN queue[c] : queue[c][j] = head[c] => j = 1
        BY <1>0 DEF QueueOk
      <3>2. i + 1 \in DOMAIN queue[c] /\ q[i] = queue[c][i + 1] /\ \E j \in 1 .. i : queue[c][j] = r
        BY <2>3, <3>1 DEF TakenOut
      <3>3. i + 1 = 1 /\ i \in Nat
        BY <2>3, <3>1, <3>2
      <3> QED BY <2>3, <3>2, <3>3
    <2>8. QueueOk(c)'
      BY <1>0, <1>1, <2>2, <2>3, <2>7 DEF QueueOk, Of
    <2>9. \A s \in Of(c) : RequestOk(s)'
      BY <2>4, <2>6
    <2> QED BY <1>0, <2>5, <2>8, <2>9, OneConnection
  <1> QED BY <1>2, <1>3

\* A connection that ends closes the records of its requests; what runs goes on.
LEMMA PauseRun ==
    ASSUME RunTypes, RunInv, NEW c \in Conns, Pause(c)
    PROVE  RunInv'
  <1>1. /\ queue'[c] = <<>>
        /\ drain[c] = "probe" => drain'[c] = "idle" /\ head'[c] = None
        /\ drain[c] # "probe" => drain'[c] = drain[c] /\ head'[c] = head[c]
        /\ \A d \in Conns \ {c} : queue'[d] = queue[d] /\ drain'[d] = drain[d] /\ head'[d] = head[d]
        /\ UNCHANGED <<at, carried, refused>>
    BY DEF Pause, RunTypes, TypedRun
  <1>2. \A r \in Of(c) : /\ phase'[r] = IF Alive(r) THEN "rejected" ELSE phase[r]
                         /\ approval'[r] = IF Alive(r) /\ approval[r] = "asked" THEN "no" ELSE approval[r]
    BY DEF Pause, Of
  <1>3. \A r \in Requests \ Of(c) : phase'[r] = phase[r] /\ approval'[r] = approval[r]
    BY DEF Pause
  <1>4. QueueOk(c)'
    BY <1>1 DEF QueueOk, Fit, RunInv, Of
  <1>5. Elsewhere(c)
    BY <1>1, <1>3 DEF Elsewhere
  <1>6. \A r \in Of(c) : RequestOk(r)'
    <2> SUFFICES ASSUME NEW r \in Of(c) PROVE RequestOk(r)'
      OBVIOUS
    <2>1. ~Holds(r, "probe")' /\ (Holds(r, "run") => Holds(r, "run")') /\ r \in Requests
      BY <1>1 DEF Holds, Of, RunTypes
    <2>2. phase'[r] \in {"none"} \cup TerminalPhases
      BY <1>2, <2>1 DEF Alive, TerminalPhases
    <2>3. RequestOk(r)
      BY <2>1 DEF RunInv
    <2>4. phase'[r] = "none" => phase[r] = "none"
      BY <1>2 DEF Alive
    <2>5. approval'[r] = IF Alive(r) /\ approval[r] = "asked" THEN "no" ELSE approval[r]
      BY <1>2
    <2>6. r \in refused => phase'[r] \in TerminalPhases
      BY <1>2, <2>3 DEF RequestOk, TerminalPhases, Alive
    <2> QED BY <1>1, <2>1, <2>2, <2>3, <2>4, <2>5, <2>6 DEF RequestOk, TerminalPhases
  <1> QED BY <1>4, <1>5, <1>6, OneConnection

\* With its page a connection's executions are gone.
LEMMA PageGoneRun ==
    ASSUME RunTypes, RunInv, NEW c \in Conns, PageGone(c)
    PROVE  RunInv'
  <1>1. /\ queue'[c] = <<>> /\ drain'[c] = "idle" /\ head'[c] = None
        /\ \A d \in Conns \ {c} : queue'[d] = queue[d] /\ drain'[d] = drain[d] /\ head'[d] = head[d]
        /\ UNCHANGED <<carried, refused>>
    BY DEF PageGone, RunTypes, TypedRun
  <1>2. \A r \in Of(c) : /\ phase'[r] = IF Alive(r) THEN "rejected" ELSE phase[r]
                         /\ at'[r] = "done" /\ approval'[r] = "none"
    BY DEF PageGone, Of
  <1>3. \A r \in Requests \ Of(c) : phase'[r] = phase[r] /\ approval'[r] = approval[r] /\ at'[r] = at[r]
    BY DEF PageGone
  <1>4. QueueOk(c)'
    BY <1>1 DEF QueueOk, Fit, Of
  <1>5. Elsewhere(c)
    BY <1>1, <1>3 DEF Elsewhere
  <1>6. \A r \in Of(c) : RequestOk(r)'
    <2> SUFFICES ASSUME NEW r \in Of(c) PROVE RequestOk(r)'
      OBVIOUS
    <2>1. ~Holds(r, "probe")' /\ r \in Requests
      BY <1>1 DEF Holds, Of, RunTypes
    <2>2. phase'[r] \in {"none"} \cup TerminalPhases
      BY <1>2, <2>1 DEF Alive, TerminalPhases
    <2>3. RequestOk(r)
      BY <2>1 DEF RunInv
    <2>4. r \in refused => phase'[r] \in TerminalPhases
      BY <1>2, <2>3 DEF RequestOk, TerminalPhases, Alive
    <2> QED BY <1>1, <1>2, <2>1, <2>2, <2>3, <2>4 DEF RequestOk, TerminalPhases, RunSteps
  <1> QED BY <1>4, <1>5, <1>6, OneConnection

\* The arrival of a request and its check.
LEMMA ArrivalRun ==
    ASSUME RunTypes, RunInv, NEW r \in Requests, Accept(r) \/ Checked(r) \/ CheckFails(r)
    PROVE  RunInv'
  <1>1. RequestOk(r) /\ (Holds(r, "run") => at[r] \in RunSteps)
    BY DEF RunInv, QueueOk, RunTypes, Holds
  <1>2. CASE Accept(r)
    <2>1. /\ phase'[r] = "accepting" /\ at'[r] = "checking"
          /\ \A s \in Requests \ {r} : phase'[s] = phase[s] /\ at'[s] = at[s]
          /\ UNCHANGED <<queue, drain, head, approval, carried, refused>>
      BY <1>2 DEF Accept, RunTypes, TypedRun
    <2>2. phase[r] = "none" /\ at[r] = "off"
      BY <1>2 DEF Accept
    <2>3. RequestOk(r)'
      BY <1>1, <2>1, <2>2 DEF RequestOk, Holds, RunSteps, TerminalPhases
    <2> QED BY <1>1, <2>1, <2>2, <2>3, OneRequest DEF RunSteps
  <1>3. ASSUME at[r] = "checking", at' = [at EXCEPT ![r] = "waiting"], UNCHANGED <<queue, drain, head>>,
               UNCHANGED <<approval, carried, refused>>,
               \/ ~Alive(r) /\ UNCHANGED phase
               \/ phase' = [phase EXCEPT ![r] = "confirming"] /\ Alive(r)
               \/ phase' = [phase EXCEPT ![r] = "failed"]
        PROVE  RunInv'
    <2>1. /\ at'[r] = "waiting"
          /\ \A s \in Requests \ {r} : phase'[s] = phase[s] /\ at'[s] = at[s]
          /\ \/ ~Alive(r) /\ phase'[r] = phase[r]
             \/ phase'[r] = "confirming" /\ Alive(r)
             \/ phase'[r] = "failed"
      BY <1>3 DEF RunTypes, TypedRun
    <2>2. phase[r] \notin {"none", "queued", "confirming"} /\ ~Holds(r, "run") /\ ~Holds(r, "probe")
      BY <1>1, <1>3 DEF RequestOk, RunSteps
    <2>3. RequestOk(r)'
      BY <1>1, <1>3, <2>1, <2>2 DEF RequestOk, Holds, RunSteps, TerminalPhases, Alive
    <2> QED BY <1>3, <2>1, <2>2, <2>3, OneRequest
  <1>4. CASE Checked(r) /\ Alive(r) /\ Push(r)
    <2>1. /\ at' = [at EXCEPT ![r] = "waiting"] /\ UNCHANGED <<approval, carried, refused>>
          /\ at[r] = "checking"
      BY <1>4 DEF Checked
    <2>2. phase[r] # "queued" /\ ~Holds(r, "probe") /\ approval[r] = "none" /\ r \notin carried
          /\ r \notin refused
      BY <1>1, <1>4, <2>1 DEF RequestOk, Alive
    <2>3. at'[r] = "waiting" /\ at[r] \notin RunSteps
      BY <2>1 DEF RunTypes, TypedRun, RunSteps
    <2> QED BY <1>4, <2>1, <2>2, <2>3, PushKeeps
  <1> QED BY <1>2, <1>3, <1>4 DEF Checked, CheckFails

\* A confirmation is given to a request that waits for one.
LEMMA ApproveRun ==
    ASSUME RunTypes, RunInv, NEW r \in Requests, Approve(r), phase[r] = "confirming",
           UNCHANGED <<at, carried, refused>>
    PROVE  RunInv'
  <1>1. RequestOk(r) /\ r \notin refused
    BY DEF RunInv, RequestOk, TerminalPhases
  <1>2. CASE approval[r] = "asked"
    <2>1. /\ approval'[r] = "yes" /\ phase'[r] = "executing" /\ UNCHANGED <<queue, drain, head>>
          /\ \A s \in Requests \ {r} : phase'[s] = phase[s] /\ approval'[s] = approval[s]
      BY <1>2 DEF Approve, RunTypes, TypedRun
    <2>2. at[r] = "approval" /\ r \notin carried
      BY <1>1, <1>2 DEF RequestOk
    <2>3. RequestOk(r)'
      BY <1>1, <2>1, <2>2 DEF RequestOk, Holds, TerminalPhases
    <2> QED BY <2>1, <2>2, <2>3, OneRequest DEF RunSteps
  <1>3. CASE approval[r] # "asked"
    <2>1. Push(r) /\ UNCHANGED approval
      BY <1>3 DEF Approve
    <2>2. at[r] = "waiting" /\ ~Holds(r, "probe") /\ approval[r] = "none" /\ r \notin carried
      BY <1>1, <1>3 DEF RequestOk
    <2> QED BY <1>1, <2>1, <2>2, PushKeeps DEF RunSteps
  <1> QED BY <1>2, <1>3

\* The timer refuses a request that waits for a confirmation.
LEMMA TimeoutRun ==
    ASSUME RunTypes, RunInv, NEW r \in Requests, Timeout(r)
    PROVE  RunInv'
  <1>1. RequestOk(r) /\ phase[r] = "confirming"
    BY DEF RunInv, Timeout
  <1>2. /\ phase'[r] = "timed_out" /\ approval'[r] = IF approval[r] = "asked" THEN "no" ELSE approval[r]
        /\ \A s \in Requests \ {r} :
               phase'[s] = phase[s] /\ approval'[s] = approval[s] /\ (s \in refused' <=> s \in refused)
        /\ UNCHANGED <<queue, drain, head, at, carried>>
    BY DEF Timeout, RunTypes, TypedRun
  <1>3. RequestOk(r)' /\ (Holds(r, "run") => at'[r] \in RunSteps)
    BY <1>1, <1>2 DEF RequestOk, Holds, TerminalPhases, RunInv, QueueOk, RunTypes
  <1> QED BY <1>1, <1>2, <1>3, OneRequest

\* The plan is stored: it is submitted, or the user is asked for it.
LEMMA StorePlanRun ==
    ASSUME RunTypes, RunInv, NEW r \in Requests, StorePlan(r)
    PROVE  RunInv'
  <1>1. RequestOk(r) /\ at[r] = "plan" /\ UNCHANGED refused
    BY DEF RunInv, StorePlan
  <1>2. approval[r] = "none" /\ r \notin refused
    BY <1>1 DEF RequestOk
  <1>3. CASE Submit(r) /\ UNCHANGED approval
    <2>1. approval' = [approval EXCEPT ![r] = "none"]
      BY <1>2, <1>3 DEF RunTypes
    <2> QED BY <1>1, <1>2, <1>3, <2>1, GoesRun DEF Submit, RunSteps
  <1>4. CASE at' = [at EXCEPT ![r] = "approval"] /\ phase' = [phase EXCEPT ![r] = "confirming"]
             /\ approval' = [approval EXCEPT ![r] = "asked"] /\ UNCHANGED <<queue, drain, head, carried>>
    <2>1. /\ phase'[r] = "confirming" /\ at'[r] = "approval" /\ approval'[r] = "asked"
          /\ \A s \in Requests \ {r} : phase'[s] = phase[s] /\ at'[s] = at[s] /\ approval'[s] = approval[s]
      BY <1>4 DEF RunTypes, TypedRun
    <2>2. RequestOk(r)' /\ phase[r] # "queued"
      BY <1>1, <1>2, <1>4, <2>1 DEF RequestOk, Holds, TerminalPhases, RunSteps
    <2> QED BY <1>1, <1>4, <2>1, <2>2, OneRequest DEF RunSteps
  <1> QED BY <1>3, <1>4 DEF StorePlan

\* A step of an execution that does not wait for an approval.
LEMMA StepRun ==
    ASSUME RunTypes, RunInv, NEW r \in Requests, NEW step \in RunSteps \ {"approval", "submitting"},
           Goes(r, step),
           at[r] \in RunSteps \ {"approval", "caught"}, UNCHANGED <<approval, carried, refused>>,
           at[r] \in {"submitting", "outcome"} => step \in {"outcome", "caught"}
    PROVE  RunInv'
  <1>1. RequestOk(r)
    BY DEF RunInv
  <1>3. approval' = [approval EXCEPT ![r] = "none"]
    BY <1>1 DEF RequestOk, RunTypes
  <1>4. r \in carried' => step \in {"submitting", "outcome", "caught"}
    BY <1>1 DEF RequestOk, RunSteps
  <1>5. r \notin refused
    BY <1>1 DEF RequestOk, RunSteps
  <1> QED BY <1>3, <1>4, <1>5, GoesRun

LEMMA ExecutingRun ==
    ASSUME RunTypes, RunInv, NEW r \in Requests, Executing(r)
    PROVE  RunInv'
  <1>1. RequestOk(r)
    BY DEF RunInv
  <1>2. CASE RunFails(r)
    BY <1>2, FinishRun DEF RunFails, RunSteps, TerminalPhases
  <1>3. CASE Sign(r)
    BY <1>3, FinishRun DEF Sign, RunSteps, TerminalPhases
  <1>4. CASE ReadClaim(r) \/ CommitClaim(r) \/ PayFails(r) \/ Prepare(r) \/ SubmitAnswered(r)
             \/ OutcomeLost(r)
    <2>1. PICK step \in RunSteps \ {"approval", "submitting"} :
              Goes(r, step) /\ (at[r] \in {"submitting", "outcome"} => step \in {"outcome", "caught"})
      BY <1>4 DEF ReadClaim, CommitClaim, PayFails, Prepare, SubmitAnswered, OutcomeLost, Caught,
           RunSteps
    <2>2. at[r] \in RunSteps \ {"approval", "caught"} /\ UNCHANGED <<approval, carried, refused>>
      BY <1>4 DEF ReadClaim, CommitClaim, PayFails, Prepare, SubmitAnswered, OutcomeLost, RunSteps
    <2> QED BY <2>1, <2>2, StepRun
  <1>5. CASE StorePlan(r)
    BY <1>5, StorePlanRun
  <1>6. CASE Approved(r)
    <2>1. Goes(r, "submitting") /\ at[r] = "approval" /\ phase[r] # "confirming" /\ r \notin refused
      BY <1>1, <1>6 DEF Approved, Submit, RequestOk
    <2> QED BY <1>6, <2>1, GoesRun DEF Approved, Submit, RunSteps
  <1>7. CASE Refused(r)
    <2>1. Goes(r, "caught") /\ at[r] = "approval" /\ phase[r] # "confirming" /\ r \notin carried
      BY <1>1, <1>7 DEF Refused, Caught, RequestOk
    <2> QED BY <1>7, <2>1, GoesRun DEF Refused, RunSteps
  <1>8. CASE RecordOutcome(r)
    BY <1>8, FinishRun DEF RecordOutcome, RunSteps, TerminalPhases
  <1>9. CASE RecordLookup(r)
    BY <1>9, FinishRun DEF RecordLookup, RunSteps, TerminalPhases
  <1>10. CASE Lookup(r)
    <2>1. at[r] = "lookup" /\ UNCHANGED <<approval, carried, refused>>
      BY <1>10 DEF Lookup
    <2>2. CASE Finish(r, "approved")
      BY <2>1, <2>2, FinishRun DEF RunSteps, TerminalPhases
    <2>3. CASE Goes(r, "merge")
      BY <2>1, <2>3, StepRun DEF RunSteps
    <2> QED BY <1>10, <2>2, <2>3 DEF Lookup
  <1> QED BY <1>2, <1>3, <1>4, <1>5, <1>6, <1>7, <1>8, <1>9, <1>10 DEF Executing

\* A refused request stays refused, whatever happens.
LEMMA RunKeeps ==
    ASSUME RunTypes, RunInv, [Next]_vars
    PROVE  RunInv'
  <1>1. ASSUME NEW r \in Requests, Deciding(r) PROVE RunInv'
    <2>1. CASE Checked(r) \/ CheckFails(r)
      BY <2>1, ArrivalRun
    <2>2. CASE RememberRead(r)
      BY <2>2, RunFrame DEF RememberRead
    <2>3. CASE RememberWritten(r)
      <3>1. CASE phase[r] = "confirming" /\ Approve(r)
        BY <2>3, <3>1, ApproveRun DEF RememberWritten
      <3>2. CASE UNCHANGED <<approval, phase, queue, drain, head>>
        BY <2>3, <3>2, RunFrame DEF RememberWritten, runVars
      <3> QED BY <2>3, <3>1, <3>2 DEF RememberWritten
    <2> QED BY <1>1, <2>1, <2>2, <2>3 DEF Deciding
  <1>2. ASSUME NEW r \in Requests, Users(r) PROVE RunInv'
    <2>1. CASE Confirm(r)
      BY <2>1, ApproveRun DEF Confirm
    <2>2. CASE ConfirmAndRemember(r)
      BY <2>2, RunFrame DEF ConfirmAndRemember
    <2> QED BY <1>2, <2>1, <2>2, ArrivalRun, CancelRun DEF Users
  <1>3. ASSUME NEW r \in Requests, Processes(r) \/ Expires(r) \/ Observed(r) PROVE RunInv'
    BY <1>3, RunFrame DEF Processes, Expires, Observed, Becomes
  <1>4. ASSUME NEW kind, Revoke(kind) PROVE RunInv'
    BY <1>4, RunFrame DEF Revoke
  <1>5. CASE Lock
    BY <1>5, RunFrame DEF Lock
  <1>6. CASE UNCHANGED vars
    BY <1>6, RunFrame DEF vars
  <1>7. ASSUME NEW c \in Conns, Probing(c) \/ Pause(c) \/ PageGone(c) PROVE RunInv'
    BY <1>7, ProbeExecutesRun, ProbeFailsRun, PauseRun, PageGoneRun DEF Probing
  <1> QED BY <1>1, <1>2, <1>3, <1>4, <1>5, <1>6, <1>7, TimeoutRun, ExecutingRun DEF Next, System

-----------------------------------------------------------------------------
(* Type correctness.                                                       *)

TypedUsers ==
    /\ conn \in [Conns -> {"live", "stale", "ended"}]
    /\ troubles \in 0 .. MaxTroubles
    /\ approval \in [Requests -> {"none", "asked", "yes", "no"}]
    /\ remember \in [Requests -> {"no", "reading", "writing"}]
    /\ perm \subseteq {"pay", "sign"}
    /\ carried \subseteq Requests
    /\ refused \subseteq Requests

TypedPay ==
    /\ status \in [Keys -> Statuses]
    /\ claimant \in [Keys -> Requests \cup {None}]
    /\ fresh \in [Requests -> BOOLEAN]
    /\ tx \in [Requests -> RowStates]
    /\ got \in [Requests -> Statuses]
    /\ posted \subseteq Requests

LEMMA TypesInParts == ConnectTypeOK <=> TypedRun /\ TypedUsers /\ TypedPay
  BY DEF ConnectTypeOK, TypedRun, TypedUsers, TypedPay

\* An execution keeps the types of the queues and records.
LEMMA ExecutingTyped ==
    ASSUME TypedRun, NEW r \in Requests, Executing(r)
    PROVE  TypedRun'
  <1>1. ConnOf[r] \in Conns
    BY RequestsAssumption
  <1>2. ASSUME NEW end \in TerminalPhases, Finish(r, end) PROVE TypedRun'
    BY <1>1, <1>2, FinishTyped
  <1>3. ASSUME NEW step \in RunSteps, Goes(r, step) PROVE TypedRun'
    BY <1>3, GoesTyped
  <1>4. CASE RunFails(r) \/ Sign(r) \/ RecordOutcome(r) \/ RecordLookup(r)
    BY <1>2, <1>4 DEF RunFails, Sign, RecordOutcome, RecordLookup, TerminalPhases
  <1>5. CASE ReadClaim(r) \/ CommitClaim(r) \/ PayFails(r) \/ Prepare(r) \/ SubmitAnswered(r)
             \/ OutcomeLost(r)
    BY <1>3, <1>5 DEF ReadClaim, CommitClaim, PayFails, Prepare, SubmitAnswered, OutcomeLost, Caught,
         RunSteps
  <1>6. CASE Approved(r) \/ Refused(r)
    BY <1>3, <1>6 DEF Approved, Refused, Submit, Caught, RunSteps
  <1>7. CASE StorePlan(r)
    <2>1. CASE Submit(r)
      BY <1>3, <2>1 DEF Submit, RunSteps
    <2>2. CASE at' = [at EXCEPT ![r] = "approval"] /\ phase' = [phase EXCEPT ![r] = "confirming"]
               /\ UNCHANGED <<queue, drain, head>>
      BY <2>2 DEF TypedRun, RunSteps, Phases
    <2> QED BY <1>7, <2>1, <2>2 DEF StorePlan
  <1>8. CASE Lookup(r)
    BY <1>2, <1>3, <1>8 DEF Lookup, TerminalPhases, RunSteps
  <1> QED BY <1>4, <1>5, <1>6, <1>7, <1>8 DEF Executing

LEMMA RunTyped ==
    ASSUME TypedRun, [Next]_vars
    PROVE  TypedRun'
  <1>1. \A r \in Requests : ConnOf[r] \in Conns
    BY RequestsAssumption
  <1>2. CASE UNCHANGED runVars
    BY <1>2 DEF runVars, TypedRun
  <1>3. ASSUME NEW c \in Conns PROVE Shifted(c) \in Seq(Requests)
    BY <1>3 DEF Shifted, TypedRun
  <1>4. ASSUME NEW c \in Conns, ProbeExecutes(c) PROVE TypedRun'
    <2>1. queue' \in [Conns -> Seq(Requests)]
      BY <1>3, <1>4 DEF ProbeExecutes, TypedRun
    <2>2. phase' \in [Requests -> Phases]
      BY <1>4 DEF ProbeExecutes, TypedRun, Phases
    <2>3. at' \in [Requests -> {"off", "checking", "waiting", "done"} \cup RunSteps]
      BY <1>4 DEF ProbeExecutes, TypedRun, RunSteps
    <2> QED BY <1>4, <2>1, <2>2, <2>3 DEF ProbeExecutes, TypedRun
  <1>5. ASSUME NEW c \in Conns, ProbeFails(c) PROVE TypedRun'
    <2>1. phase' \in [Requests -> Phases]
          /\ at' \in [Requests -> {"off", "checking", "waiting", "done"} \cup RunSteps]
      BY <1>5 DEF ProbeFails, TypedRun, Phases, TerminalPhases
    <2> QED BY <1>3, <1>5, <2>1, ProceedTyped DEF ProbeFails, TypedRun
  <1>6. ASSUME NEW c \in Conns, Pause(c) PROVE TypedRun'
    <2>1. phase' \in [Requests -> Phases]
      BY <1>6 DEF Pause, TypedRun, Phases, TerminalPhases
    <2>2. drain' \in [Conns -> {"idle", "probe", "run"}] /\ head' \in [Conns -> Requests \cup {None}]
      BY <1>6 DEF Pause, TypedRun
    <2>3. queue' \in [Conns -> Seq(Requests)] /\ UNCHANGED at
      BY <1>6 DEF Pause, TypedRun
    <2> QED BY <2>1, <2>2, <2>3 DEF TypedRun
  <1>7. ASSUME NEW c \in Conns, PageGone(c) PROVE TypedRun'
    <2>1. phase' \in [Requests -> Phases]
          /\ at' \in [Requests -> {"off", "checking", "waiting", "done"} \cup RunSteps]
      BY <1>7 DEF PageGone, TypedRun, Phases, TerminalPhases
    <2>2. drain' \in [Conns -> {"idle", "probe", "run"}] /\ head' \in [Conns -> Requests \cup {None}]
      BY <1>7 DEF PageGone, TypedRun
    <2>3. queue' \in [Conns -> Seq(Requests)]
      BY <1>7 DEF PageGone, TypedRun
    <2> QED BY <2>1, <2>2, <2>3 DEF TypedRun
  <1>8. ASSUME NEW r \in Requests, Accept(r) \/ Checked(r) \/ CheckFails(r) PROVE TypedRun'
    <2>1. at' \in [Requests -> {"off", "checking", "waiting", "done"} \cup RunSteps]
      BY <1>8 DEF Accept, Checked, CheckFails, TypedRun
    <2>2. CASE Push(r)
      BY <1>1, <2>1, <2>2, PushTyped
    <2>3. CASE phase' \in [Requests -> Phases] /\ UNCHANGED <<queue, drain, head>>
      BY <2>1, <2>3 DEF TypedRun
    <2>4. Push(r) \/ (phase' \in [Requests -> Phases] /\ UNCHANGED <<queue, drain, head>>)
      BY <1>8 DEF Accept, Checked, CheckFails, TypedRun, Phases, TerminalPhases
    <2> QED BY <2>2, <2>3, <2>4
  <1>9. ASSUME NEW r \in Requests, Approve(r), UNCHANGED at PROVE TypedRun'
    <2>1. CASE Push(r)
      BY <1>1, <1>9, <2>1, PushTyped DEF TypedRun
    <2>2. CASE ~Push(r)
      BY <1>9, <2>2 DEF Approve, TypedRun, Phases
    <2> QED BY <2>1, <2>2
  <1>10. ASSUME NEW r \in Requests, RememberRead(r) \/ RememberWritten(r) PROVE TypedRun'
    BY <1>2, <1>9, <1>10 DEF RememberRead, RememberWritten, runVars
  <1>11. ASSUME NEW r \in Requests, Timeout(r) \/ Cancel(r) PROVE TypedRun'
    <2>1. phase' \in [Requests -> Phases] /\ UNCHANGED <<at, drain, head>>
      BY <1>11 DEF Timeout, Cancel, TypedRun, Phases, TerminalPhases
    <2>2. queue[ConnOf[r]] \in Seq(Requests) /\ ConnOf[r] \in Conns
      BY <1>1 DEF TypedRun
    <2>3. Without(queue[ConnOf[r]], r) \in Seq(Requests)
      BY <2>2, WithoutTyped
    <2>4. queue' \in {queue, [queue EXCEPT ![ConnOf[r]] = Without(queue[ConnOf[r]], r)]}
      BY <1>11 DEF Timeout, Cancel
    <2> QED BY <2>1, <2>2, <2>3, <2>4 DEF TypedRun
  <1>12. ASSUME NEW r \in Requests, Users(r) PROVE TypedRun'
    BY <1>2, <1>8, <1>9, <1>11, <1>12 DEF Users, Confirm, ConfirmAndRemember
  <1>13. ASSUME NEW r \in Requests, Processes(r) \/ Expires(r) \/ Observed(r) PROVE TypedRun'
    BY <1>2, <1>13 DEF Processes, Expires, Observed, Becomes
  <1>14. ASSUME NEW kind, Revoke(kind) PROVE TypedRun'
    BY <1>2, <1>14 DEF Revoke
  <1>15. CASE Lock \/ UNCHANGED vars
    BY <1>2, <1>15 DEF Lock, vars, runVars
  <1>16. CASE System
    BY <1>4, <1>5, <1>6, <1>8, <1>10, <1>11, <1>13, <1>16, ExecutingTyped DEF System, Probing, Deciding
  <1> QED BY <1>6, <1>7, <1>12, <1>13, <1>14, <1>15, <1>16 DEF Next

LEMMA UsersTyped ==
    ASSUME TypedUsers, [Next]_vars
    PROVE  TypedUsers'
  <1>1. ASSUME NEW c, Fault(c) \/ Trouble PROVE troubles' \in 0 .. MaxTroubles
    BY <1>1, RequestsAssumption DEF TypedUsers, Fault, Trouble
  <1>2. CASE UNCHANGED <<conn, troubles, approval, remember, perm, carried, refused>>
    BY <1>2 DEF TypedUsers
  <1>3. ASSUME NEW c \in Conns, Probing(c) \/ Pause(c) PROVE TypedUsers'
    <2>1. troubles' \in 0 .. MaxTroubles
      BY <1>1, <1>3 DEF Probing, ProbeExecutes, ProbeFails, Pause, TypedUsers, connVars
    <2>2. conn' \in [Conns -> {"live", "stale", "ended"}]
      BY <1>3 DEF Probing, ProbeExecutes, ProbeFails, Pause, TypedUsers, connVars
    <2>3. approval' \in [Requests -> {"none", "asked", "yes", "no"}]
      BY <1>3 DEF Probing, ProbeExecutes, ProbeFails, Pause, TypedUsers
    <2> QED BY <1>3, <2>1, <2>2, <2>3 DEF Probing, ProbeExecutes, ProbeFails, Pause, TypedUsers
  <1>4. ASSUME NEW c \in Conns, PageGone(c) PROVE TypedUsers'
    <2>1. troubles' \in 0 .. MaxTroubles
      BY <1>1, <1>4 DEF PageGone
    <2>2. conn' \in [Conns -> {"live", "stale", "ended"}]
      BY <1>4 DEF PageGone, TypedUsers
    <2>3. approval' \in [Requests -> {"none", "asked", "yes", "no"}]
      BY <1>4 DEF PageGone, TypedUsers
    <2>4. remember' \in [Requests -> {"no", "reading", "writing"}]
      BY <1>4 DEF PageGone, TypedUsers
    <2> QED BY <1>4, <2>1, <2>2, <2>3, <2>4 DEF PageGone, TypedUsers
  <1>5. ASSUME NEW r \in Requests, Accept(r) \/ Checked(r) \/ RememberRead(r) \/ ConfirmAndRemember(r)
        PROVE  TypedUsers'
    BY <1>5 DEF Accept, Checked, RememberRead, ConfirmAndRemember, TypedUsers, connVars
  <1>6. ASSUME NEW r \in Requests, CheckFails(r) PROVE TypedUsers'
    BY <1>1, <1>6 DEF CheckFails, TypedUsers
  <1>7. ASSUME NEW r \in Requests, Approve(r)
        PROVE  approval' \in [Requests -> {"none", "asked", "yes", "no"}]
    BY <1>7 DEF Approve, TypedUsers
  <1>8. ASSUME NEW r \in Requests, Confirm(r) \/ RememberWritten(r) PROVE TypedUsers'
    <2>1. approval' \in [Requests -> {"none", "asked", "yes", "no"}]
      BY <1>7, <1>8 DEF Confirm, RememberWritten, TypedUsers
    <2>2. remember' \in [Requests -> {"no", "reading", "writing"}]
      BY <1>8 DEF Confirm, RememberWritten, TypedUsers
    <2>3. perm' \subseteq {"pay", "sign"}
      <3>1. Kind[r] \in {"pay", "sign"}
        BY RequestsAssumption
      <3>2. perm' \in {perm, perm \cup {Kind[r]}}
        BY <1>8 DEF Confirm, RememberWritten
      <3> QED BY <3>1, <3>2 DEF TypedUsers
    <2> QED BY <1>8, <2>1, <2>2, <2>3 DEF Confirm, RememberWritten, TypedUsers, connVars
  <1>9. ASSUME NEW r \in Requests, Timeout(r) \/ Cancel(r) PROVE TypedUsers'
    <2>1. approval' \in [Requests -> {"none", "asked", "yes", "no"}]
      BY <1>9 DEF Timeout, Cancel, TypedUsers
    <2>2. refused' \subseteq Requests
      BY <1>9 DEF Timeout, Cancel, TypedUsers
    <2> QED BY <1>9, <2>1, <2>2 DEF Timeout, Cancel, TypedUsers, connVars
  <1>10. ASSUME NEW kind, Revoke(kind) PROVE TypedUsers'
    BY <1>1, <1>10 DEF Revoke, TypedUsers
  <1>11. CASE Lock
    <2>1. troubles' \in 0 .. MaxTroubles
      BY <1>1, <1>11 DEF Lock
    <2>2. conn' \in [Conns -> {"live", "stale", "ended"}]
      BY <1>11 DEF Lock, TypedUsers
    <2> QED BY <1>11, <2>1, <2>2 DEF Lock, TypedUsers
  <1>12. ASSUME NEW r \in Requests, Executing(r) PROVE TypedUsers'
    <2>1. UNCHANGED <<conn, remember, perm, refused>>
      BY <1>12 DEF Executing, RunFails, Sign, ReadClaim, CommitClaim, PayFails, Prepare, StorePlan,
           Approved,
                   Refused, SubmitAnswered, RecordOutcome, OutcomeLost, Lookup, RecordLookup, connVars
    <2>2. troubles' \in 0 .. MaxTroubles
      <3>1. UNCHANGED troubles \/ Fault(ConnOf[r])
        BY <1>12 DEF Executing, RunFails, Sign, ReadClaim, CommitClaim, PayFails, Prepare, StorePlan,
             Approved,
                     Refused, SubmitAnswered, RecordOutcome, OutcomeLost, Lookup, RecordLookup, connVars
      <3> QED BY <1>1, <3>1 DEF TypedUsers
    <2>3. approval' \in [Requests -> {"none", "asked", "yes", "no"}]
      <3>1. \/ UNCHANGED approval
            \/ \E a \in {"none", "asked"} : approval' = [approval EXCEPT ![r] = a]
        BY <1>12 DEF Executing, RunFails, Sign, ReadClaim, CommitClaim, PayFails, Prepare, StorePlan,
             Approved,
                     Refused, SubmitAnswered, RecordOutcome, OutcomeLost, Lookup, RecordLookup
      <3> QED BY <3>1 DEF TypedUsers
    <2>4. carried' \subseteq Requests
      <3>1. carried' \in {carried, carried \cup {r}}
        BY <1>12 DEF Executing, RunFails, Sign, ReadClaim, CommitClaim, PayFails, Prepare, StorePlan,
             Approved,
                     Refused, SubmitAnswered, RecordOutcome, OutcomeLost, Lookup, RecordLookup, Submit
      <3> QED BY <3>1 DEF TypedUsers
    <2> QED BY <2>1, <2>2, <2>3, <2>4 DEF TypedUsers
  <1>13. ASSUME NEW r \in Requests, Processes(r) \/ Expires(r) \/ Observed(r) PROVE TypedUsers'
    BY <1>2, <1>13 DEF Processes, Expires, Observed, Becomes, connVars
  <1>14. CASE UNCHANGED vars
    BY <1>2, <1>14 DEF vars, connVars
  <1>15. ASSUME NEW r \in Requests, Users(r) PROVE TypedUsers'
    BY <1>5, <1>8, <1>9, <1>15 DEF Users
  <1>16. CASE System
    BY <1>3, <1>5, <1>6, <1>8, <1>9, <1>12, <1>13, <1>16 DEF System, Deciding
  <1> QED BY <1>3, <1>4, <1>10, <1>11, <1>13, <1>14, <1>15, <1>16 DEF Next

LEMMA PayTyped ==
    ASSUME TypedPay, [Next]_vars
    PROVE  TypedPay'
  <1>1. CASE UNCHANGED <<payVars, workerVars, got>>
    BY <1>1 DEF payVars, workerVars, TypedPay
  <1>2. ASSUME NEW r \in Requests PROVE KeyOf[r] \in Keys
    BY RequestsAssumption
  <1>3. ASSUME NEW s, RowStatus(s) \notin Statuses PROVE FALSE
    BY <1>3 DEF RowStatus, Statuses, FinalStatuses
  <1>4. ASSUME NEW k \in Keys, NEW s \in Statuses, Store(k, s)
        PROVE  status' \in [Keys -> Statuses] /\ fresh' \in [Requests -> BOOLEAN] /\ UNCHANGED claimant
    BY <1>4 DEF Store, Written, TypedPay
  <1>5. ASSUME NEW r \in Requests, RunFails(r) \/ Sign(r) \/ Approved(r) PROVE TypedPay'
    BY <1>1, <1>5 DEF RunFails, Sign, Approved
  <1>6. ASSUME NEW r \in Requests, ReadClaim(r) PROVE TypedPay'
    BY <1>6 DEF ReadClaim, TypedPay, workerVars
  <1>7. ASSUME NEW r \in Requests, CommitClaim(r) PROVE TypedPay'
    <2>1. status' \in [Keys -> Statuses] /\ fresh' \in [Requests -> BOOLEAN]
      BY <1>7 DEF CommitClaim, Written, TypedPay, payVars, Statuses
    <2>2. claimant' \in [Keys -> Requests \cup {None}]
      BY <1>7 DEF CommitClaim, TypedPay, payVars
    <2> QED BY <1>7, <2>1, <2>2 DEF CommitClaim, TypedPay, workerVars
  <1>8. ASSUME NEW r \in Requests, PayFails(r) \/ Refused(r) \/ OutcomeLost(r) PROVE TypedPay'
    BY <1>8 DEF PayFails, Refused, OutcomeLost, Caught, TypedPay, payVars, workerVars, Statuses,
         FinalStatuses
  <1>9. ASSUME NEW r \in Requests, Prepare(r) PROVE TypedPay'
    BY <1>9 DEF Prepare, TypedPay, payVars, RowStates
  <1>10. ASSUME NEW r \in Requests, StorePlan(r) PROVE TypedPay'
    <2>1. status' \in [Keys -> Statuses] /\ fresh' \in [Requests -> BOOLEAN]
      BY <1>2, <1>10 DEF StorePlan, Written, TypedPay
    <2> QED BY <1>10, <2>1 DEF StorePlan, TypedPay, workerVars
  <1>11. ASSUME NEW r \in Requests, SubmitAnswered(r) PROVE TypedPay'
    BY <1>11 DEF SubmitAnswered, TypedPay, payVars, workerVars, Statuses, FinalStatuses
  <1>12. ASSUME NEW r \in Requests, RecordOutcome(r) \/ RecordLookup(r) PROVE TypedPay'
    <2>1. Store(KeyOf[r], got[r]) \/ UNCHANGED payVars
      BY <1>12 DEF RecordOutcome, RecordLookup
    <2>2. got[r] \in Statuses /\ got' \in [Requests -> Statuses]
      BY <1>12 DEF RecordOutcome, RecordLookup, TypedPay, Statuses
    <2>3. status' \in [Keys -> Statuses] /\ fresh' \in [Requests -> BOOLEAN] /\ UNCHANGED claimant
      BY <1>2, <1>4, <2>1, <2>2 DEF payVars, TypedPay
    <2>4. UNCHANGED workerVars
      BY <1>12 DEF RecordOutcome, RecordLookup
    <2> QED BY <2>2, <2>3, <2>4 DEF TypedPay, workerVars
  <1>13. ASSUME NEW r \in Requests, Lookup(r) PROVE TypedPay'
    <2>1. got' = got \/ got' = [got EXCEPT ![r] = RowStatus(tx[claimant[KeyOf[r]]])]
      BY <1>13 DEF Lookup
    <2>2. got' \in [Requests -> Statuses]
      BY <1>3, <2>1 DEF TypedPay
    <2> QED BY <1>13, <2>2 DEF Lookup, TypedPay, payVars, workerVars
  <1>14. ASSUME NEW r \in Requests, NEW s \in RowStates, Becomes(r, s),
                posted' \in {posted, posted \cup {r}}
         PROVE  TypedPay'
    BY <1>14 DEF Becomes, TypedPay, payVars
  <1>15. ASSUME NEW r \in Requests, Processes(r) \/ Expires(r) \/ Observed(r) PROVE TypedPay'
    <2>1. PICK s \in RowStates : Becomes(r, s)
      BY <1>15 DEF Processes, Expires, Observed, RowStates
    <2>2. posted' \in {posted, posted \cup {r}}
      BY <1>15 DEF Processes, Expires, Observed
    <2> QED BY <1>14, <2>1, <2>2
  <1>16. ASSUME NEW c \in Conns, Probing(c) \/ Pause(c) \/ PageGone(c) PROVE TypedPay'
    BY <1>1, <1>16 DEF Probing, ProbeExecutes, ProbeFails, Pause, PageGone
  <1>17. ASSUME NEW r \in Requests, Deciding(r) \/ Timeout(r) \/ Users(r) PROVE TypedPay'
    BY <1>1, <1>17 DEF Deciding, Checked, CheckFails, RememberRead, RememberWritten, Timeout, Users,
         Accept,
                       Confirm, ConfirmAndRemember, Cancel
  <1>18. ASSUME NEW kind, Revoke(kind) PROVE TypedPay'
    BY <1>1, <1>18 DEF Revoke
  <1>19. CASE Lock
    BY <1>19 DEF Lock, TypedPay, payVars, RowStates
  <1>20. CASE UNCHANGED vars
    BY <1>1, <1>20 DEF vars
  <1>21. ASSUME NEW r \in Requests, Executing(r) PROVE TypedPay'
    BY <1>5, <1>6, <1>7, <1>8, <1>9, <1>10, <1>11, <1>12, <1>13, <1>21 DEF Executing
  <1> QED BY <1>15, <1>16, <1>17, <1>18, <1>19, <1>20, <1>21 DEF Next, System

LEMMA ConnectTyped ==
    ASSUME ConnectTypeOK, [Next]_vars
    PROVE  ConnectTypeOK'
  BY TypesInParts, RunTyped, UsersTyped, PayTyped DEF ConnectTypeOK, TypedRun, TypedUsers, TypedPay

LEMMA RunTypesHold ==
    ASSUME ConnectTypeOK
    PROVE  RunTypes
  BY TypedParts DEF RunTypes, ConnectTypeOK

-----------------------------------------------------------------------------
(* The payments.                                                           *)

PayTypes ==
    /\ TypedPay
    /\ at \in [Requests -> {"off", "checking", "waiting", "done"} \cup RunSteps]
    /\ \A r \in Requests : KeyOf[r] \in Keys /\ r # None

\* Once r posts no more, what is known of its transaction stays true.
Settled(r) == PostsNoMore(r) => PostsNoMore(r)' /\ (r \in posted' <=> r \in posted)

\* A step of r on its own payment.
LEMMA OnePayment ==
    ASSUME PayTypes, PayInv, NEW r \in Requests, UNCHANGED claimant,
           \A q \in Requests \ {r} : /\ at'[q] = at[q] /\ tx'[q] = tx[q] /\ got'[q] = got[q]
                                     /\ (q \in posted' <=> q \in posted) /\ (q \in carried' <=> q \in carried)
                                     /\ fresh'[q] => fresh[q] /\ UNCHANGED status,
           \A k \in Keys \ {KeyOf[r]} : status'[k] = status[k],
           status'[KeyOf[r]] = "none" <=> status[KeyOf[r]] = "none",
           status'[KeyOf[r]] \in FinalStatuses =>
               status[KeyOf[r]] \in FinalStatuses \/ PostsNoMore(claimant[KeyOf[r]]),
           claimant[KeyOf[r]] = r => at'[r] \in {"prepare"} \cup Prepared,
           Settled(r),
           RowOk(r)'
    PROVE  PayInv'
  <1>1. \A q \in Requests : Settled(q)
    BY DEF Settled, PostsNoMore
  <1>2. ASSUME NEW k \in Keys PROVE KeyOk(k)'
    <2>1. KeyOk(k) /\ claimant[k] \in Requests \cup {None}
      BY DEF PayInv, PayTypes, TypedPay
    <2>2. claimant[k] # None => at'[claimant[k]] \in {"prepare"} \cup Prepared
      BY <2>1 DEF KeyOk
    <2>3. status'[k] \in FinalStatuses => status[k] \in FinalStatuses \/ PostsNoMore(claimant[k])
      OBVIOUS
    <2>4. status'[k] = "none" <=> status[k] = "none"
      OBVIOUS
    <2>5. status'[k] \in FinalStatuses => claimant[k] \in Requests
      BY <2>1, <2>4 DEF KeyOk, FinalStatuses
    <2>6. status'[k] \in FinalStatuses => PostsNoMore(claimant[k])'
      BY <1>1, <2>1, <2>3, <2>5 DEF KeyOk, Settled, PostsNoMore
    <2> QED BY <2>1, <2>2, <2>4, <2>6 DEF KeyOk
  <1>3. ASSUME NEW q \in Requests \ {r} PROVE RowOk(q)'
    <2> DEFINE p == claimant[KeyOf[q]]
    <2>1. RowOk(q) /\ KeyOk(KeyOf[q]) /\ KeyOf[q] \in Keys /\ p \in Requests \cup {None} /\ q # None
      BY DEF PayInv, PayTypes, TypedPay
    <2>2. status'[KeyOf[q]] = "none" <=> status[KeyOf[q]] = "none"
      BY <2>1
    <2>3. at[q] \in {"outcome", "caught", "merge"} => p \in Requests
      BY <2>1 DEF RowOk, KeyOk, Paying
    <2>4. at[q] \in {"outcome", "caught", "merge"} /\ got[q] \in FinalStatuses => TrueOf(p, got[q])'
      BY <1>1, <2>1, <2>3 DEF RowOk, TrueOf, Settled, PostsNoMore
    <2> QED BY <2>1, <2>2, <2>4 DEF RowOk, TrueOf
  <1> QED BY <1>2, <1>3 DEF PayInv

\* Outside an execution, and when one ends or is broken off, no payment is touched.
Idle == {"off", "checking", "waiting", "act", "claim"}

LEMMA PayFrame ==
    ASSUME PayTypes, PayInv, UNCHANGED <<payVars, workerVars, got>>,
           \A r \in Requests : r \in carried' => r \in carried \/ tx[r] = "none",
           carried \subseteq carried',
           \A r \in Requests : at'[r] \in {at[r], "done"} \/ (at[r] \in Idle /\ at'[r] \in Idle)
    PROVE  PayInv'
  <1>1. UNCHANGED <<status, claimant, fresh, tx, posted, got>>
    BY DEF payVars, workerVars
  <1>2. \A r \in Requests : Settled(r)
    BY <1>1 DEF Settled, PostsNoMore, Idle, PayTypes
  <1>3. ASSUME NEW k \in Keys PROVE KeyOk(k)'
    <2>1. KeyOk(k) /\ claimant[k] \in Requests \cup {None}
      BY DEF PayInv, PayTypes, TypedPay
    <2>2. claimant[k] # None => at'[claimant[k]] \in {"prepare"} \cup Prepared
      BY <2>1 DEF KeyOk, Prepared, Paying, Idle
    <2>3. status[k] \in FinalStatuses => PostsNoMore(claimant[k])'
      BY <1>1, <1>2, <2>1 DEF KeyOk, Settled, FinalStatuses, PostsNoMore
    <2> QED BY <1>1, <2>1, <2>2, <2>3 DEF KeyOk
  <1>4. ASSUME NEW q \in Requests PROVE RowOk(q)'
    <2> DEFINE p == claimant[KeyOf[q]]
    <2>1. RowOk(q) /\ KeyOk(KeyOf[q]) /\ p \in Requests \cup {None} /\ q # None
      BY DEF PayInv, PayTypes, TypedPay
    <2>2. at'[q] \in Paying \cup {"lookup", "merge"} => at'[q] = at[q]
      BY DEF Paying, Idle
    <2>3. at[q] \in {"outcome", "caught", "merge"} => p \in Requests
      BY <2>1 DEF RowOk, KeyOk, Paying
    <2>4. at[q] \in {"outcome", "caught", "merge"} /\ got[q] \in FinalStatuses => TrueOf(p, got[q])'
      BY <1>1, <1>2, <2>1, <2>3 DEF RowOk, TrueOf, Settled, PostsNoMore
    <2>5. at'[q] \in {"outcome", "caught", "merge"} => at'[q] = at[q]
      BY <2>2 DEF Paying
    <2>6. at[q] \in Prepared => at'[q] \in Prepared
      BY DEF Prepared, Paying, Idle
    <2> QED BY <1>1, <2>1, <2>2, <2>4, <2>5, <2>6 DEF RowOk, TrueOf
  <1> QED BY <1>3, <1>4 DEF PayInv

\* The lock takes every row away; what was posted is not taken back.
LEMMA LockPay ==
    ASSUME PayTypes, PayInv, Lock
    PROVE  PayInv'
  <1>1. UNCHANGED <<status, claimant, fresh, posted, got, at, carried>> /\ \A r \in Requests : tx'[r] = "none"
    BY DEF Lock, payVars, runVars
  <1>2. \A r \in Requests : PostsNoMore(r) => PostsNoMore(r)'
    BY <1>1 DEF PostsNoMore
  <1>3. ASSUME NEW k \in Keys PROVE KeyOk(k)'
    <2>1. KeyOk(k) /\ claimant[k] \in Requests \cup {None}
      BY DEF PayInv, PayTypes, TypedPay
    <2>2. status[k] \in FinalStatuses => PostsNoMore(claimant[k])'
      BY <1>1, <1>2, <2>1 DEF KeyOk, FinalStatuses, PostsNoMore
    <2> QED BY <1>1, <2>1, <2>2 DEF KeyOk
  <1>4. ASSUME NEW q \in Requests PROVE RowOk(q)'
    <2> DEFINE p == claimant[KeyOf[q]]
    <2>1. RowOk(q) /\ KeyOk(KeyOf[q]) /\ p \in Requests \cup {None} /\ q # None
      BY DEF PayInv, PayTypes, TypedPay
    <2>2. at[q] \in {"outcome", "caught", "merge"} => p \in Requests
      BY <2>1 DEF RowOk, KeyOk, Paying
    <2>3. at[q] \in {"outcome", "caught", "merge"} /\ got[q] \in FinalStatuses => TrueOf(p, got[q])'
      BY <1>1, <1>2, <2>1, <2>2 DEF RowOk, TrueOf, PostsNoMore
    <2> QED BY <1>1, <2>1, <2>3 DEF RowOk
  <1> QED BY <1>3, <1>4 DEF PayInv

\* The Worker's step on the row of r.
LEMMA RowPay ==
    ASSUME PayTypes, PayInv, NEW r \in Requests, NEW s \in RowStates, Becomes(r, s),
           \/ tx[r] = "prepared" /\ r \in carried /\ s = "signing" /\ UNCHANGED posted
           \/ tx[r] = "prepared" /\ s = "cancelled" /\ UNCHANGED posted
           \/ tx[r] = "signing" /\ s \in {"signed", "rejected"} /\ UNCHANGED posted
           \/ tx[r] = "signed" /\ s = "rejected" /\ UNCHANGED posted
           \/ tx[r] = "signed" /\ s = "dispatching" /\ posted' = posted \cup {r}
           \/ tx[r] = "dispatching" /\ s \in {"accepted", "rejected", "unknown"} /\ UNCHANGED posted
           \/ tx[r] = "unknown" /\ s = "accepted" /\ UNCHANGED posted
    PROVE  PayInv'
  <1>1. /\ UNCHANGED <<status, claimant, fresh, got, at, carried>>
        /\ tx'[r] = s
        /\ \A q \in Requests \ {r} : tx'[q] = tx[q] /\ (q \in posted' <=> q \in posted)
    BY DEF Becomes, payVars, runVars, PayTypes, TypedPay
  <1>2. RowOk(r) /\ KeyOk(KeyOf[r]) /\ r # None
    BY DEF PayInv, PayTypes
  <1>3. claimant[KeyOf[r]] = r /\ at[r] \in Prepared
    BY <1>2 DEF RowOk
  <1>4. Settled(r)
    BY <1>1, <1>2 DEF Settled, PostsNoMore, RowOk
  <1>5. at[r] \in {"outcome", "caught", "merge"} /\ got[r] \in FinalStatuses => TrueOf(r, got[r])'
    BY <1>1, <1>2, <1>3, <1>4 DEF RowOk, TrueOf, Settled
  <1>6. RowOk(r)'
    BY <1>1, <1>2, <1>3, <1>5 DEF RowOk
  <1> QED BY <1>1, <1>2, <1>3, <1>4, <1>6, OnePayment DEF PayTypes, TypedPay

LEMMA WorkerPay ==
    ASSUME PayTypes, PayInv, NEW r \in Requests, Processes(r) \/ Expires(r) \/ Observed(r)
    PROVE  PayInv'
  BY RowPay DEF Processes, Expires, Observed, RowStates

\* An await of an execution that changes neither the record nor the row.
LEMMA GoesPay ==
    ASSUME PayTypes, PayInv, NEW r \in Requests, NEW step \in RunSteps, at' = [at EXCEPT ![r] = step],
           UNCHANGED <<status, claimant, tx, posted>>,
           \A q \in Requests \ {r} : got'[q] = got[q] /\ (fresh'[q] => fresh[q]),
           carried' \in {carried, carried \cup {r}},
           claimant[KeyOf[r]] = r => step \in Prepared,
           PostsNoMore(r) => PostsNoMore(r)',
           fresh'[r] => status[KeyOf[r]] = "none",
           step \in Paying => claimant[KeyOf[r]] = r,
           step \in {"lookup", "merge"} => status[KeyOf[r]] # "none",
           step \in {"outcome", "caught", "merge"} /\ got'[r] \in FinalStatuses =>
               TrueOf(claimant[KeyOf[r]], got[r])'
    PROVE  PayInv'
  <1>1. at'[r] = step /\ \A q \in Requests \ {r} : at'[q] = at[q]
    BY DEF PayTypes
  <1>2. RowOk(r) /\ r # None
    BY DEF PayInv, PayTypes
  <1>3. Settled(r)
    BY DEF Settled
  <1>4. RowOk(r)'
    BY <1>1, <1>2 DEF RowOk
  <1> QED BY <1>1, <1>3, <1>4, OnePayment DEF PayTypes, TypedPay

\* What is known of a payment before a step of r.
LEMMA PaymentOf ==
    ASSUME PayTypes, PayInv, NEW r \in Requests
    PROVE  /\ RowOk(r) /\ KeyOk(KeyOf[r]) /\ r # None /\ KeyOf[r] \in Keys
           /\ claimant[KeyOf[r]] \in Requests \cup {None}
           /\ PayInv
  BY DEF PayInv, PayTypes, TypedPay

\* claimConnectPayment: the first to write the record is its claimant.
LEMMA ClaimPay ==
    ASSUME PayTypes, PayInv, NEW r \in Requests, CommitClaim(r)
    PROVE  PayInv'
  <1> DEFINE k == KeyOf[r]
  <1>1. /\ RowOk(r) /\ KeyOk(k) /\ r # None /\ k \in Keys
        /\ at[r] = "commit" /\ UNCHANGED <<tx, posted, got, carried>>
    BY PaymentOf DEF CommitClaim, workerVars
  <1>2. CASE ~fresh[r]
    <2>1. at' = [at EXCEPT ![r] = "claim"] /\ UNCHANGED <<status, claimant, fresh>>
      BY <1>2 DEF CommitClaim, Goes, payVars
    <2>2. claimant[k] # r
      BY <1>1 DEF KeyOk, Prepared, Paying
    <2>3. PostsNoMore(r) => PostsNoMore(r)'
      BY <1>1, <2>1 DEF PostsNoMore, PayTypes
    <2> QED BY <1>1, <2>1, <2>2, <2>3, GoesPay DEF RunSteps, Paying, RowOk
  <1>3. CASE fresh[r]
    <2>1. /\ status'[k] = "pending" /\ claimant'[k] = r /\ at'[r] = "prepare"
          /\ \A q \in Requests : ~fresh'[q]
          /\ \A q \in Requests \ {r} : at'[q] = at[q]
          /\ \A l \in Keys \ {k} : status'[l] = status[l] /\ claimant'[l] = claimant[l]
      BY <1>1, <1>3 DEF CommitClaim, Written, Goes, PayTypes, TypedPay
    <2>2. status[k] = "none" /\ claimant[k] = None
      BY <1>1, <1>3 DEF RowOk, KeyOk
    <2>3. ASSUME NEW l \in Keys PROVE KeyOk(l)'
      <3>1. KeyOk(l) /\ claimant[l] \in Requests \cup {None}
        BY DEF PayInv, PayTypes, TypedPay
      <3>2. CASE l = k
        BY <1>1, <2>1, <3>2 DEF KeyOk, FinalStatuses
      <3>3. CASE l # k
        <4>1. claimant[l] # r
          BY <1>1, <3>1, <3>3 DEF KeyOk
        <4>2. claimant[l] # None => claimant[l] \in Requests \ {r}
          BY <3>1, <4>1
        <4>3. /\ status'[l] = status[l] /\ claimant'[l] = claimant[l]
              /\ claimant[l] # None => at'[claimant[l]] = at[claimant[l]]
          BY <2>1, <3>3, <4>2
        <4>4. status[l] \in FinalStatuses => claimant[l] # None
          BY <3>1 DEF KeyOk, FinalStatuses
        <4> QED BY <1>1, <3>1, <4>3, <4>4 DEF KeyOk, PostsNoMore
      <3> QED BY <3>2, <3>3
    <2>4. RowOk(r)'
      BY <1>1, <2>1, <2>2 DEF RowOk, Paying, Prepared
    <2>5. ASSUME NEW q \in Requests \ {r} PROVE RowOk(q)'
      <3> DEFINE p == claimant[KeyOf[q]]
      <3>1. RowOk(q) /\ KeyOk(KeyOf[q]) /\ q # None /\ KeyOf[q] \in Keys /\ p \in Requests \cup {None}
        BY PaymentOf
      <3>2. at'[q] = at[q]
        BY <2>1
      <3>3. CASE KeyOf[q] = k
        <4>1. at[q] \notin Paying \cup {"lookup", "merge"} /\ tx[q] = "none" /\ q \notin posted
          BY <2>2, <3>1, <3>3 DEF RowOk
        <4> QED BY <1>1, <2>1, <3>1, <3>2, <4>1 DEF RowOk, Paying
      <3>4. CASE KeyOf[q] # k
        <4>1. claimant'[KeyOf[q]] = p /\ status'[KeyOf[q]] = status[KeyOf[q]]
          BY <2>1, <3>1, <3>4
        <4>2. at[q] \in {"outcome", "caught", "merge"} => p \in Requests
          BY <3>1 DEF RowOk, KeyOk, Paying
        <4>3. p \in Requests => p # r
          BY <3>1, <3>4, RequestsAssumption DEF KeyOk
        <4>4. p \in Requests => at'[p] = at[p]
          BY <2>1, <4>3
        <4>5. at[q] \in {"outcome", "caught", "merge"} /\ got[q] \in FinalStatuses => TrueOf(p, got[q])'
          <5> SUFFICES ASSUME at[q] \in {"outcome", "caught", "merge"}, got[q] \in FinalStatuses
                       PROVE  TrueOf(p, got[q])'
            OBVIOUS
          <5>1. TrueOf(p, got[q]) /\ at'[p] = at[p]
            BY <3>1, <4>2, <4>4 DEF RowOk
          <5> QED BY <1>1, <4>1, <5>1 DEF TrueOf, PostsNoMore
        <4> QED BY <1>1, <2>1, <3>1, <3>2, <4>1, <4>5 DEF RowOk, TrueOf, PostsNoMore
      <3> QED BY <3>3, <3>4
    <2> QED BY <2>3, <2>4, <2>5 DEF PayInv
  <1> QED BY <1>2, <1>3

\* The Worker's row of a claim that is alive.
LEMMA PreparePay ==
    ASSUME PayTypes, PayInv, NEW r \in Requests, RequestOk(r), Prepare(r)
    PROVE  PayInv'
  <1>1. RowOk(r) /\ KeyOk(KeyOf[r]) /\ r # None /\ r \notin carried /\ at[r] = "prepare"
    BY PaymentOf DEF Prepare, RequestOk
  <1>2. /\ at'[r] = "plan" /\ tx'[r] = "prepared"
           /\ UNCHANGED <<status, claimant, fresh, posted, got, carried>>
        /\ \A q \in Requests \ {r} : at'[q] = at[q] /\ tx'[q] = tx[q]
    BY DEF Prepare, Goes, payVars, PayTypes, TypedPay
  <1>3. claimant[KeyOf[r]] = r /\ ~PostsNoMore(r) /\ r \notin posted
    BY <1>1 DEF RowOk, PostsNoMore, Paying
  <1>4. RowOk(r)'
    BY <1>1, <1>2, <1>3 DEF RowOk, Prepared, Paying
  <1> QED BY <1>2, <1>3, <1>4, OnePayment DEF Settled, Prepared, Paying

\* A refusal, an error or the end of the connection before the submit.
LEMMA NotSignedPay ==
    ASSUME PayTypes, PayInv, NEW r \in Requests, RequestOk(r), PayFails(r) \/ Refused(r)
    PROVE  PayInv'
  <1>1. RowOk(r) /\ KeyOk(KeyOf[r]) /\ r # None /\ r \notin carried
        /\ at[r] \in {"prepare", "plan", "approval"}
    BY PaymentOf DEF PayFails, Refused, RequestOk
  <1>2. /\ at' = [at EXCEPT ![r] = "caught"] /\ got' = [got EXCEPT ![r] = "not_signed"]
        /\ UNCHANGED <<status, claimant, fresh, tx, posted, carried>>
    BY DEF PayFails, Refused, Caught, Goes, payVars, workerVars
  <1>3. at'[r] = "caught" /\ got'[r] = "not_signed" /\ \A q \in Requests \ {r} : got'[q] = got[q]
    BY <1>2 DEF PayTypes, TypedPay
  <1>4. claimant[KeyOf[r]] = r /\ tx[r] \notin {"signing", "signed"} /\ r \notin posted
    BY <1>1 DEF RowOk, Paying
  <1>5. TrueOf(r, got[r])'
    BY <1>1, <1>2, <1>3, <1>4 DEF TrueOf, PostsNoMore
  <1>6. PostsNoMore(r)'
    BY <1>5 DEF TrueOf
  <1>7. fresh'[r] => status[KeyOf[r]] = "none"
    BY <1>1, <1>2 DEF RowOk
  <1>8. TrueOf(claimant[KeyOf[r]], got[r])'
    BY <1>1, <1>2, <1>3, <1>4 DEF TrueOf, PostsNoMore
  <1> QED BY <1>2, <1>3, <1>4, <1>6, <1>7, <1>8, GoesPay DEF RunSteps, Prepared, Paying

\* The payment is submitted or the user is asked; no claim is committed on the
\* revision before this write.
LEMMA SubmitPay ==
    ASSUME PayTypes, PayInv, NEW r \in Requests, RequestOk(r), StorePlan(r) \/ Approved(r)
    PROVE  PayInv'
  <1>1. RowOk(r) /\ KeyOk(KeyOf[r]) /\ r # None /\ at[r] \in {"plan", "approval"}
    BY PaymentOf DEF StorePlan, Approved
  <1>2. PICK step \in {"submitting", "approval"} : at' = [at EXCEPT ![r] = step]
    BY DEF StorePlan, Approved, Submit, Goes
  <1>3. UNCHANGED <<claimant, tx, posted, got>> /\ carried' \in {carried, carried \cup {r}}
    BY DEF StorePlan, Approved, Submit, payVars, workerVars
  <1>4. status' = status /\ \A q \in Requests : fresh'[q] => fresh[q]
    BY DEF StorePlan, Approved, Written, payVars, PayTypes, TypedPay
  <1>5. claimant[KeyOf[r]] = r
    BY <1>1 DEF RowOk, Paying
  <1>6. PostsNoMore(r) => PostsNoMore(r)'
    BY <1>1, <1>2, <1>3 DEF PostsNoMore, PayTypes
  <1>7. fresh'[r] => status[KeyOf[r]] = "none"
    BY <1>1, <1>4 DEF RowOk
  <1>8. step \in RunSteps /\ step \in Prepared /\ step \notin {"lookup", "merge", "outcome", "caught"}
    BY DEF RunSteps, Prepared, Paying
  <1> QED BY <1>2, <1>3, <1>4, <1>5, <1>6, <1>7, <1>8, GoesPay

\* The answer of a submit is true, whatever happens to the row meanwhile.
LEMMA AnswerPay ==
    ASSUME PayTypes, PayInv, NEW r \in Requests, RequestOk(r), SubmitAnswered(r) \/ OutcomeLost(r)
    PROVE  PayInv'
  <1>1. RowOk(r) /\ KeyOk(KeyOf[r]) /\ r # None /\ at[r] \in {"submitting", "outcome"}
    BY PaymentOf DEF SubmitAnswered, OutcomeLost
  <1>2. PICK step \in {"outcome", "caught"} : at' = [at EXCEPT ![r] = step]
    BY DEF SubmitAnswered, OutcomeLost, Caught, Goes
  <1>3. UNCHANGED <<status, claimant, fresh, tx, posted, carried>>
    BY DEF SubmitAnswered, OutcomeLost, payVars, workerVars
  <1>4. /\ \/ got'[r] = "accepted" /\ tx[r] = "accepted"
           \/ got'[r] = "failed" /\ tx[r] = "rejected"
           \/ got'[r] = "unknown"
        /\ \A q \in Requests \ {r} : got'[q] = got[q]
    BY DEF SubmitAnswered, OutcomeLost, Caught, PayTypes, TypedPay
  <1>5. claimant[KeyOf[r]] = r /\ at'[r] = step
    BY <1>1, <1>2 DEF RowOk, Paying, PayTypes
  <1>6. PostsNoMore(r) => PostsNoMore(r)'
    BY <1>1, <1>3, <1>5 DEF PostsNoMore
  <1>7. fresh'[r] => status[KeyOf[r]] = "none"
    BY <1>1, <1>3 DEF RowOk
  <1>8. got'[r] \in FinalStatuses => TrueOf(claimant[KeyOf[r]], got[r])'
    BY <1>1, <1>3, <1>4, <1>5 DEF TrueOf, PostsNoMore, RowOk, FinalStatuses
  <1>9. step \in RunSteps /\ step \in Prepared /\ step \notin {"lookup", "merge"}
    BY DEF RunSteps, Prepared, Paying
  <1> QED BY <1>2, <1>3, <1>4, <1>5, <1>6, <1>7, <1>8, <1>9, GoesPay

\* A status is recorded.
LEMMA RecordPay ==
    ASSUME PayTypes, PayInv, NEW r \in Requests, RecordOutcome(r) \/ RecordLookup(r)
    PROVE  PayInv'
  <1> DEFINE k == KeyOf[r]
             p == claimant[k]
  <1>1. /\ RowOk(r) /\ KeyOk(k) /\ r # None /\ k \in Keys /\ at[r] \in {"outcome", "caught", "merge"}
        /\ p \in Requests \cup {None}
    BY PaymentOf DEF RecordOutcome, RecordLookup
  <1>2. /\ at'[r] = "done" /\ got'[r] = "none" /\ UNCHANGED <<claimant, tx, posted, carried>>
        /\ \A q \in Requests \ {r} : at'[q] = at[q] /\ got'[q] = got[q]
    BY DEF RecordOutcome, RecordLookup, Finish, Store, payVars, workerVars, PayTypes, TypedPay
  <1>3. \/ UNCHANGED <<status, fresh>>
        \/ /\ got[r] \in Successors(status[k])
           /\ status'[k] = got[r]
           /\ \A l \in Keys \ {k} : status'[l] = status[l]
           /\ \A q \in Requests : ~fresh'[q]
    BY <1>1 DEF RecordOutcome, RecordLookup, Store, Written, payVars, PayTypes, TypedPay
  <1>4. got[r] \in Successors(status[k]) => got[r] # "none" /\ status[k] # "none"
    BY DEF Successors, FinalStatuses
  <1>5. got[r] \in FinalStatuses => PostsNoMore(p)
    BY <1>1 DEF RowOk, TrueOf
  <1>6. PostsNoMore(r) => PostsNoMore(r)'
    BY <1>1, <1>2 DEF PostsNoMore
  <1>7. RowOk(r)'
    <2>1. fresh'[r] => status'[k] = "none"
      BY <1>1, <1>3 DEF RowOk
    <2> QED BY <1>1, <1>2, <2>1 DEF RowOk, Paying, Prepared
  <1>8. status'[k] = "none" <=> status[k] = "none"
    BY <1>3, <1>4
  <1>9. status'[k] \in FinalStatuses => status[k] \in FinalStatuses \/ PostsNoMore(p)
    BY <1>3, <1>5
  <1>10. \A l \in Keys \ {k} : status'[l] = status[l]
    BY <1>3
  <1>11. \A q \in Requests : fresh'[q] => fresh[q] /\ UNCHANGED status
    BY <1>3
  <1>12. Settled(r)
    BY <1>2, <1>6 DEF Settled
  <1> QED BY <1>2, <1>7, <1>8, <1>9, <1>10, <1>11, <1>12, OnePayment DEF Prepared

\* What the Worker says of a payment is true of it.
LEMMA LookupPay ==
    ASSUME PayTypes, PayInv, NEW r \in Requests, Lookup(r)
    PROVE  PayInv'
  <1> DEFINE k == KeyOf[r]
             p == claimant[k]
             said == RowStatus(tx[p])
  <1>1. /\ RowOk(r) /\ KeyOk(k) /\ r # None /\ k \in Keys /\ p \in Requests \cup {None}
        /\ at[r] = "lookup" /\ UNCHANGED <<payVars, workerVars, carried>>
    BY PaymentOf DEF Lookup
  <1>2. p \in Requests /\ p # r /\ RowOk(p) /\ KeyOf[p] = k
    BY <1>1, PaymentOf DEF RowOk, KeyOk, Prepared, Paying
  <1>3. CASE Finish(r, "approved") /\ UNCHANGED got
    BY <1>1, <1>3, PayFrame DEF Finish, PayTypes
  <1>4. CASE Goes(r, "merge") /\ got' = [got EXCEPT ![r] = said]
    <2>1. /\ at' = [at EXCEPT ![r] = "merge"] /\ got'[r] = said
          /\ \A q \in Requests \ {r} : got'[q] = got[q] /\ at'[q] = at[q]
      BY <1>4 DEF Goes, PayTypes, TypedPay
    <2>2. UNCHANGED <<status, claimant, fresh, tx, posted>>
      BY <1>1 DEF payVars, workerVars
    <2>3. said \in FinalStatuses => TrueOf(p, said)
      BY <1>2 DEF RowStatus, FinalStatuses, TrueOf, PostsNoMore, RowOk, Prepared, Paying
    <2>4. said \in FinalStatuses => TrueOf(p, got[r])'
      BY <1>1, <1>2, <2>1, <2>2, <2>3 DEF TrueOf, PostsNoMore
    <2>5. PostsNoMore(r) => PostsNoMore(r)'
      BY <1>1, <2>1, <2>2 DEF PostsNoMore, PayTypes
    <2> QED BY <1>1, <1>2, <2>1, <2>2, <2>4, <2>5, GoesPay DEF RunSteps, RowOk, Paying
  <1> QED BY <1>3, <1>4 DEF Lookup

LEMMA ExecutingPay ==
    ASSUME PayTypes, PayInv, NEW r \in Requests, RequestOk(r), Executing(r)
    PROVE  PayInv'
  <1>1. ASSUME NEW end, Finish(r, end) PROVE \A q \in Requests : at'[q] \in {at[q], "done"}
    BY <1>1 DEF Finish, PayTypes
  <1>2. CASE RunFails(r)
    BY <1>1, <1>2, PayFrame DEF RunFails
  <1>3. CASE Sign(r)
    <2>1. RowOk(r) /\ at[r] = "act"
      BY <1>3, PaymentOf DEF Sign
    <2>2. tx[r] = "none"
      BY <2>1 DEF RowOk, Prepared, Paying
    <2>3. carried' = carried \cup {r} /\ UNCHANGED <<payVars, workerVars, got>>
      BY <1>3 DEF Sign
    <2> QED BY <1>1, <1>3, <2>2, <2>3, PayFrame DEF Sign
  <1>4. CASE ReadClaim(r)
    <2>1. /\ RowOk(r) /\ KeyOk(KeyOf[r]) /\ r # None /\ at[r] = "claim"
          /\ UNCHANGED <<status, claimant, tx, posted, got, carried>>
      BY <1>4, PaymentOf DEF ReadClaim, workerVars
    <2>2. PICK step \in {"lookup", "commit"} :
              /\ at' = [at EXCEPT ![r] = step]
              /\ step = "lookup" => status[KeyOf[r]] # "none" /\ UNCHANGED fresh
              /\ step = "commit" => status[KeyOf[r]] = "none" /\ \A q \in Requests \ {r} : fresh'[q] = fresh[q]
      BY <1>4 DEF ReadClaim, Goes, PayTypes, TypedPay
    <2>3. claimant[KeyOf[r]] # r
      BY <2>1 DEF KeyOk, Prepared, Paying
    <2>4. PostsNoMore(r) => PostsNoMore(r)'
      BY <2>1, <2>2 DEF PostsNoMore, PayTypes
    <2>5. fresh'[r] => status[KeyOf[r]] = "none"
      BY <2>1, <2>2 DEF RowOk
    <2> QED BY <2>1, <2>2, <2>3, <2>4, <2>5, GoesPay DEF RunSteps, Paying
  <1> QED BY <1>2, <1>3, <1>4, ClaimPay, NotSignedPay, PreparePay, SubmitPay, AnswerPay, RecordPay,
             LookupPay
       DEF Executing

\* What holds of the payments is kept by every step.
LEMMA PayKeeps ==
    ASSUME PayTypes, RunTypes, RunInv, PayInv, [Next]_vars
    PROVE  PayInv'
  <1>1. ASSUME UNCHANGED <<payVars, workerVars, got, carried, at>> PROVE PayInv'
    BY <1>1, PayFrame
  <1>2. ASSUME NEW c \in Conns, Probing(c) PROVE PayInv'
    <2>1. QueueOk(c) /\ drain[c] = "probe"
      BY <1>2 DEF RunInv, Probing, ProbeExecutes, ProbeFails
    <2>2. head[c] \in Requests /\ ConnOf[head[c]] = c
      BY <2>1 DEF QueueOk, Of
    <2>3. at[head[c]] = "waiting"
      BY <2>1, <2>2 DEF RunInv, RequestOk, Holds
    <2>4. \A r \in Requests : at'[r] \in {at[r], "done"} \/ (at[r] \in Idle /\ at'[r] \in Idle)
      BY <1>2, <2>2, <2>3 DEF Probing, ProbeExecutes, ProbeFails, Idle, PayTypes
    <2>5. UNCHANGED <<payVars, workerVars, got, carried>>
      BY <1>2 DEF Probing, ProbeExecutes, ProbeFails
    <2> QED BY <2>4, <2>5, PayFrame
  <1>3. ASSUME NEW c \in Conns, Pause(c) PROVE PayInv'
    BY <1>1, <1>3 DEF Pause
  <1>4. ASSUME NEW c \in Conns, PageGone(c) PROVE PayInv'
    <2>1. \A r \in Requests : at'[r] \in {at[r], "done"}
      BY <1>4 DEF PageGone
    <2> QED BY <1>4, <2>1, PayFrame DEF PageGone
  <1>5. ASSUME NEW r \in Requests, Accept(r) \/ Checked(r) \/ CheckFails(r) PROVE PayInv'
    <2>1. \A q \in Requests : at'[q] = at[q] \/ (at[q] \in Idle /\ at'[q] \in Idle)
      BY <1>5 DEF Accept, Checked, CheckFails, Idle, PayTypes
    <2> QED BY <1>5, <2>1, PayFrame DEF Accept, Checked, CheckFails
  <1>6. ASSUME NEW r \in Requests, RememberRead(r) \/ RememberWritten(r) \/ Timeout(r) PROVE PayInv'
    BY <1>1, <1>6 DEF RememberRead, RememberWritten, Timeout, runVars
  <1>7. ASSUME NEW r \in Requests, Confirm(r) \/ ConfirmAndRemember(r) \/ Cancel(r) PROVE PayInv'
    BY <1>1, <1>7 DEF Confirm, ConfirmAndRemember, Cancel, runVars
  <1>8. ASSUME NEW kind, Revoke(kind) PROVE PayInv'
    BY <1>1, <1>8 DEF Revoke, runVars
  <1>9. CASE Lock
    BY <1>9, LockPay
  <1>10. CASE UNCHANGED vars
    BY <1>1, <1>10 DEF vars, runVars
  <1>11. ASSUME NEW r \in Requests, Executing(r) PROVE PayInv'
    BY <1>11, ExecutingPay DEF RunInv
  <1> QED BY <1>2, <1>3, <1>4, <1>5, <1>6, <1>7, <1>8, <1>9, <1>10, <1>11, WorkerPay
       DEF Next, System, Deciding, Users

-----------------------------------------------------------------------------
(* The inductive invariant.                                                *)

LEMMA PayTypesHold ==
    ASSUME ConnectTypeOK
    PROVE  PayTypes
  BY TypedParts, TypesInParts DEF PayTypes, TypedRun

LEMMA ConnectStarts ==
    ASSUME Init
    PROVE  ConnectInv
  <1>1. ConnectTypeOK
    BY RequestsAssumption DEF Init, ConnectTypeOK, Phases, TerminalPhases, RunSteps, Statuses,
         FinalStatuses, RowStates
  <1>2. RunInv
    <2>1. ASSUME NEW c \in Conns PROVE QueueOk(c)
      BY DEF Init, QueueOk, Fit
    <2>2. ASSUME NEW r \in Requests PROVE RequestOk(r)
      BY RequestsAssumption DEF Init, RequestOk, Holds, RunSteps
    <2> QED BY <2>1, <2>2 DEF RunInv
  <1>3. PayInv
    <2>1. ASSUME NEW k \in Keys PROVE KeyOk(k)
      BY DEF Init, KeyOk, FinalStatuses
    <2>2. ASSUME NEW r \in Requests PROVE RowOk(r)
      BY DEF Init, RowOk, Paying
    <2> QED BY <2>1, <2>2 DEF PayInv
  <1> QED BY <1>1, <1>2, <1>3 DEF ConnectInv

\* The types, the executors and the payments of an application are in order in
\* every state that its requests, the users, the Worker and the failures lead to
\* (protocolService.ts).
THEOREM ConnectInvariant == Spec => []ConnectInv
  <1>1. Init => ConnectInv
    BY ConnectStarts
  <1>2. ConnectInv /\ [Next]_vars => ConnectInv'
    <2> SUFFICES ASSUME ConnectInv, [Next]_vars PROVE ConnectInv'
      OBVIOUS
    <2>1. ConnectTypeOK'
      BY ConnectTyped DEF ConnectInv
    <2>2. RunTypes /\ PayTypes
      BY RunTypesHold, PayTypesHold DEF ConnectInv
    <2>3. RunInv'
      BY <2>2, RunKeeps DEF ConnectInv
    <2>4. PayInv'
      BY <2>2, PayKeeps DEF ConnectInv
    <2> QED BY <2>1, <2>3, <2>4 DEF ConnectInv
  <1> QED BY <1>1, <1>2, PTL DEF Spec

\* What the user, the application or the timer refused is never carried out: not
\* by a confirmation that was storing the permission, nor by the execution that
\* waited for the answer (confirmByUser, rejectByUser, finalizeRequestByCancel).
THEOREM RefusalIsKept == Spec => []RefusalHolds
  <1>1. ConnectInv => RefusalHolds
    BY DEF ConnectInv, ConnectTypeOK, RunInv, RequestOk, RefusalHolds
  <1> QED BY <1>1, ConnectInvariant, PTL

-----------------------------------------------------------------------------
(* The payments implement PaymentLedger.                                   *)

\* Only the claimant of a key is posted, so a key is posted once at most.
LEMMA PostedOnce ==
    ASSUME ConnectInv, NEW k \in Keys
    PROVE  {r \in posted : KeyOf[r] = k} = IF claimant[k] \in posted THEN {claimant[k]} ELSE {}
  <1>1. \A r \in posted : r \in Requests /\ RowOk(r)
    BY DEF ConnectInv, ConnectTypeOK, PayInv
  <1>2. claimant[k] \in posted => KeyOf[claimant[k]] = k
    BY RequestsAssumption DEF ConnectInv, ConnectTypeOK, PayInv, KeyOk
  <1> QED BY <1>1, <1>2 DEF RowOk

LEMMA CountOf ==
    ASSUME ConnectInv, NEW k \in Keys
    PROVE  Posts[k] = IF claimant[k] \in posted THEN 1 ELSE 0
  <1> DEFINE mine == {r \in posted : KeyOf[r] = k}
  <1>1. Posts[k] = Cardinality(mine)
    BY DEF Posts
  <1>2. CASE claimant[k] \in posted
    <2>1. mine = {claimant[k]}
      BY <1>2, PostedOnce
    <2> QED BY <1>1, <1>2, <2>1, FS_Singleton
  <1>3. CASE claimant[k] \notin posted
    <2>1. mine = {}
      BY <1>3, PostedOnce
    <2> QED BY <1>1, <1>3, <2>1, FS_EmptySet
  <1> QED BY <1>2, <1>3

\* The Worker hands the transaction of an open payment to the network: the first
\* of this payment.
LEMMA PostImplements ==
    ASSUME ConnectInv, NEW r \in Requests, tx[r] = "signed", posted' = posted \cup {r}, UNCHANGED status
    PROVE  Ledger!LedgerNext
  <1> DEFINE k == KeyOf[r]
  <1>1. RowOk(r) /\ k \in Keys /\ r # None
    BY RequestsAssumption DEF ConnectInv, PayInv
  <1>2. KeyOk(k)
    BY <1>1 DEF ConnectInv, PayInv
  <1>3. claimant[k] = r /\ r \notin posted
    BY <1>1 DEF RowOk
  <1>4. status[k] \in Ledger!Open
    <2>1. status[k] \in Statuses
      BY <1>1 DEF ConnectInv, ConnectTypeOK
    <2>2. status[k] # "none" /\ status[k] \notin FinalStatuses
      BY <1>1, <1>2, <1>3 DEF KeyOk, PostsNoMore
    <2> QED BY <2>1, <2>2 DEF Statuses, Ledger!Open
  <1>5. Posts[k] = 0
    BY <1>1, <1>3, CountOf
  <1>6. Posts' = [Posts EXCEPT ![k] = 1]
    <2>1. {q \in posted' : KeyOf[q] = k} = {r}
      BY <1>1, <1>3, PostedOnce
    <2>2. Cardinality({q \in posted' : KeyOf[q] = k}) = 1
      BY <2>1, FS_Singleton
    <2>3. \A l \in Keys \ {k} : {q \in posted' : KeyOf[q] = l} = {q \in posted : KeyOf[q] = l}
      OBVIOUS
    <2>4. DOMAIN Posts = Keys /\ Posts' = [l \in Keys |-> Cardinality({q \in posted' : KeyOf[q] = l})]
      BY DEF Posts
    <2>5. \A l \in Keys : Posts'[l] = IF l = k THEN 1 ELSE Posts[l]
      BY <2>2, <2>3, <2>4 DEF Posts
    <2> QED BY <2>4, <2>5 DEF Posts
  <1>7. Ledger!Post(k)
    BY <1>4, <1>5, <1>6 DEF Ledger!Post
  <1> QED BY <1>1, <1>7 DEF Ledger!LedgerNext

\* What an execution records is a later status, and true.
LEMMA RecordImplements ==
    ASSUME ConnectInv, NEW r \in Requests, at[r] \in {"outcome", "caught", "merge"},
           Store(KeyOf[r], got[r]), UNCHANGED posted
    PROVE  [Ledger!LedgerNext]_<<status, Posts>>
  <1> DEFINE k == KeyOf[r]
             s == got[r]
  <1>1. RowOk(r) /\ k \in Keys /\ s \in Statuses /\ Posts' = Posts
    BY RequestsAssumption DEF ConnectInv, ConnectTypeOK, PayInv, Posts
  <1>2. CASE s \notin Successors(status[k])
    BY <1>1, <1>2 DEF Store
  <1>3. CASE s \in Successors(status[k])
    <2>1. s \in Ledger!Successors(status[k])
      BY <1>3 DEF Successors, Ledger!Successors, FinalStatuses, Ledger!Final
    <2>2. s \in Ledger!Open \cup Ledger!Final
      BY <1>3 DEF Successors, Ledger!Open, Ledger!Final, FinalStatuses
    <2>3. Posts[k] = IF claimant[k] \in posted THEN 1 ELSE 0
      BY <1>1, CountOf
    <2>4. (s = "not_signed" => Posts[k] = 0) /\ (s = "accepted" => Posts[k] = 1)
      BY <1>1, <2>3 DEF RowOk, TrueOf, FinalStatuses
    <2>5. status' = [status EXCEPT ![k] = s]
      BY <1>3 DEF Store, Written
    <2>6. Ledger!Record(k, s)
      BY <1>1, <2>1, <2>4, <2>5 DEF Ledger!Record
    <2> QED BY <1>1, <2>2, <2>6 DEF Ledger!LedgerNext
  <1> QED BY <1>2, <1>3

\* Every step is one of the ledger, or none.
LEMMA LedgerStep ==
    ASSUME ConnectInv, [Next]_vars
    PROVE  [Ledger!LedgerNext]_<<status, Posts>>
  <1>1. ASSUME UNCHANGED <<status, posted>> PROVE UNCHANGED <<status, Posts>>
    BY <1>1 DEF Posts
  <1>2. ASSUME NEW r \in Requests, CommitClaim(r) PROVE [Ledger!LedgerNext]_<<status, Posts>>
    <2>1. RowOk(r) /\ KeyOf[r] \in Keys /\ Posts' = Posts
      BY <1>2, RequestsAssumption DEF ConnectInv, PayInv, CommitClaim, workerVars, Posts
    <2>2. CASE fresh[r]
      <3>1. Ledger!Claim(KeyOf[r])
        BY <1>2, <2>1, <2>2 DEF CommitClaim, Written, RowOk, Ledger!Claim
      <3> QED BY <2>1, <3>1 DEF Ledger!LedgerNext
    <2>3. CASE ~fresh[r]
      BY <1>2, <2>1, <2>3 DEF CommitClaim, payVars
    <2> QED BY <2>2, <2>3
  <1>3. ASSUME NEW r \in Requests, RecordOutcome(r) \/ RecordLookup(r)
        PROVE  [Ledger!LedgerNext]_<<status, Posts>>
    <2>1. at[r] \in {"outcome", "caught", "merge"} /\ UNCHANGED posted
      BY <1>3 DEF RecordOutcome, RecordLookup, workerVars
    <2>2. CASE Store(KeyOf[r], got[r])
      BY <2>1, <2>2, RecordImplements
    <2>3. CASE UNCHANGED payVars
      BY <1>1, <2>1, <2>3 DEF payVars
    <2> QED BY <1>3, <2>2, <2>3 DEF RecordOutcome, RecordLookup
  <1>4. ASSUME NEW r \in Requests, Processes(r) PROVE [Ledger!LedgerNext]_<<status, Posts>>
    <2>1. CASE tx[r] = "signed" /\ Becomes(r, "dispatching") /\ posted' = posted \cup {r}
      BY <2>1, PostImplements DEF Becomes, payVars
    <2>2. CASE UNCHANGED posted
      BY <1>1, <1>4, <2>2 DEF Processes, Becomes, payVars
    <2> QED BY <1>4, <2>1, <2>2 DEF Processes
  <1>5. ASSUME NEW r \in Requests, StorePlan(r) PROVE UNCHANGED <<status, posted>>
    BY <1>5 DEF StorePlan, Written, workerVars, ConnectInv, ConnectTypeOK
  <1>6. ASSUME NEW r \in Requests, Executing(r),
               ~(CommitClaim(r) \/ StorePlan(r) \/ RecordOutcome(r) \/ RecordLookup(r))
        PROVE  UNCHANGED <<status, posted>>
    BY <1>6 DEF Executing, RunFails, Sign, ReadClaim, PayFails, Prepare, Approved, Refused,
         SubmitAnswered,
                OutcomeLost, Lookup, payVars, workerVars
  <1>7. ASSUME NEW r \in Requests, Deciding(r) \/ Timeout(r) \/ Users(r) \/ Expires(r) \/ Observed(r)
        PROVE  UNCHANGED <<status, posted>>
    BY <1>7 DEF Deciding, Checked, CheckFails, RememberRead, RememberWritten, Timeout, Users, Accept,
         Confirm,
                ConfirmAndRemember, Cancel, Expires, Observed, Becomes, payVars, workerVars
  <1>8. ASSUME NEW c \in Conns, Probing(c) \/ Pause(c) \/ PageGone(c) PROVE UNCHANGED <<status, posted>>
    BY <1>8 DEF Probing, ProbeExecutes, ProbeFails, Pause, PageGone, payVars, workerVars
  <1>9. ASSUME \/ \E kind \in perm : Revoke(kind)
               \/ Lock \/ UNCHANGED vars
        PROVE  UNCHANGED <<status, posted>>
    BY <1>9 DEF Revoke, Lock, vars, payVars, workerVars
  <1> QED BY <1>1, <1>2, <1>3, <1>4, <1>5, <1>6, <1>7, <1>8, <1>9 DEF Next, System

\* The records of the payments, however often they are asked for and over however
\* many connections, implement the ledger: one claim, one transaction at most, a
\* true final status (claimConnectPayment, storeConnectPaymentRecord).
THEOREM RequestsImplementLedger == Spec => PaymentsSpec
  <1>1. Init => Ledger!LedgerInit
    <2> SUFFICES ASSUME Init PROVE Ledger!LedgerInit
      OBVIOUS
    <2>1. \A k \in Keys : {r \in posted : KeyOf[r] = k} = {}
      BY DEF Init
    <2>2. Posts = [k \in Keys |-> 0]
      BY <2>1, FS_EmptySet DEF Posts
    <2> QED BY <2>2 DEF Init, Ledger!LedgerInit
  <1>2. ConnectInv /\ [Next]_vars => [Ledger!LedgerNext]_<<status, Posts>>
    BY LedgerStep
  <1> QED BY <1>1, <1>2, ConnectInvariant, PTL DEF Spec, PaymentsSpec, Ledger!LedgerSpec
=============================================================================
