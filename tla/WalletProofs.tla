---------------------------- MODULE WalletProofs ----------------------------
(***************************************************************************)
(* Proofs about the session of a wallet and about its key-value store, for *)
(* any set of pages, operations, handles, keys and values and any bounds.  *)
(*                                                                         *)
(* BarrierInv is an inductive invariant of WalletLockBarrier; the session  *)
(* around it keeps SessionInv and implements the barrier's own             *)
(* specification.                                                          *)
(*                                                                         *)
(* The K-V engine never loses a value that is in use.  The collection      *)
(* deletes what it listed and then saw in no head; the inductive invariant *)
(* says why that is enough: what is listed has been stored, and a value    *)
(* that has been stored enters a head only from an earlier state of the    *)
(* same head, never anew, because every new reference has a fresh id.      *)
(***************************************************************************)
EXTENDS WalletSession, WalletKvEngine, TLAPS

-----------------------------------------------------------------------------
(* The barrier                                                             *)

USE DEF Attempts, Epochs, WindowStates, Phases

\* Whatever operations o and windows w a job installs with commit(), the parts
\* of the invariant about them hold again, provided that a clear barrier stays
\* clean (commit() does not re-evaluate it).
LEMMA CommitKeeps ==
    ASSUME NEW o \in [Operations -> OperationStates],
           NEW S \in SUBSET Peers,
           NEW w \in [S -> WindowStates],
           NEW armed \in BOOLEAN,
           Commit(o, w, armed),
           phase \in Phases,
           \A oper \in Operations : Consistent(o[oper]),
           S \subseteq participants',
           phase = "none" => S = {} /\ \A oper \in Operations : o[oper].done
    PROVE  /\ DOMAIN windows' \in SUBSET Peers
           /\ windows' \in [DOMAIN windows' -> WindowStates]
           /\ ops' \in [Operations -> OperationStates]
           /\ phase' \in Phases
           /\ timer' \in BOOLEAN
           /\ OperationsConsistent'
           /\ PhaseIsJudged'
           /\ ClearMeansClean'
           /\ WaitsForParticipants'
  <1>1. ops' = o /\ windows' = w /\ DOMAIN w = S
    BY DEF Commit
  <1>2. DOMAIN windows' \in SUBSET Peers /\ windows' \in [DOMAIN windows' -> WindowStates]
    BY <1>1
  <1>3. phase' \in Phases /\ timer' \in BOOLEAN /\ (phase' = "none" => ~timer')
    BY DEF Commit, Judged
  <1>4. OperationsConsistent' /\ WaitsForParticipants'
    BY <1>1 DEF OperationsConsistent, WaitsForParticipants
  <1>5. phase' = Judged(o, w)
    <2>1. CASE phase = "none"
      <3>1. ~HasError(o, w) /\ ~Waiting(o, w)
        BY <1>1, <2>1 DEF HasError, Waiting, Consistent
      <3> QED
        BY <2>1, <3>1 DEF Commit, Judged
    <2>2. CASE phase # "none"
      BY <2>2 DEF Commit
    <2> QED
      BY <2>1, <2>2
  <1>6. PhaseIsJudged'
    BY <1>1, <1>5 DEF PhaseIsJudged, Judged, HasError, Waiting
  <1>7. ClearMeansClean'
    BY <1>1, <1>3, <1>5 DEF ClearMeansClean, Judged, HasError, Waiting, Consistent
  <1> QED
    BY <1>1, <1>2, <1>3, <1>4, <1>6, <1>7

\* The invariant holds when the Worker starts.
LEMMA BarrierInitInv == BarrierInit => BarrierInv
  <1> SUFFICES ASSUME BarrierInit PROVE BarrierInv
    OBVIOUS
  <1>1. DOMAIN windows = {} /\ windows \in [DOMAIN windows -> WindowStates]
    <2>1. windows = [p \in {} |-> "waiting"]
      BY DEF BarrierInit
    <2> QED
      BY <2>1
  <1>2. BarrierTypeOK
    <2>1. ops \in [Operations -> OperationStates]
      BY DEF BarrierInit, OperationStates
    <2>2. attempt \in Attempts /\ epoch \in Epochs /\ reported \in [Peers -> Attempts]
      BY BarrierAssumption DEF BarrierInit
    <2> QED
      BY <1>1, <2>1, <2>2 DEF BarrierInit, BarrierTypeOK
  <1>3. OperationsConsistent
    BY DEF BarrierInit, OperationsConsistent, Consistent
  <1>4. PhaseIsJudged
    BY <1>1 DEF BarrierInit, PhaseIsJudged, Judged, HasError, Waiting
  <1>5. ClearMeansClean /\ WaitsForParticipants /\ SettledPagesAnswered
        /\ ReportsAnswerAttempts
    BY <1>1 DEF BarrierInit, ClearMeansClean, WaitsForParticipants,
                SettledPagesAnswered, ReportsAnswerAttempts
  <1> QED
    BY <1>2, <1>3, <1>4, <1>5 DEF BarrierInv

\* A new attempt: every participant is waited for and no error is left.
LEMMA StartAttemptInv ==
    ASSUME BarrierInv, NEW o \in [Operations -> OperationStates], StartAttempt(o),
           \A oper \in Operations : o[oper].done => o[oper].stage = "none",
           epoch' \in Epochs,
           participants # {} \/ \E oper \in Operations : ~o[oper].done
    PROVE  BarrierInv'
  <1>1. DOMAIN windows' = participants /\ windows' \in [DOMAIN windows' -> WindowStates]
        /\ \A p \in DOMAIN windows' : windows'[p] = "waiting"
    BY DEF StartAttempt
  <1>2. ops' \in [Operations -> OperationStates]
    BY DEF StartAttempt, OperationStates
  <1>3. attempt' = attempt + 1 /\ attempt \in Nat /\ attempt' \in Attempts
    BY BarrierAssumption DEF BarrierInv, BarrierTypeOK, StartAttempt
  <1>4. BarrierTypeOK'
    BY <1>1, <1>2, <1>3 DEF StartAttempt, BarrierInv, BarrierTypeOK
  <1>5. OperationsConsistent'
    BY DEF StartAttempt, OperationsConsistent, Consistent, OperationStates
  <1>6. PhaseIsJudged'
    <2>1. phase' = "pending" /\ (DOMAIN windows' # {} \/ \E oper \in Operations : ~ops'[oper].done)
      BY <1>1 DEF StartAttempt
    <2>2. \A oper \in Operations : ~ops'[oper].error
      BY DEF StartAttempt
    <2> QED
      BY <1>1, <2>1, <2>2 DEF PhaseIsJudged, Judged, HasError, Waiting
  <1>7. ClearMeansClean' /\ WaitsForParticipants'
    BY <1>1 DEF StartAttempt, ClearMeansClean, WaitsForParticipants
  <1>8. SettledPagesAnswered'
    BY <1>1 DEF StartAttempt, SettledPagesAnswered
  <1>9. ReportsAnswerAttempts'
    <2> SUFFICES ASSUME NEW r \in reports
                 PROVE  r.attempt <= attempt' /\ r.attempt # attempt'
      BY DEF StartAttempt, ReportsAnswerAttempts
    <2>1. r.attempt \in Nat /\ r.attempt <= attempt
      BY BarrierAssumption DEF BarrierInv, BarrierTypeOK, Reports, ReportsAnswerAttempts
    <2> QED
      BY <1>3, <2>1
  <1> QED
    BY <1>4, <1>5, <1>6, <1>7, <1>8, <1>9 DEF BarrierInv

\* A job that only re-evaluates the phase after changing operations or windows,
\* and never stops waiting for a page, keeps the invariant.
LEMMA CommitInv ==
    ASSUME BarrierInv,
           NEW o \in [Operations -> OperationStates],
           NEW w \in [DOMAIN windows -> WindowStates],
           NEW armed \in BOOLEAN,
           Commit(o, w, armed),
           \A oper \in Operations : Consistent(o[oper]),
           phase = "none" => \A oper \in Operations : o[oper].done,
           UNCHANGED <<participants, attempt, epoch, reported, reports>>
    PROVE  BarrierInv'
  <1>1. /\ phase \in Phases /\ DOMAIN windows \in SUBSET Peers
        /\ DOMAIN windows \subseteq participants'
        /\ phase = "none" => DOMAIN windows = {}
    BY DEF BarrierInv, BarrierTypeOK, WaitsForParticipants, ClearMeansClean
  <1>2. /\ DOMAIN windows' \in SUBSET Peers
        /\ windows' \in [DOMAIN windows' -> WindowStates]
        /\ ops' \in [Operations -> OperationStates]
        /\ phase' \in Phases /\ timer' \in BOOLEAN
        /\ OperationsConsistent' /\ PhaseIsJudged' /\ ClearMeansClean'
        /\ WaitsForParticipants'
    BY <1>1, CommitKeeps
  <1>3. BarrierTypeOK'
    BY <1>2 DEF BarrierInv, BarrierTypeOK
  <1>4. DOMAIN windows' = DOMAIN windows /\ (phase = "none" => phase' = "none")
    BY DEF Commit
  <1>5. SettledPagesAnswered' /\ ReportsAnswerAttempts'
    BY <1>4 DEF BarrierInv, SettledPagesAnswered, ReportsAnswerAttempts
  <1> QED
    BY <1>2, <1>3, <1>5 DEF BarrierInv

\* Every step of the barrier preserves the invariant.
LEMMA BarrierStepInv == BarrierInv /\ [BarrierNext]_barrierVars => BarrierInv'
  <1> SUFFICES ASSUME BarrierInv, [BarrierNext]_barrierVars PROVE BarrierInv'
    OBVIOUS
  <1> USE DEF BarrierInv, BarrierTypeOK
  <1>1. ASSUME NEW e \in Epochs, Begin(e) PROVE BarrierInv'
    <2>1. FreshOperations \in [Operations -> OperationStates]
      BY DEF FreshOperations, OperationStates
    <2>2. \A oper \in Operations : ~FreshOperations[oper].done
      BY DEF FreshOperations
    <2> QED
      BY <1>1, <2>1, <2>2, BarrierAssumption, StartAttemptInv DEF Begin
  <1>2. ASSUME Retry PROVE BarrierInv'
    <2>1. \A oper \in Operations : ops[oper].done => ops[oper].stage = "none"
      BY DEF OperationsConsistent, Consistent
    <2>2. participants # {} \/ \E oper \in Operations : ~ops[oper].done
      BY <1>2 DEF Retry, CanRetry, PhaseIsJudged, Judged, HasError, Waiting,
                  WaitsForParticipants, OperationsConsistent, Consistent
    <2> QED
      BY <1>2, <2>1, <2>2, StartAttemptInv DEF Retry
  <1>3. ASSUME NEW oper \in Operations, StartOperation(oper) PROVE BarrierInv'
    <2>1. ops' \in [Operations -> OperationStates]
      BY <1>3 DEF StartOperation, OperationStates
    <2>2. \A q \in Operations : /\ ops'[q].done = ops[q].done
                                /\ ops'[q].error = ops[q].error
                                /\ ops'[q].stage = "none" <=> ops[q].stage = "none"
      BY <1>3 DEF StartOperation, OperationStates
    <2>3. OperationsConsistent'
      BY <2>2 DEF OperationsConsistent, Consistent
    <2>4. PhaseIsJudged'
      BY <1>3, <2>2 DEF StartOperation, PhaseIsJudged, Judged, HasError, Waiting
    <2>5. ClearMeansClean' /\ WaitsForParticipants'
      BY <1>3, <2>2 DEF StartOperation, ClearMeansClean, WaitsForParticipants
    <2>6. SettledPagesAnswered' /\ ReportsAnswerAttempts'
      BY <1>3 DEF StartOperation, SettledPagesAnswered, ReportsAnswerAttempts
    <2> QED
      BY <1>3, <2>1, <2>3, <2>4, <2>5, <2>6 DEF StartOperation
  <1>4. ASSUME NEW oper \in Operations, NEW ok \in BOOLEAN,
               (StartFails(oper) /\ ok = FALSE) \/ FinishOperation(oper, ok)
        PROVE  BarrierInv'
    <2> DEFINE settled == [stage |-> "none", done |-> ok, error |-> ~ok]
               o == [ops EXCEPT ![oper] = settled]
    <2>1. settled \in OperationStates /\ Consistent(settled)
      BY DEF OperationStates, Consistent
    <2>2. o \in [Operations -> OperationStates]
      BY <2>1
    <2>3. \A q \in Operations : Consistent(o[q])
      BY <2>1 DEF OperationsConsistent
    <2>4. phase # "none"
      BY <1>4 DEF StartFails, FinishOperation, ClearMeansClean
    <2>5. Commit(o, windows, timer)
          /\ UNCHANGED <<participants, attempt, epoch, reported, reports>>
      BY <1>4 DEF StartFails, FinishOperation
    <2> QED
      BY <2>2, <2>3, <2>4, <2>5, CommitInv
  <1>5. ASSUME Timeout PROVE BarrierInv'
    <2> DEFINE o == [oper \in Operations |->
                       [ops[oper] EXCEPT !.error = ops[oper].error \/ ~ops[oper].done]]
               w == [p \in DOMAIN windows |-> "error"]
    <2>1. o \in [Operations -> OperationStates] /\ w \in [DOMAIN windows -> WindowStates]
      BY DEF OperationStates
    <2>2. \A oper \in Operations : Consistent(o[oper])
      BY DEF OperationsConsistent, Consistent, OperationStates
    <2>3. phase # "none"
      BY <1>5 DEF Timeout, ClearMeansClean
    <2>4. Commit(o, w, FALSE)
          /\ UNCHANGED <<participants, attempt, epoch, reported, reports>>
      BY <1>5 DEF Timeout
    <2> QED
      BY <2>1, <2>2, <2>3, <2>4, CommitInv
  <1>6. ASSUME NEW p \in Peers, Register(p) PROVE BarrierInv'
    <2>1. p \notin DOMAIN windows
      BY <1>6 DEF Register, WaitsForParticipants
    <2>2. CASE phase = "none"
      <3>1. UNCHANGED <<ops, windows, phase, timer>>
        BY <1>6, <2>2 DEF Register
      <3> QED
        BY <1>6, <2>2, <3>1 DEF Register, OperationsConsistent, PhaseIsJudged, Judged,
             HasError, Waiting, ClearMeansClean, WaitsForParticipants,
             SettledPagesAnswered, ReportsAnswerAttempts
    <2>3. CASE phase # "none"
      <3> DEFINE S == DOMAIN windows \cup {p}
                 w == [q \in S |-> IF q = p THEN "waiting" ELSE windows[q]]
      <3>1. Commit(ops, w, timer)
        BY <1>6, <2>1, <2>3 DEF Register
      <3>2. w \in [S -> WindowStates] /\ S \in SUBSET Peers /\ S \subseteq participants'
        BY <1>6 DEF Register, WaitsForParticipants
      <3>3. /\ DOMAIN windows' \in SUBSET Peers
            /\ windows' \in [DOMAIN windows' -> WindowStates]
            /\ ops' \in [Operations -> OperationStates]
            /\ phase' \in Phases /\ timer' \in BOOLEAN
            /\ OperationsConsistent' /\ PhaseIsJudged' /\ ClearMeansClean'
            /\ WaitsForParticipants'
        <4> HIDE DEF S, w
        <4> QED
          BY <2>3, <3>1, <3>2, CommitKeeps DEF OperationsConsistent
      <3>4. DOMAIN windows' = S
        BY <3>1 DEF Commit
      <3>5. SettledPagesAnswered' /\ ReportsAnswerAttempts'
        BY <1>6, <2>3, <3>4 DEF Register, SettledPagesAnswered, ReportsAnswerAttempts
      <3> QED
        BY <1>6, <3>3, <3>5 DEF Register
    <2> QED
      BY <2>2, <2>3
  <1>7. ASSUME NEW p \in Peers, Remove(p) PROVE BarrierInv'
    <2> DEFINE S == DOMAIN windows \ {p}
               w == Restricted(windows, S)
    <2>1. Commit(ops, w, timer)
      BY <1>7 DEF Remove
    <2>2. w \in [S -> WindowStates] /\ S \in SUBSET Peers /\ S \subseteq participants'
      BY <1>7 DEF Remove, WaitsForParticipants, Restricted
    <2>3. phase = "none" => S = {} /\ \A oper \in Operations : ops[oper].done
      BY DEF ClearMeansClean
    <2>4. /\ DOMAIN windows' \in SUBSET Peers
          /\ windows' \in [DOMAIN windows' -> WindowStates]
          /\ ops' \in [Operations -> OperationStates]
          /\ phase' \in Phases /\ timer' \in BOOLEAN
          /\ OperationsConsistent' /\ PhaseIsJudged' /\ ClearMeansClean'
          /\ WaitsForParticipants'
      <3> HIDE DEF S, w
      <3> QED
        BY <2>1, <2>2, <2>3, CommitKeeps DEF OperationsConsistent
    <2>5. DOMAIN windows' = S /\ (phase = "none" => phase' = "none")
      BY <2>1 DEF Commit, Restricted
    <2>6. reported' \in [Peers -> Attempts] /\ reports' \in SUBSET Reports
          /\ participants' \in SUBSET Peers
      BY <1>7, BarrierAssumption DEF Remove
    <2>7. SettledPagesAnswered'
      BY <1>7, <2>5 DEF Remove, SettledPagesAnswered
    <2>8. ReportsAnswerAttempts'
      BY <1>7 DEF Remove, ReportsAnswerAttempts, Reports
    <2> QED
      BY <1>7, <2>4, <2>6, <2>7, <2>8 DEF Remove
  <1>8. ASSUME NEW p \in Peers, NEW ok \in BOOLEAN, NEW e \in Epochs,
               SettlePage(p, e, ok) \/ ReportPageFailure(p, e)
        PROVE  BarrierInv'
    <2>1. reported' \in [Peers -> Attempts] /\ reports' \in SUBSET Reports
      <3>1. \A b \in BOOLEAN :
              [peer |-> p, epoch |-> e, attempt |-> attempt, ok |-> b] \in Reports
        BY DEF Reports
      <3>2. reported' \in [Peers -> Attempts]
        BY <1>8 DEF SettlePage, ReportPageFailure
      <3> QED
        BY <1>8, <3>1, <3>2 DEF SettlePage, ReportPageFailure
    <2>2. UNCHANGED <<participants, windows, ops, attempt, epoch, phase, timer>>
      BY <1>8 DEF SettlePage, ReportPageFailure
    <2>3. \A q \in Peers : reported[q] = attempt => reported'[q] = attempt
      BY <1>8 DEF SettlePage, ReportPageFailure
    <2>4. SettledPagesAnswered'
      BY <2>2, <2>3 DEF SettledPagesAnswered
    <2>5. ReportsAnswerAttempts'
      BY <1>8, <2>2, <2>3, BarrierAssumption
         DEF SettlePage, ReportPageFailure, ReportsAnswerAttempts, Reports
    <2>6. OperationsConsistent' /\ PhaseIsJudged' /\ ClearMeansClean' /\ WaitsForParticipants'
      BY <2>2 DEF OperationsConsistent, PhaseIsJudged, Judged, HasError, Waiting,
                  ClearMeansClean, WaitsForParticipants
    <2> QED
      BY <2>1, <2>2, <2>4, <2>5, <2>6
  <1>9. ASSUME NEW r \in reports, DeliverReport(r) PROVE BarrierInv'
    <2> DEFINE S == IF r.ok THEN DOMAIN windows \ {r.peer} ELSE DOMAIN windows
               w == IF r.ok THEN Restricted(windows, DOMAIN windows \ {r.peer})
                            ELSE [windows EXCEPT ![r.peer] = "error"]
    <2>1. CASE ~Accepted(r)
      <3>1. UNCHANGED <<participants, windows, ops, attempt, epoch, phase, timer, reported>>
            /\ reports' \subseteq reports
        BY <1>9, <2>1 DEF DeliverReport
      <3> QED
        BY <3>1 DEF OperationsConsistent, PhaseIsJudged, Judged, HasError, Waiting,
                    ClearMeansClean, WaitsForParticipants, SettledPagesAnswered,
                    ReportsAnswerAttempts
    <2>2. CASE Accepted(r)
      <3>1. Commit(ops, w, timer) /\ phase # "none"
        BY <1>9, <2>2 DEF DeliverReport, Accepted, ClearMeansClean
      <3>2. w \in [S -> WindowStates] /\ S \in SUBSET Peers /\ S \subseteq participants'
        BY <1>9 DEF DeliverReport, WaitsForParticipants, Restricted
      <3>3. /\ DOMAIN windows' \in SUBSET Peers
            /\ windows' \in [DOMAIN windows' -> WindowStates]
            /\ ops' \in [Operations -> OperationStates]
            /\ phase' \in Phases /\ timer' \in BOOLEAN
            /\ OperationsConsistent' /\ PhaseIsJudged' /\ ClearMeansClean'
            /\ WaitsForParticipants'
        <4> HIDE DEF S, w
        <4> QED
          BY <3>1, <3>2, CommitKeeps DEF OperationsConsistent
      <3>4. DOMAIN windows' = S
        BY <3>1, <3>2 DEF Commit
      <3>5. SettledPagesAnswered'
        BY <1>9, <2>2, <3>1, <3>4
           DEF DeliverReport, Accepted, SettledPagesAnswered, ReportsAnswerAttempts
      <3>6. ReportsAnswerAttempts'
        BY <1>9 DEF DeliverReport, ReportsAnswerAttempts
      <3> QED
        BY <1>9, <3>3, <3>5, <3>6 DEF DeliverReport
    <2> QED
      BY <2>1, <2>2
  <1>10. CASE UNCHANGED barrierVars
    BY <1>10 DEF barrierVars, OperationsConsistent, PhaseIsJudged, Judged, HasError,
         Waiting, ClearMeansClean, WaitsForParticipants, SettledPagesAnswered,
         ReportsAnswerAttempts
  <1> HIDE DEF BarrierInv, BarrierTypeOK
  <1> QED
    BY <1>1, <1>2, <1>3, <1>4, <1>5, <1>6, <1>7, <1>8, <1>9, <1>10
       DEF BarrierNext, CleanupStep

\* Whatever the order of lock requests, clean-up results, time-outs, page
\* reports, arrivals and departures, the barrier keeps its invariant.
THEOREM BarrierInvariant == BarrierSpec => []BarrierInv
  <1> QED
    BY BarrierInitInv, BarrierStepInv, PTL DEF BarrierSpec

\* When the barrier lets a wallet be activated again, every clean-up operation
\* has succeeded, no page is waited for and no time-out is left armed.
THEOREM GateOpensClean == BarrierSpec => []ClearMeansClean
  <1>1. BarrierInv => ClearMeansClean
    BY DEF BarrierInv
  <1> QED
    BY <1>1, BarrierInvariant, PTL

\* No page is taken for settled on the strength of a report of another attempt.
THEOREM StaleReportsNeverSettle == BarrierSpec => []SettledPagesAnswered
  <1>1. BarrierInv => SettledPagesAnswered
    BY DEF BarrierInv
  <1> QED
    BY <1>1, BarrierInvariant, PTL

\* An operation still running is never started a second time, and one that has
\* succeeded is not executed again within the same lock.
THEOREM CleanupNeverOverlaps == BarrierSpec => NoOverlappingCleanup
  <1>1. ASSUME BarrierInv, BarrierNext PROVE DoneOnce
    <2> USE DEF BarrierInv, BarrierTypeOK, DoneOnce
    <2>1. ASSUME NEW e \in Epochs, e > epoch, Begin(e) PROVE DoneOnce
      <3>1. epoch' # epoch
        BY <1>1, <2>1, BarrierAssumption DEF Begin
      <3>2. \A oper \in Operations : ops[oper].stage = "none"
        BY <1>1, <2>1 DEF Begin, CanBegin, ClearMeansClean
      <3> QED
        BY <3>1, <3>2
    <2>2. ASSUME Retry PROVE DoneOnce
      BY <1>1, <2>2 DEF Retry, StartAttempt
    <2>3. ASSUME NEW o \in Operations, StartOperation(o) PROVE DoneOnce
      BY <1>1, <2>3 DEF StartOperation, OperationStates
    <2>4. ASSUME NEW o \in Operations, NEW ok \in BOOLEAN, StartFails(o) \/ FinishOperation(o, ok)
          PROVE  DoneOnce
      BY <1>1, <2>4 DEF StartFails, FinishOperation, Commit, OperationStates,
                  OperationsConsistent, Consistent
    <2>5. ASSUME Timeout PROVE DoneOnce
      BY <1>1, <2>5 DEF Timeout, Commit, OperationStates
    <2>6. ASSUME UNCHANGED ops PROVE DoneOnce
      BY <2>6
    <2>7. ASSUME NEW p \in Peers, Register(p) \/ Remove(p) PROVE UNCHANGED ops
      BY <2>7 DEF Register, Remove, Commit
    <2>8. ASSUME NEW p \in Peers, NEW ok \in BOOLEAN, NEW e \in Epochs,
                 SettlePage(p, e, ok) \/ ReportPageFailure(p, e)
          PROVE  UNCHANGED ops
      BY <2>8 DEF SettlePage, ReportPageFailure
    <2>9. ASSUME NEW r \in reports, DeliverReport(r) PROVE UNCHANGED ops
      BY <2>9 DEF DeliverReport, Commit
    <2> QED
      BY <1>1, <2>1, <2>2, <2>3, <2>4, <2>5, <2>6, <2>7, <2>8, <2>9
         DEF BarrierNext, CleanupStep
  <1>2. BarrierInv /\ [BarrierNext]_barrierVars => [DoneOnce]_barrierVars
    BY <1>1
  <1> QED
    BY <1>2, BarrierInvariant, PTL DEF BarrierSpec, NoOverlappingCleanup

-----------------------------------------------------------------------------
(* The session around the barrier                                          *)

\* The invariant holds when the Worker starts.
LEMMA SessionInitInv == SessionInit => SessionInv
  <1> SUFFICES ASSUME SessionInit PROVE SessionInv
    OBVIOUS
  <1>1. BarrierInv
    BY BarrierInitInv DEF SessionInit
  <1>2. SessionTypeOK
    <2>1. 0 \in Epochs
      BY BarrierAssumption
    <2> QED
      BY <2>1 DEF SessionInit, SessionTypeOK, NoRequest, Request, Steps
  <1> QED
    BY <1>1, <1>2 DEF SessionInit, BarrierInit, SessionInv, UnlockedOnlyWhenClean,
       EpochsOrdered, LockedTasksBlocked, ClearMeansRevoked, RevocationFirst

\* The barrier's jobs that take no epoch are steps under any epoch, as under the first.
LEMMA ZeroEpoch == 0 \in Epochs
  BY BarrierAssumption

\* Every step of the session is a step of the barrier or leaves it alone.
LEMMA SessionStepsBarrier ==
    ASSUME SessionInv, [SessionNext]_vars
    PROVE  [BarrierNext]_barrierVars
  <1> USE DEF SessionInv, SessionTypeOK
  <1>1. ASSUME PerformGlobalLock PROVE [BarrierNext]_barrierVars
    <2>1. CASE CommitLock
      <3>1. epoch \in Nat /\ sessionEpoch \in Nat /\ epoch <= sessionEpoch
        BY BarrierAssumption DEF BarrierInv, BarrierTypeOK, EpochsOrdered
      <3>2. sessionEpoch + 1 \in Epochs /\ sessionEpoch + 1 > epoch
        BY <2>1, <3>1, BarrierAssumption DEF CommitLock, CanRotate
      <3> QED
        BY <2>1, <3>2 DEF CommitLock, BarrierNext
    <2>2. CASE Retry
      BY <2>2 DEF BarrierNext
    <2> QED
      BY <1>1, <2>1, <2>2 DEF PerformGlobalLock
  <1>2. ASSUME NEW oper \in Operations, RunOperation(oper) \/ RevokeFails(oper)
        PROVE  BarrierNext
    BY <1>2, ZeroEpoch DEF RunOperation, RevokeFails, BarrierNext, CleanupStep
  <1>3. ASSUME NEW p \in Peers, NEW ok \in BOOLEAN, NEW e \in Told,
               SettlePage(p, e, ok) \/ ReportPageFailure(p, e)
        PROVE  BarrierNext
    <2>1. e \in Epochs
      BY BarrierAssumption DEF Told
    <2> QED
      BY <1>3, <2>1 DEF BarrierNext, CleanupStep
  <1>4. CASE Lock
    BY <1>1, <1>4 DEF Lock
  <1>5. CASE BindingFailed
    BY <1>1, <1>5 DEF BindingFailed
  <1>6. CASE UnlockStart \/ UnlockDecrypt \/ UnlockRefused \/ UnlockCommit \/ BindingComplete
    BY <1>6 DEF UnlockStart, UnlockDecrypt, UnlockRefused, UnlockCommit, BindingComplete
  <1>7. CASE UnlockFailed \/ ChangePasswordStart \/ ChangePasswordCommit \/ ChangePasswordFails
    BY <1>7 DEF UnlockFailed, ChangePasswordStart, ChangePasswordCommit, ChangePasswordFails
  <1>8. CASE UNCHANGED vars
    BY <1>8 DEF vars
  <1>9. ASSUME NEW oper \in Operations, NEW ok \in BOOLEAN, FinishOperation(oper, ok)
        PROVE  BarrierNext
    BY <1>9, ZeroEpoch DEF BarrierNext, CleanupStep
  <1>10. ASSUME Timeout PROVE BarrierNext
    BY <1>10, ZeroEpoch DEF BarrierNext, CleanupStep
  <1>11. ASSUME NEW p \in Peers, Register(p) \/ Remove(p) PROVE BarrierNext
    BY <1>11, ZeroEpoch DEF BarrierNext, CleanupStep
  <1>12. ASSUME NEW r \in reports, DeliverReport(r) PROVE BarrierNext
    BY <1>12, ZeroEpoch DEF BarrierNext, CleanupStep
  <1> QED
    BY <1>2, <1>3, <1>4, <1>5, <1>6, <1>7, <1>8, <1>9, <1>10, <1>11, <1>12
       DEF SessionNext, BarrierOnly

\* The gate opens only on a revoked lock: no operation can have succeeded before.
LEMMA ClearFollows ==
    ASSUME BarrierInv', RevocationFirst'
    PROVE  ClearMeansRevoked'
  BY BarrierAssumption DEF BarrierInv, ClearMeansClean, RevocationFirst, ClearMeansRevoked

\* A job of the barrier alone cannot close an open gate, and cannot finish an
\* operation before the grants are revoked.
LEMMA BarrierJobKeeps ==
    ASSUME SessionInv, BarrierInv', UNCHANGED sessionVars, epoch' = epoch,
           phase = "none" => phase' = "none",
           revocationPending =>
             \A oper \in Operations : ~ops'[oper].done /\ ops'[oper].stage # "running"
    PROVE  SessionInv'
  <1>1. RevocationFirst'
    BY DEF sessionVars, RevocationFirst
  <1>2. ClearMeansRevoked'
    BY <1>1, ClearFollows
  <1> QED
    BY <1>1, <1>2 DEF SessionInv, sessionVars, SessionTypeOK, UnlockedOnlyWhenClean,
       EpochsOrdered, LockedTasksBlocked

\* Every step of the session preserves the invariant.
LEMMA SessionStepInv == SessionInv /\ [SessionNext]_vars => SessionInv'
  <1> SUFFICES ASSUME SessionInv, [SessionNext]_vars PROVE SessionInv'
    OBVIOUS
  <1>a. BarrierInv'
    BY SessionStepsBarrier, BarrierStepInv DEF SessionInv
  <1>b. /\ sessionEpoch \in Nat /\ epoch \in Nat /\ announced \in Nat
        /\ epoch <= announced /\ announced <= sessionEpoch
        /\ CanRotate => sessionEpoch + 1 \in Epochs
        /\ 0 \in Epochs
    BY BarrierAssumption DEF SessionInv, SessionTypeOK, BarrierInv, BarrierTypeOK, CanRotate,
                              EpochsOrdered
  <1> DEFINE Named == /\ SessionTypeOK' /\ UnlockedOnlyWhenClean' 
                      /\ LockedTasksBlocked' /\ RevocationFirst' /\ EpochsOrdered'
  <1>c. ASSUME Named PROVE SessionInv'
    BY <1>a, <1>c, ClearFollows DEF SessionInv
  <1> USE DEF SessionInv, SessionTypeOK, Request, Steps, NoRequest
  <1>1. ASSUME PerformGlobalLock,
               request' \in Request,
               UNCHANGED tasksBlocked
        PROVE  SessionInv'
    <2>1. CASE CommitLock
      <3>1. phase' = "pending" /\ epoch' = sessionEpoch + 1 /\ sessionEpoch' = sessionEpoch + 1
        BY <2>1 DEF CommitLock, Begin, StartAttempt
      <3>2. \A oper \in Operations : ops'[oper].stage = "scheduled" /\ ~ops'[oper].done
        BY <2>1 DEF CommitLock, Begin, StartAttempt, FreshOperations
      <3>3. /\ vaultStatus' = "locked" /\ owner' = FALSE /\ key' = FALSE
            /\ revocationPending' = TRUE
            /\ sessionEpoch' \in Epochs /\ announced' = sessionEpoch'
        BY <1>b, <2>1 DEF CommitLock
      <3>4. SessionTypeOK'
        BY <1>1, <3>3
      <3>5. RevocationFirst'
        BY <3>2 DEF RevocationFirst
      <3>6. UnlockedOnlyWhenClean' /\ LockedTasksBlocked'
        BY <3>1, <3>3 DEF UnlockedOnlyWhenClean, EpochsOrdered, LockedTasksBlocked
      <3>7. EpochsOrdered'
        BY <1>b, <2>1, <3>1 DEF CommitLock, EpochsOrdered
      <3> QED
        BY <3>4, <3>5, <3>6, <3>7, <1>c
    <2>2. CASE Retry /\ announced' = sessionEpoch /\ UNCHANGED LockSession
      <3>1. phase # "none" /\ phase' = "pending" /\ epoch' = epoch
        BY <2>2 DEF Retry, CanRetry, StartAttempt
      <3>2. \A oper \in Operations : ops'[oper].done = ops[oper].done
              /\ (ops'[oper].stage = ops[oper].stage \/ ops'[oper].stage = "scheduled")
        BY <2>2 DEF Retry, StartAttempt
      <3>3. Named
        BY <1>1, <1>b, <2>2, <3>1, <3>2 DEF LockSession, UnlockedOnlyWhenClean,
           EpochsOrdered, LockedTasksBlocked, RevocationFirst
      <3> QED
        BY <3>3, <1>c
    <2>3. CASE UNCHANGED <<barrierVars, LockSession, announced>>
      <3>1. Named
        BY <1>1, <1>b, <2>3 DEF barrierVars, LockSession, UnlockedOnlyWhenClean,
           EpochsOrdered, LockedTasksBlocked, RevocationFirst
      <3> QED
        BY <3>1, <1>c
    <2> QED
      BY <1>1, <2>1, <2>2, <2>3 DEF PerformGlobalLock
  <1>2. CASE Lock
    BY <1>1, <1>2 DEF Lock
  <1>3. CASE BindingFailed
    <2>1. request' \in Request
      BY <1>3 DEF BindingFailed
    <2> QED
      BY <1>1, <1>3, <2>1 DEF BindingFailed
  <1>4. ASSUME NEW oper \in Operations, RunOperation(oper) PROVE SessionInv'
    <2>1. UNCHANGED <<phase, epoch, vaultStatus, sessionEpoch, owner, key, request, announced>>
          /\ revocationPending' = FALSE
      BY <1>4 DEF RunOperation, StartOperation
    <2>2. tasksBlocked' \in BOOLEAN /\ (vaultStatus = "locked" => tasksBlocked')
      <3>1. CASE revocationPending = TRUE
        <4>1. tasksBlocked' = TRUE
          BY <1>4, <3>1 DEF RunOperation
        <4> QED
          BY <4>1
      <3>2. CASE revocationPending = FALSE
        <4>1. tasksBlocked' = tasksBlocked
          BY <1>4, <3>2 DEF RunOperation
        <4> QED
          BY <3>2, <4>1 DEF LockedTasksBlocked
      <3> QED
        BY <3>1, <3>2
    <2>3. SessionTypeOK'
      BY <2>1, <2>2
    <2>4. UnlockedOnlyWhenClean'
      BY <2>1 DEF UnlockedOnlyWhenClean
    <2>5. LockedTasksBlocked'
      BY <2>1, <2>2 DEF EpochsOrdered, LockedTasksBlocked
    <2>6. RevocationFirst'
      BY <2>1 DEF RevocationFirst
    <2>7. EpochsOrdered'
      BY <1>b, <2>1 DEF EpochsOrdered
    <2> QED
      BY <2>3, <2>4, <2>5, <2>6, <2>7, <1>c
  <1>5. ASSUME NEW oper \in Operations, RevokeFails(oper) PROVE SessionInv'
    <2>1. /\ UNCHANGED <<epoch, vaultStatus, sessionEpoch, owner, key, request, announced,
                       revocationPending>>
          /\ revocationPending /\ tasksBlocked'
          /\ phase = "none" => phase' = "none"
      BY <1>5 DEF RevokeFails, StartFails, Commit
    <2>2. ops' = [ops EXCEPT ![oper] = [stage |-> "none", done |-> FALSE, error |-> TRUE]]
      BY <1>5 DEF RevokeFails, StartFails, Commit
    <2>3. \A q \in Operations : ~ops'[q].done /\ ops'[q].stage # "running"
      BY <2>1, <2>2 DEF RevocationFirst, BarrierInv, BarrierTypeOK
    <2>4. Named
      BY <1>b, <2>1, <2>3 DEF UnlockedOnlyWhenClean, EpochsOrdered,
         LockedTasksBlocked, RevocationFirst
    <2> QED
      BY <2>4, <1>c
  <1>6. ASSUME NEW oper \in Operations, NEW ok \in BOOLEAN, BarrierOnly(FinishOperation(oper, ok))
        PROVE  SessionInv'
    <2>1. ~revocationPending
      BY <1>6 DEF BarrierOnly, FinishOperation, RevocationFirst
    <2>2. epoch' = epoch /\ (phase = "none" => phase' = "none") /\ UNCHANGED sessionVars
      BY <1>6 DEF BarrierOnly, FinishOperation, Commit
    <2> QED
      BY <1>a, <2>1, <2>2, BarrierJobKeeps
  <1>7. ASSUME BarrierOnly(Timeout) PROVE SessionInv'
    <2>1. epoch' = epoch /\ (phase = "none" => phase' = "none") /\ UNCHANGED sessionVars
      BY <1>7 DEF BarrierOnly, Timeout, Commit
    <2>2. \A oper \in Operations : ops'[oper].done = ops[oper].done /\ ops'[oper].stage = ops[oper].stage
      BY <1>7 DEF BarrierOnly, Timeout, Commit, BarrierInv, BarrierTypeOK, OperationStates
    <2> QED
      BY <1>a, <2>1, <2>2, BarrierJobKeeps DEF RevocationFirst
  <1>8. ASSUME NEW p \in Peers, BarrierOnly(Register(p)) \/ BarrierOnly(Remove(p))
        PROVE  SessionInv'
    <2>1. /\ epoch' = epoch /\ (phase = "none" => phase' = "none")
          /\ UNCHANGED sessionVars /\ ops' = ops
      BY <1>8 DEF BarrierOnly, Register, Remove, Commit
    <2> QED
      BY <1>a, <2>1, BarrierJobKeeps DEF RevocationFirst
  <1>9. ASSUME NEW p \in Peers, NEW ok \in BOOLEAN, NEW e \in Told,
               BarrierOnly(SettlePage(p, e, ok)) \/ BarrierOnly(ReportPageFailure(p, e))
        PROVE  SessionInv'
    <2>1. epoch' = epoch /\ phase' = phase /\ UNCHANGED sessionVars /\ ops' = ops
      BY <1>9 DEF BarrierOnly, SettlePage, ReportPageFailure
    <2> QED
      BY <1>a, <2>1, BarrierJobKeeps DEF RevocationFirst
  <1>10. ASSUME NEW r \in reports, BarrierOnly(DeliverReport(r)) PROVE SessionInv'
    <2>1. /\ epoch' = epoch /\ (phase = "none" => phase' = "none")
          /\ UNCHANGED sessionVars /\ ops' = ops
      BY <1>10 DEF BarrierOnly, DeliverReport, Commit
    <2> QED
      BY <1>a, <2>1, BarrierJobKeeps DEF RevocationFirst
  <1>11. CASE UnlockStart \/ UnlockDecrypt \/ UnlockRefused \/ UnlockFailed
              \/ ChangePasswordFails \/ UNCHANGED vars
    <2>1. UNCHANGED <<barrierVars, vaultStatus, sessionEpoch, owner, key,
                      revocationPending, tasksBlocked, announced>>
      BY <1>11 DEF UnlockStart, UnlockDecrypt, UnlockRefused, UnlockFailed,
                   ChangePasswordFails, vars, sessionVars
    <2>2. request' \in Request
      BY <1>b, <1>11 DEF UnlockStart, UnlockDecrypt, UnlockRefused, UnlockFailed,
                   ChangePasswordFails, vars, sessionVars
    <2>3. Named
      BY <1>b, <2>1, <2>2 DEF barrierVars, UnlockedOnlyWhenClean, EpochsOrdered,
         LockedTasksBlocked, RevocationFirst
    <2> QED
      BY <2>3, <1>c
  <1>12. CASE UnlockCommit
    <2>1. Named
      BY <1>b, <1>12 DEF UnlockCommit, UnlockAllowed, barrierVars, UnlockedOnlyWhenClean,
         EpochsOrdered, LockedTasksBlocked, RevocationFirst, ClearMeansRevoked
    <2> QED
      BY <2>1, <1>c
  <1>13. CASE BindingComplete
    <2>1. Named
      BY <1>b, <1>13 DEF BindingComplete, BindingIntact, barrierVars, UnlockedOnlyWhenClean,
         EpochsOrdered, LockedTasksBlocked, RevocationFirst
    <2> QED
      BY <2>1, <1>c
  <1>14. CASE ChangePasswordStart \/ ChangePasswordCommit
    <2>1. /\ UNCHANGED <<barrierVars, vaultStatus, key, revocationPending, tasksBlocked,
                        announced>>
          /\ sessionEpoch' = sessionEpoch + 1 /\ sessionEpoch' \in Epochs
      BY <1>b, <1>14 DEF ChangePasswordStart, ChangePasswordCommit
    <2>2. owner' \in BOOLEAN /\ (owner = TRUE => owner' = TRUE)
      BY <1>14 DEF ChangePasswordStart, ChangePasswordCommit
    <2>a. request' \in Request
      BY <1>b, <1>14 DEF ChangePasswordStart, ChangePasswordCommit
    <2>3. SessionTypeOK'
      BY <2>1, <2>2, <2>a
    <2>4. UnlockedOnlyWhenClean'
      BY <2>1, <2>2 DEF barrierVars, UnlockedOnlyWhenClean
    <2>5. LockedTasksBlocked'
      BY <2>1 DEF barrierVars, LockedTasksBlocked
    <2>6. RevocationFirst'
      BY <2>1 DEF barrierVars, RevocationFirst
    <2>7. EpochsOrdered'
      BY <1>b, <2>1 DEF barrierVars, EpochsOrdered
    <2> QED
      BY <2>3, <2>4, <2>5, <2>6, <2>7, <1>c
  <1> HIDE DEF SessionInv
  <1> QED
    BY <1>2, <1>3, <1>4, <1>5, <1>6, <1>7, <1>8, <1>9, <1>10, <1>11, <1>12, <1>13, <1>14
       DEF SessionNext

\* Whatever request is being served when a lock comes, the session invariant holds.
THEOREM SessionInvariant == SessionSpec => []SessionInv
  <1> QED
    BY SessionInitInv, SessionStepInv, PTL DEF SessionSpec

\* The session drives the barrier only through the barrier's own steps: whatever
\* is proved of BarrierSpec holds of the running wallet.
THEOREM SessionImplementsBarrier == SessionSpec => BarrierSpec
  <1>1. SessionInit => BarrierInit
    BY DEF SessionInit
  <1>2. SessionInv /\ [SessionNext]_vars => [BarrierNext]_barrierVars
    BY SessionStepsBarrier
  <1> QED
    BY <1>1, <1>2, SessionInvariant, PTL DEF SessionSpec, BarrierSpec

\* The private key is in memory exactly while the wallet is unlocked, and never
\* while the clean-up of a lock is under way.
THEOREM KeyOnlyWhenClean == SessionSpec => []UnlockedOnlyWhenClean
  <1>1. SessionInv => UnlockedOnlyWhenClean
    BY DEF SessionInv
  <1> QED
    BY <1>1, SessionInvariant, PTL

\* While the wallet is locked and the lock has done its security revocation, no
\* background task of the old session can run.
THEOREM TasksStayBlocked == SessionSpec => []LockedTasksBlocked
  <1>1. SessionInv => LockedTasksBlocked
    BY DEF SessionInv
  <1> QED
    BY <1>1, SessionInvariant, PTL

\* An unlock that a lock overtook does not undo it.
THEOREM LockIsNotUndone == SessionSpec => NoUnlockAcrossLock
  <1> DEFINE Step == (vaultStatus = "locked" /\ vaultStatus' = "unlocked") =>
                        epoch <= request.epoch
  <1>1. ASSUME SessionInv, SessionNext PROVE Step
    <2>1. CASE UnlockCommit
      <3>1. epoch <= sessionEpoch
        BY <1>1, BarrierAssumption
           DEF SessionInv, SessionTypeOK, BarrierInv, BarrierTypeOK, EpochsOrdered
      <3> QED
        BY <2>1, <3>1 DEF UnlockCommit, UnlockAllowed
    <2>2. ASSUME vaultStatus' = vaultStatus \/ vaultStatus' = "locked" PROVE Step
      BY <2>2
    <2>3. ASSUME PerformGlobalLock PROVE Step
      BY <2>3, <2>2 DEF PerformGlobalLock, CommitLock, LockSession
    <2>4. ASSUME NEW oper \in Operations, RunOperation(oper) \/ RevokeFails(oper) PROVE Step
      BY <2>4, <2>2 DEF RunOperation, RevokeFails
    <2>5. ASSUME UNCHANGED sessionVars PROVE Step
      BY <2>5, <2>2 DEF sessionVars
    <2>6. CASE UnlockStart \/ UnlockDecrypt \/ UnlockRefused \/ BindingComplete \/ UnlockFailed
               \/ ChangePasswordStart \/ ChangePasswordCommit \/ ChangePasswordFails
      BY <2>6, <2>2 DEF UnlockStart, UnlockDecrypt, UnlockRefused, BindingComplete,
         UnlockFailed, ChangePasswordStart, ChangePasswordCommit, ChangePasswordFails
    <2> HIDE DEF Step
    <2> QED
      BY <1>1, <2>1, <2>3, <2>4, <2>5, <2>6 DEF SessionNext, Lock, BindingFailed, BarrierOnly
  <1>2. SessionInv /\ [SessionNext]_vars => [Step]_vars
    BY <1>1
  <1> QED
    BY <1>2, SessionInvariant, PTL DEF SessionSpec, NoUnlockAcrossLock

-----------------------------------------------------------------------------
(* The key-value engine                                                    *)

NewRefs(w) == RefsOf(plan[w].next) \ RefsOf(plan[w].base.entries)
HeadRefs(p) == RefsOf(heads[p].entries)

\* What is written or listed has an id that was drawn.
Drawn ==
    /\ \A p \in Partitions : \A r \in HeadRefs(p) : r.id \in allocated
    /\ \A i \in Ids : stored[i] # Nothing => i \in allocated
    /\ listed \subseteq allocated
    /\ \A p \in Partitions : heads[p].revision = 0 => HeadRefs(p) = {}

\* A queued batch was computed from its head, unless the head has moved on.
PlanFromHead ==
    \A w \in Writers : writer[w] = "batch" =>
        /\ plan[w].base.revision <= heads[op[w].p].revision
        /\ plan[w].base.revision = heads[op[w].p].revision =>
               plan[w].base = heads[op[w].p]

\* The new references of a queued batch are known to nobody else.
NewUnknown ==
    \A w \in Writers : writer[w] = "batch" =>
        \A r \in NewRefs(w) :
            /\ r.id \in allocated
            /\ r.id \notin listed
            /\ stored[r.id] = Nothing
            /\ \A p \in Partitions : \A q \in HeadRefs(p) : q.id # r.id
            /\ \A s \in NewRefs(w) : s.id = r.id => s = r

NewApart ==
    \A v, w \in Writers :
        v # w /\ writer[v] = "batch" /\ writer[w] = "batch" =>
            \A r \in NewRefs(v), s \in NewRefs(w) : r.id # s.id

\* The collection: what it may delete is in no head that it has read.
Unused(i, p) == \A r \in HeadRefs(p) : r.id # i

CandidatesUnused ==
    /\ gc = "heads" => \A i \in listed \ used : \A p \in Partitions \ unread : Unused(i, p)
    /\ gc = "sweep" => \A i \in listed : \A p \in Partitions : Unused(i, p)

KvInv ==
    /\ KvTypeOK
    /\ HeadsIntact
    /\ Drawn
    /\ PlanFromHead
    /\ NewUnknown
    /\ NewApart
    /\ CandidatesUnused
-----------------------------------------------------------------------------
(* Lemmas about references                                                 *)

\* The references of the entries of a head are references.
LEMMA RefsTyped ==
    ASSUME NEW e \in Entries
    PROVE  /\ RefsOf(e) \subseteq Ref
           /\ \A k \in Keys : e[k] # Nothing => e[k] \in RefsOf(e)
BY KvAssumption DEF Entries, RefsOf

\* A reference of the next entries comes from the base or from a put content.
LEMMA NextRefs ==
    ASSUME NEW base \in Entries, NEW write \in Writes,
           NEW idOf \in [PutContents(write) -> Ids],
           NEW r \in RefsOf(NextEntries(base, write, idOf))
    PROVE  \/ r \in RefsOf(base)
           \/ \E c \in PutContents(write) : r = [id |-> idOf[c], content |-> c]
<1>1. PICK k \in Keys : /\ NextEntries(base, write, idOf)[k] # Nothing
                        /\ r = NextEntries(base, write, idOf)[k]
    BY DEF RefsOf
<1>2. CASE write[k] = Keep
    <2>1. r = base[k] /\ base[k] # Nothing
        BY <1>1, <1>2 DEF NextEntries
    <2> QED BY <2>1 DEF RefsOf
<1>3. CASE write[k] # Keep
    <2>1. write[k] # Nothing /\ r = [id |-> idOf[write[k]], content |-> write[k]]
        BY <1>1, <1>3 DEF NextEntries
    <2>2. write[k] \in PutContents(write)
        BY <2>1, <1>3 DEF PutContents
    <2> QED BY <2>1, <2>2
<1> QED BY <1>2, <1>3

\* The next entries are entries.
LEMMA NextTyped ==
    ASSUME NEW base \in Entries, NEW write \in Writes,
           NEW idOf \in [PutContents(write) -> Ids]
    PROVE  NextEntries(base, write, idOf) \in Entries
<1>1. ASSUME NEW k \in Keys
      PROVE  NextEntries(base, write, idOf)[k] \in Ref \cup {Nothing}
    <2>1. CASE write[k] \in {Keep, Nothing}
        BY <2>1, KvAssumption DEF NextEntries, Entries
    <2>2. CASE write[k] \notin {Keep, Nothing}
        <3>1. write[k] \in PutContents(write) /\ write[k] \in Contents
            BY <2>2 DEF PutContents, Writes
        <3>2. idOf[write[k]] \in Ids
            BY <3>1
        <3>3. NextEntries(base, write, idOf)[k] = [id |-> idOf[write[k]], content |-> write[k]]
            BY <2>2 DEF NextEntries
        <3> QED BY <3>1, <3>2, <3>3 DEF Ref
    <2> QED BY <2>1, <2>2
<1>2. NextEntries(base, write, idOf) = [k \in Keys |-> NextEntries(base, write, idOf)[k]]
    BY DEF NextEntries
<1> QED BY <1>1, <1>2 DEF Entries

\* The references a commit adds have fresh ids, one for each content.
LEMMA FreshRefs ==
    ASSUME NEW base \in Entries, NEW write \in Writes,
           NEW idOf \in [PutContents(write) -> Ids],
           Allocates(idOf, base, write),
           NEW r \in RefsOf(NextEntries(base, write, idOf)) \ RefsOf(base)
    PROVE  /\ r.id \notin allocated
           /\ \E c \in PutContents(write) : r.id = idOf[c]
           /\ \A s \in RefsOf(NextEntries(base, write, idOf)) \ RefsOf(base) :
                  s.id = r.id => s = r
<1> DEFINE new == {c \in DOMAIN idOf : \A q \in RefsOf(base) : q.content # c}
<1>1. ASSUME NEW s \in RefsOf(NextEntries(base, write, idOf)) \ RefsOf(base)
      PROVE  \E c \in new : c \in PutContents(write) /\ s = [id |-> idOf[c], content |-> c]
    <2>1. PICK c \in PutContents(write) : s = [id |-> idOf[c], content |-> c]
        BY <1>1, NextRefs
    <2>2. c \in new
        BY <2>1, <1>1 DEF Allocates
    <2> QED BY <2>1, <2>2
<1>2. PICK c \in new : c \in PutContents(write) /\ r = [id |-> idOf[c], content |-> c]
    BY <1>1
<1>3. r.id \notin allocated
    BY <1>2 DEF Allocates
<1>4. ASSUME NEW s \in RefsOf(NextEntries(base, write, idOf)) \ RefsOf(base),
             s.id = r.id
      PROVE  s = r
    <2>1. PICK d \in new : s = [id |-> idOf[d], content |-> d]
        BY <1>1
    <2>2. c = d
        BY <1>2, <2>1, <1>4 DEF Allocates
    <2> QED BY <1>2, <2>1, <2>2
<1> QED BY <1>2, <1>3, <1>4
-----------------------------------------------------------------------------
(* The inductive step                                                      *)

\* The empty head is a head without references.
LEMMA NoHeadTyped ==
    /\ NoHead \in HeadRecord
    /\ RefsOf(NoHead.entries) = {}
    /\ NoPlan \in [base : HeadRecord, next : Entries]
<1>1. NoHead.entries = [k \in Keys |-> Nothing]
    BY DEF NoHead
<1>2. NoHead.entries \in Entries
    BY <1>1 DEF Entries
<1>3. NoHead \in HeadRecord
    BY <1>2 DEF NoHead, HeadRecord
<1>4. RefsOf(NoHead.entries) = {}
    BY <1>1 DEF RefsOf
<1> QED BY <1>2, <1>3, <1>4 DEF NoPlan

\* The invariant holds initially.
LEMMA KvInitInv == KvInit => KvInv
<1> SUFFICES ASSUME KvInit PROVE KvInv
    OBVIOUS
<1>1. \A p \in Partitions : HeadRefs(p) = {}
    BY NoHeadTyped DEF KvInit, HeadRefs
<1>2. \A w \in Writers : writer[w] = "idle" /\ op[w] = NoOp /\ plan[w] = NoPlan
    BY DEF KvInit
<1>3. KvTypeOK
    BY NoHeadTyped DEF KvInit, KvTypeOK, Answered
<1>4. HeadsIntact
    BY <1>1 DEF HeadsIntact, HeadRefs
<1>5. Drawn
    BY <1>1 DEF Drawn, KvInit
<1>6. PlanFromHead /\ NewUnknown /\ NewApart
    BY <1>2 DEF PlanFromHead, NewUnknown, NewApart
<1>7. CandidatesUnused
    BY DEF KvInit, CandidatesUnused
<1> QED BY <1>3, <1>4, <1>5, <1>6, <1>7 DEF KvInv

\* A step that writes nothing, queues no batch and does not collect.
LEMMA QuietStep ==
    ASSUME KvInv, KvTypeOK', UNCHANGED storeVars, UNCHANGED gcVars,
           \A w \in Writers : writer'[w] = "batch" =>
               writer[w] = "batch" /\ op'[w] = op[w] /\ plan'[w] = plan[w]
    PROVE  KvInv'
<1>1. heads' = heads /\ stored' = stored /\ allocated' = allocated
    BY DEF storeVars
<1>2. gc' = gc /\ listed' = listed /\ used' = used /\ unread' = unread
    BY DEF gcVars
<1>3. \A p \in Partitions : HeadRefs(p)' = HeadRefs(p)
    BY <1>1 DEF HeadRefs
<1>4. \A w \in Writers : writer'[w] = "batch" => NewRefs(w)' = NewRefs(w)
    BY DEF NewRefs
<1>5. HeadsIntact'
    BY <1>1 DEF KvInv, HeadsIntact
<1>6. Drawn'
    BY <1>1, <1>2, <1>3 DEF KvInv, Drawn
<1>7. PlanFromHead'
    BY <1>1 DEF KvInv, PlanFromHead
<1>8. NewUnknown'
    BY <1>1, <1>2, <1>3, <1>4 DEF KvInv, NewUnknown
<1>9. NewApart'
    BY <1>4 DEF KvInv, NewApart
<1>10. CandidatesUnused'
    BY <1>2, <1>3 DEF KvInv, CandidatesUnused, Unused
<1> QED BY <1>5, <1>6, <1>7, <1>8, <1>9, <1>10 DEF KvInv

\* The end of a commit keeps the types.
LEMMA AnswerTyped ==
    ASSUME KvTypeOK, NEW w \in Writers, NEW answer \in Answered,
           AnswerCommit(w, answer), UNCHANGED storeVars, UNCHANGED gcVars, clears' = clears
    PROVE  /\ KvTypeOK'
           /\ \A v \in Writers : writer'[v] = "batch" =>
                  writer[v] = "batch" /\ op'[v] = op[v] /\ plan'[v] = plan[v]
<1>1. writer' \in [Writers -> {"head", "batch", "landed"} \cup Answered]
    BY DEF KvTypeOK, AnswerCommit
<1>2. plan' \in [Writers -> [base : HeadRecord, next : Entries]]
    BY NoHeadTyped DEF KvTypeOK, AnswerCommit
<1>3. op' \in [Writers -> [p : Partitions, write : Writes, cond : Nat \cup {Unconditional},
                           attempt : Nat, era : Nat] \cup {NoOp}]
    BY DEF KvTypeOK, AnswerCommit
<1>4. \A v \in Writers : IF v = w THEN writer'[v] = answer
                          ELSE writer'[v] = writer[v] /\ op'[v] = op[v] /\ plan'[v] = plan[v]
    BY DEF KvTypeOK, AnswerCommit
<1>5. answer \notin {"head", "batch"}
    BY DEF Answered
<1>6. \A v \in Writers : writer'[v] \in {"head", "batch"} => op'[v] # NoOp
    BY <1>4, <1>5 DEF KvTypeOK
<1>7. KvTypeOK'
    BY <1>1, <1>2, <1>3, <1>6 DEF KvTypeOK, storeVars, gcVars
<1> QED BY <1>4, <1>5, <1>7

\* A commit starts: its caller's input is taken.
LEMMA CommitStep ==
    ASSUME KvInv, NEW w \in Writers, StartCommit(w)
    PROVE  KvInv'
<1>1. UNCHANGED storeVars /\ UNCHANGED gcVars /\ plan' = plan /\ clears' = clears
    BY DEF StartCommit, walletVars
<1>2. writer' = [writer EXCEPT ![w] = "head"]
    BY DEF StartCommit
<1>3. PICK p \in Partitions, write \in Writes : \E cond \in {Unconditional, heads[p].revision} :
          op' = [op EXCEPT ![w] = [p |-> p, write |-> write, cond |-> cond,
                                   attempt |-> 1, era |-> clears]]
    BY DEF StartCommit
<1>4. PICK cond \in {Unconditional, heads[p].revision} :
          op' = [op EXCEPT ![w] = [p |-> p, write |-> write, cond |-> cond,
                                   attempt |-> 1, era |-> clears]]
    BY <1>3
<1> DEFINE new == [p |-> p, write |-> write, cond |-> cond, attempt |-> 1, era |-> clears]
<1>5. cond \in Nat \cup {Unconditional} /\ clears \in Nat
    BY DEF KvInv, KvTypeOK, HeadRecord
<1>6. new \in [p : Partitions, write : Writes, cond : Nat \cup {Unconditional}, attempt : Nat, era : Nat]
    BY <1>5
<1>7. new # NoOp
    BY DEF NoOp
<1> HIDE DEF new
<1>8. op' = [op EXCEPT ![w] = new]
    BY <1>4 DEF new
<1>9. op' \in [Writers -> [p : Partitions, write : Writes, cond : Nat \cup {Unconditional},
                           attempt : Nat, era : Nat] \cup {NoOp}]
    BY <1>6, <1>8 DEF KvInv, KvTypeOK
<1>10. \A v \in Writers : writer'[v] \in {"head", "batch"} => op'[v] # NoOp
    BY <1>2, <1>7, <1>8 DEF KvInv, KvTypeOK
<1>11. writer' \in [Writers -> {"head", "batch", "landed"} \cup Answered]
    BY <1>2 DEF KvInv, KvTypeOK
<1>12. KvTypeOK'
    BY <1>1, <1>9, <1>10, <1>11 DEF KvInv, KvTypeOK, storeVars, gcVars
<1>13. \A v \in Writers : writer'[v] = "batch" =>
           writer[v] = "batch" /\ op'[v] = op[v] /\ plan'[v] = plan[v]
    BY <1>1, <1>2, <1>8 DEF KvInv, KvTypeOK
<1> QED BY <1>1, <1>12, <1>13, QuietStep

\* A commit computes its batch: the new references are fresh.
LEMMA QueueStep ==
    ASSUME KvInv, NEW w \in Writers, writer[w] = "head",
           NEW idOf \in [PutContents(op[w].write) -> Ids],
           Allocates(idOf, heads[op[w].p].entries, op[w].write),
           allocated' = allocated \cup {idOf[c] : c \in DOMAIN idOf},
           plan' = [plan EXCEPT ![w] =
               [base |-> heads[op[w].p],
                next |-> NextEntries(heads[op[w].p].entries, op[w].write, idOf)]],
           writer' = [writer EXCEPT ![w] = "batch"],
           UNCHANGED <<heads, stored, op, clears>>, UNCHANGED gcVars
    PROVE  KvInv'
<1> DEFINE p == op[w].p
           write == op[w].write
           base == heads[p].entries
           next == NextEntries(base, write, idOf)
<1>1. op[w] \in [p : Partitions, write : Writes, cond : Nat \cup {Unconditional},
                 attempt : Nat, era : Nat]
    BY DEF KvInv, KvTypeOK
<1>2. p \in Partitions /\ write \in Writes
    BY <1>1
<1>3. heads[p] \in HeadRecord /\ base \in Entries
    BY <1>2 DEF KvInv, KvTypeOK, HeadRecord
<1>4. next \in Entries
    BY <1>2, <1>3, NextTyped
<1>5. /\ gc' = gc /\ listed' = listed /\ used' = used /\ unread' = unread
      /\ allocated \subseteq allocated'
    BY DEF gcVars
<1>6. plan'[w].base = heads[p] /\ plan'[w].next = next
    BY DEF KvInv, KvTypeOK
<1>7. \A v \in Writers \ {w} : plan'[v] = plan[v] /\ writer'[v] = writer[v]
    BY DEF KvInv, KvTypeOK
<1>8. NewRefs(w)' = RefsOf(next) \ RefsOf(base)
    BY <1>6 DEF NewRefs
<1>9. \A v \in Writers \ {w} : NewRefs(v)' = NewRefs(v)
    BY <1>7 DEF NewRefs
<1>10. \A r \in RefsOf(next) \ RefsOf(base) :
          /\ r.id \notin allocated
          /\ r.id \in allocated'
          /\ \A s \in RefsOf(next) \ RefsOf(base) : s.id = r.id => s = r
    <2> SUFFICES ASSUME NEW r \in RefsOf(next) \ RefsOf(base)
                 PROVE  /\ r.id \notin allocated
                        /\ r.id \in allocated'
                        /\ \A s \in RefsOf(next) \ RefsOf(base) : s.id = r.id => s = r
        OBVIOUS
    <2>1. /\ r.id \notin allocated
          /\ \E c \in PutContents(write) : r.id = idOf[c]
          /\ \A s \in RefsOf(next) \ RefsOf(base) : s.id = r.id => s = r
        BY <1>2, <1>3, FreshRefs
    <2> QED BY <2>1
<1>11. \A q \in Partitions : HeadRefs(q)' = HeadRefs(q)
    BY DEF HeadRefs
<1> HIDE DEF p, write, base, next
<1>12. KvTypeOK'
    <2>1. [base |-> heads[p], next |-> next] \in [base : HeadRecord, next : Entries]
        BY <1>3, <1>4
    <2>2. plan' \in [Writers -> [base : HeadRecord, next : Entries]]
        BY <2>1 DEF KvInv, KvTypeOK, p, next, base, write
    <2>3. allocated' \subseteq Ids
        BY DEF KvInv, KvTypeOK
    <2>4. writer' \in [Writers -> {"head", "batch", "landed"} \cup Answered]
        BY DEF KvInv, KvTypeOK
    <2>5. \A v \in Writers : writer'[v] \in {"head", "batch"} => op[v] # NoOp
        BY DEF KvInv, KvTypeOK
    <2> QED BY <2>2, <2>3, <2>4, <2>5, <1>5 DEF KvInv, KvTypeOK
<1>13. HeadsIntact'
    BY DEF KvInv, HeadsIntact
<1>14. Drawn'
    BY <1>5, <1>11 DEF KvInv, Drawn
<1>15. PlanFromHead'
    <2> SUFFICES ASSUME NEW v \in Writers, writer'[v] = "batch"
                 PROVE  /\ plan'[v].base.revision <= heads[op[v].p].revision
                        /\ plan'[v].base.revision = heads[op[v].p].revision =>
                               plan'[v].base = heads[op[v].p]
        BY DEF PlanFromHead
    <2>1. CASE v = w
        BY <2>1, <1>3, <1>6 DEF HeadRecord, p
    <2>2. CASE v # w
        BY <2>2, <1>7 DEF KvInv, PlanFromHead
    <2> QED BY <2>1, <2>2
<1>16. NewUnknown'
    <2> SUFFICES ASSUME NEW v \in Writers, writer'[v] = "batch", NEW r \in NewRefs(v)'
                 PROVE  /\ r.id \in allocated'
                        /\ r.id \notin listed'
                        /\ stored'[r.id] = Nothing
                        /\ \A q \in Partitions : \A t \in HeadRefs(q)' : t.id # r.id
                        /\ \A s \in NewRefs(v)' : s.id = r.id => s = r
        BY DEF NewUnknown
    <2>1. CASE v = w
        <3>1. r \in RefsOf(next) \ RefsOf(base)
            BY <2>1, <1>8
        <3>2. r.id \in Ids
            BY <3>1, <1>4, RefsTyped DEF Ref
        <3>3. r.id \notin allocated /\ r.id \in allocated'
            BY <3>1, <1>10
        <3>4. \A s \in NewRefs(v)' : s.id = r.id => s = r
            BY <3>1, <1>10, <2>1, <1>8
        <3>5. stored[r.id] = Nothing /\ r.id \notin listed
            BY <3>2, <3>3 DEF KvInv, Drawn
        <3>6. \A q \in Partitions : \A t \in HeadRefs(q) : t.id # r.id
            BY <3>3 DEF KvInv, Drawn
        <3> QED BY <3>3, <3>4, <3>5, <3>6, <1>5, <1>11
    <2>2. CASE v # w
        <3>1. r \in NewRefs(v) /\ writer[v] = "batch"
            BY <2>2, <1>7, <1>9
        <3> QED BY <3>1, <2>2, <1>5, <1>9, <1>11 DEF KvInv, NewUnknown
    <2> QED BY <2>1, <2>2
<1>17. NewApart'
    <2> SUFFICES ASSUME NEW v \in Writers, NEW u \in Writers, v # u,
                        writer'[v] = "batch", writer'[u] = "batch",
                        NEW r \in NewRefs(v)', NEW s \in NewRefs(u)'
                 PROVE  r.id # s.id
        BY DEF NewApart
    <2>1. \A x \in Writers \ {w} : writer'[x] = "batch" =>
              \A q \in NewRefs(x)' : q.id \in allocated
        BY <1>7, <1>9 DEF KvInv, NewUnknown
    <2>2. CASE v = w
        BY <2>1, <2>2, <1>8, <1>10
    <2>3. CASE u = w
        BY <2>1, <2>3, <1>8, <1>10
    <2>4. CASE v # w /\ u # w
        BY <2>4, <1>7, <1>9 DEF KvInv, NewApart
    <2> QED BY <2>2, <2>3, <2>4
<1>18. CandidatesUnused'
    BY <1>5, <1>11 DEF KvInv, CandidatesUnused, Unused
<1> QED BY <1>12, <1>13, <1>14, <1>15, <1>16, <1>17, <1>18 DEF KvInv

\* A commit lands: its head's references are those of the head before it or
\* the new ones, which are written with it.
LEMMA LandStep ==
    ASSUME KvInv, NEW w \in Writers, writer[w] = "batch",
           heads[op[w].p].revision = plan[w].base.revision,
           heads' = [heads EXCEPT ![op[w].p] =
               [revision |-> plan[w].base.revision + 1, entries |-> plan[w].next]],
           stored' = StoredWith(w),
           writer' = [writer EXCEPT ![w] = "landed"],
           UNCHANGED <<allocated, op, plan, clears>>, UNCHANGED gcVars
    PROVE  KvInv'
<1> DEFINE p == op[w].p
           base == plan[w].base
           next == plan[w].next
           head == [revision |-> base.revision + 1, entries |-> next]
<1>1. /\ gc' = gc /\ listed' = listed /\ used' = used /\ unread' = unread
      /\ allocated' = allocated
    BY DEF gcVars
<1>2. p \in Partitions
    BY DEF KvInv, KvTypeOK
<1>3. plan[w] \in [base : HeadRecord, next : Entries]
    BY DEF KvInv, KvTypeOK
<1>4. base \in HeadRecord /\ base.revision \in Nat /\ next \in Entries
    BY <1>3 DEF HeadRecord
<1>5. head \in HeadRecord
    BY <1>4 DEF HeadRecord
<1>6. base = heads[p]
    BY DEF KvInv, PlanFromHead
<1>7. heads'[p] = head /\ \A q \in Partitions \ {p} : heads'[q] = heads[q]
    BY <1>2 DEF KvInv, KvTypeOK
<1>8. NewRefs(w) = RefsOf(next) \ HeadRefs(p)
    BY <1>6 DEF NewRefs, HeadRefs
<1>9. HeadRefs(p)' = RefsOf(next)
    BY <1>7 DEF HeadRefs
<1>10. \A q \in Partitions \ {p} : HeadRefs(q)' = HeadRefs(q)
    BY <1>7 DEF HeadRefs
<1>11. ASSUME NEW q \in Partitions
       PROVE  HeadRefs(q)' \subseteq HeadRefs(q) \cup NewRefs(w)
    <2>1. CASE q = p
        BY <2>1, <1>8, <1>9
    <2>2. CASE q # p
        BY <2>2, <1>10
    <2> QED BY <2>1, <2>2
<1>12. \A r \in NewRefs(w) : r \in Ref /\ r.id \in Ids /\ r.content \in Contents
    BY <1>4, RefsTyped DEF NewRefs, Ref
<1>13. \A q \in Partitions : \A r \in HeadRefs(q) : r.id \in Ids
    BY RefsTyped DEF HeadRefs, KvInv, KvTypeOK, HeadRecord, Ref
<1>14. \A i \in Ids : (\A r \in NewRefs(w) : r.id # i) => stored'[i] = stored[i]
    BY DEF StoredWith, NewRefs
<1>15. \A r \in NewRefs(w) : stored'[r.id] = r.content
    <2> SUFFICES ASSUME NEW r \in NewRefs(w) PROVE stored'[r.id] = r.content
        OBVIOUS
    <2>1. \A s \in NewRefs(w) : s.id = r.id => s = r
        BY DEF KvInv, NewUnknown
    <2>2. (CHOOSE s \in NewRefs(w) : s.id = r.id) = r
        BY <2>1
    <2>3. stored'[r.id] = (CHOOSE s \in NewRefs(w) : s.id = r.id).content
        BY <1>12 DEF StoredWith, NewRefs
    <2> QED BY <2>2, <2>3
<1>16. \A v \in Writers : writer'[v] = "batch" =>
           v # w /\ writer[v] = "batch" /\ NewRefs(v)' = NewRefs(v)
    BY DEF KvInv, KvTypeOK, NewRefs
<1>17. \A i \in Ids : stored'[i] \in Contents \cup {Nothing}
    <2> SUFFICES ASSUME NEW i \in Ids PROVE stored'[i] \in Contents \cup {Nothing}
        OBVIOUS
    <2>1. CASE \A r \in NewRefs(w) : r.id # i
        BY <2>1, <1>14 DEF KvInv, KvTypeOK
    <2>2. CASE \E r \in NewRefs(w) : r.id = i
        BY <2>2, <1>12, <1>15
    <2> QED BY <2>1, <2>2
<1> HIDE DEF p, base, next, head
<1>18. KvTypeOK'
    <2>1. heads' \in [Partitions -> HeadRecord]
        BY <1>5 DEF KvInv, KvTypeOK, p, head, base, next
    <2>2. stored' \in [Ids -> Contents \cup {Nothing}]
        BY <1>17 DEF StoredWith
    <2>3. writer' \in [Writers -> {"head", "batch", "landed"} \cup Answered]
        BY DEF KvInv, KvTypeOK
    <2>4. \A v \in Writers : writer'[v] \in {"head", "batch"} => op'[v] # NoOp
        BY DEF KvInv, KvTypeOK
    <2> QED BY <2>1, <2>2, <2>3, <2>4, <1>1 DEF KvInv, KvTypeOK
<1>19. \A q \in Partitions : \A r \in HeadRefs(q) : stored'[r.id] = r.content
    <2> SUFFICES ASSUME NEW q \in Partitions, NEW r \in HeadRefs(q)
                 PROVE  stored'[r.id] = r.content
        OBVIOUS
    <2>1. stored[r.id] = r.content
        BY DEF KvInv, HeadsIntact, HeadRefs
    <2>2. \A s \in NewRefs(w) : s.id # r.id
        BY DEF KvInv, NewUnknown
    <2> QED BY <2>1, <2>2, <1>13, <1>14
<1>20. HeadsIntact'
    <2>1. \A q \in Partitions : \A r \in HeadRefs(q)' : stored'[r.id] = r.content
        <3> SUFFICES ASSUME NEW q \in Partitions, NEW r \in HeadRefs(q)'
                     PROVE  stored'[r.id] = r.content
            OBVIOUS
        <3>1. r \in HeadRefs(q) \cup NewRefs(w)
            BY <1>11
        <3> QED BY <3>1, <1>15, <1>19
    <2> QED BY <2>1 DEF HeadsIntact, HeadRefs
<1>21. Drawn'
    <2>1. \A q \in Partitions : \A r \in HeadRefs(q)' : r.id \in allocated
        <3> SUFFICES ASSUME NEW q \in Partitions, NEW r \in HeadRefs(q)'
                     PROVE  r.id \in allocated
            OBVIOUS
        <3>1. r \in HeadRefs(q) \cup NewRefs(w)
            BY <1>11
        <3> QED BY <3>1 DEF KvInv, Drawn, NewUnknown
    <2>2. \A i \in Ids : stored'[i] # Nothing => i \in allocated
        BY <1>14 DEF KvInv, Drawn, NewUnknown
    <2>3. \A q \in Partitions : heads'[q].revision = 0 => HeadRefs(q)' = {}
        BY <1>2, <1>4, <1>7, <1>10 DEF KvInv, Drawn, head
    <2> QED BY <2>1, <2>2, <2>3, <1>1 DEF KvInv, Drawn
<1>22. PlanFromHead'
    <2> SUFFICES ASSUME NEW v \in Writers, writer'[v] = "batch"
                 PROVE  /\ plan[v].base.revision <= heads'[op[v].p].revision
                        /\ plan[v].base.revision = heads'[op[v].p].revision =>
                               plan[v].base = heads'[op[v].p]
        BY DEF PlanFromHead
    <2>1. writer[v] = "batch"
        BY <1>16
    <2>2. op[v].p \in Partitions
        BY <2>1 DEF KvInv, KvTypeOK
    <2>3. plan[v].base.revision <= heads[op[v].p].revision
        BY <2>1 DEF KvInv, PlanFromHead
    <2>4. CASE op[v].p = p
        <3>1. heads'[p].revision = heads[p].revision + 1
            BY <1>6, <1>7 DEF head
        <3>2. heads[p].revision \in Nat /\ plan[v].base.revision \in Nat
            BY <1>2 DEF KvInv, KvTypeOK, HeadRecord
        <3> QED BY <2>3, <2>4, <3>1, <3>2
    <2>5. CASE op[v].p # p
        BY <2>1, <2>2, <2>5, <1>7 DEF KvInv, PlanFromHead
    <2> QED BY <2>4, <2>5
<1>23. NewUnknown'
    <2> SUFFICES ASSUME NEW v \in Writers, writer'[v] = "batch", NEW r \in NewRefs(v)'
                 PROVE  /\ r.id \in allocated'
                        /\ r.id \notin listed'
                        /\ stored'[r.id] = Nothing
                        /\ \A q \in Partitions : \A t \in HeadRefs(q)' : t.id # r.id
                        /\ \A s \in NewRefs(v)' : s.id = r.id => s = r
        BY DEF NewUnknown
    <2>1. v # w /\ writer[v] = "batch" /\ r \in NewRefs(v) /\ NewRefs(v)' = NewRefs(v)
        BY <1>16
    <2>2. /\ r.id \in allocated /\ r.id \notin listed /\ stored[r.id] = Nothing
          /\ \A q \in Partitions : \A t \in HeadRefs(q) : t.id # r.id
          /\ \A s \in NewRefs(v) : s.id = r.id => s = r
        BY <2>1 DEF KvInv, NewUnknown
    <2>3. \A s \in NewRefs(w) : s.id # r.id
        BY <2>1 DEF KvInv, NewApart
    <2>4. r.id \in Ids
        BY <2>2 DEF KvInv, KvTypeOK
    <2>5. stored'[r.id] = Nothing
        BY <2>2, <2>3, <2>4, <1>14
    <2>6. \A q \in Partitions : \A t \in HeadRefs(q)' : t.id # r.id
        <3> SUFFICES ASSUME NEW q \in Partitions, NEW t \in HeadRefs(q)'
                     PROVE  t.id # r.id
            OBVIOUS
        <3>1. t \in HeadRefs(q) \cup NewRefs(w)
            BY <1>11
        <3> QED BY <3>1, <2>2, <2>3
    <2> QED BY <2>1, <2>2, <2>5, <2>6, <1>1
<1>24. NewApart'
    BY <1>16 DEF KvInv, NewApart
<1>25. CandidatesUnused'
    <2>1. ASSUME NEW i \in listed, NEW q \in Partitions, Unused(i, q)
          PROVE  Unused(i, q)'
        <3> SUFFICES ASSUME NEW r \in HeadRefs(q)' PROVE r.id # i
            BY DEF Unused
        <3>1. r \in HeadRefs(q) \cup NewRefs(w)
            BY <1>11
        <3> QED BY <3>1, <2>1 DEF KvInv, NewUnknown, Unused
    <2> QED BY <2>1, <1>1 DEF KvInv, CandidatesUnused
<1> QED BY <1>18, <1>20, <1>21, <1>22, <1>23, <1>24, <1>25 DEF KvInv

\* The head is read: the commit ends, or it computes its batch.
LEMMA ReadHeadStep ==
    ASSUME KvInv, NEW w \in Writers, ReadHead(w)
    PROVE  KvInv'
<1>1. UNCHANGED <<heads, stored>> /\ UNCHANGED gcVars /\ clears' = clears /\ writer[w] = "head"
    BY DEF ReadHead, walletVars
<1>2. ASSUME NEW answer \in Answered, AnswerCommit(w, answer), UNCHANGED <<allocated, queue>>
      PROVE  KvInv'
    BY <1>1, <1>2, AnswerTyped, QuietStep DEF KvInv, storeVars
<1>3. "unavailable" \in Answered /\ "conflict" \in Answered /\ "ok" \in Answered
    BY DEF Answered
<1>4. ASSUME NEW idOf \in [PutContents(op[w].write) -> Ids],
             Allocates(idOf, heads[op[w].p].entries, op[w].write),
             allocated' = allocated \cup {idOf[c] : c \in DOMAIN idOf},
             plan' = [plan EXCEPT ![w] =
                 [base |-> heads[op[w].p],
                  next |-> NextEntries(heads[op[w].p].entries, op[w].write, idOf)]],
             writer' = [writer EXCEPT ![w] = "batch"],
             UNCHANGED op
      PROVE  KvInv'
    BY <1>1, <1>4, QueueStep
<1> QED BY <1>2, <1>3, <1>4 DEF ReadHead

\* The transaction of the batch: the commit lands, starts over or ends.
LEMMA BatchStep ==
    ASSUME KvInv, NEW w \in Writers, Batch(w)
    PROVE  KvInv'
<1> DEFINE p == op[w].p
           base == plan[w].base
<1>1. UNCHANGED allocated /\ UNCHANGED gcVars /\ clears' = clears /\ writer[w] = "batch"
    BY DEF Batch
<1>2. CASE /\ heads[p].revision = base.revision
           /\ heads' = [heads EXCEPT ![p] =
                  [revision |-> base.revision + 1, entries |-> plan[w].next]]
           /\ stored' = StoredWith(w)
           /\ writer' = [writer EXCEPT ![w] = "landed"]
           /\ UNCHANGED <<op, plan>>
    BY <1>1, <1>2, LandStep
<1>3. CASE /\ writer' = [writer EXCEPT ![w] = "head"]
           /\ op' = [op EXCEPT ![w].attempt = op[w].attempt + 1]
           /\ plan' = [plan EXCEPT ![w] = NoPlan]
           /\ UNCHANGED <<heads, stored>>
    <2> DEFINE new == [op[w] EXCEPT !.attempt = op[w].attempt + 1]
    <2>1. op[w] \in [p : Partitions, write : Writes, cond : Nat \cup {Unconditional},
                     attempt : Nat, era : Nat]
        BY <1>1 DEF KvInv, KvTypeOK
    <2>2. new \in [p : Partitions, write : Writes, cond : Nat \cup {Unconditional},
                   attempt : Nat, era : Nat]
        BY <2>1
    <2>3. new # NoOp
        <3>1. new.attempt # 0
            BY <2>1
        <3> QED BY <3>1 DEF NoOp
    <2>4. op' = [op EXCEPT ![w] = new]
        BY <1>3
    <2> HIDE DEF new
    <2>5. op' \in [Writers -> [p : Partitions, write : Writes, cond : Nat \cup {Unconditional},
                               attempt : Nat, era : Nat] \cup {NoOp}]
        BY <2>2, <2>4 DEF KvInv, KvTypeOK
    <2>6. plan' \in [Writers -> [base : HeadRecord, next : Entries]]
        BY <1>3, NoHeadTyped DEF KvInv, KvTypeOK
    <2>7. writer' \in [Writers -> {"head", "batch", "landed"} \cup Answered]
        BY <1>3 DEF KvInv, KvTypeOK
    <2>8. \A v \in Writers : writer'[v] \in {"head", "batch"} => op'[v] # NoOp
        BY <1>3, <2>3, <2>4 DEF KvInv, KvTypeOK
    <2>9. KvTypeOK'
        BY <2>5, <2>6, <2>7, <2>8, <1>1, <1>3 DEF KvInv, KvTypeOK, gcVars
    <2>10. \A v \in Writers : writer'[v] = "batch" =>
              writer[v] = "batch" /\ op'[v] = op[v] /\ plan'[v] = plan[v]
        BY <1>3, <2>4 DEF KvInv, KvTypeOK
    <2> QED BY <2>9, <2>10, <1>1, <1>3, QuietStep DEF storeVars
<1>4. CASE AnswerCommit(w, "conflict") /\ UNCHANGED <<heads, stored>>
    <2>1. "conflict" \in Answered
        BY DEF Answered
    <2> QED BY <2>1, <1>1, <1>4, AnswerTyped, QuietStep DEF KvInv, storeVars
<1> QED BY <1>2, <1>3, <1>4 DEF Batch

\* A commit is answered.
LEMMA AnswerStep ==
    ASSUME KvInv, NEW w \in Writers, BatchFails(w) \/ Landed(w)
    PROVE  KvInv'
<1>1. UNCHANGED storeVars /\ UNCHANGED gcVars /\ clears' = clears
    BY DEF BatchFails, Landed, walletVars
<1>2. PICK answer \in Answered : AnswerCommit(w, answer)
    BY DEF BatchFails, Landed, Answered
<1> QED BY <1>1, <1>2, AnswerTyped, QuietStep DEF KvInv

\* A read changes nothing that the invariant speaks of.
LEMMA ReadStep ==
    ASSUME KvInv, NEW r \in Readers, ReadNext(r)
    PROVE  KvInv'
<1>1. UNCHANGED <<storeVars, writer, op, plan, gcVars, clears>>
    BY DEF ReadNext, Read, LoadValue, ReadEnds, walletVars
<1>2. KvTypeOK'
    BY <1>1 DEF KvInv, KvTypeOK, storeVars, gcVars
<1> QED BY <1>1, <1>2, QuietStep

\* The collection, while it only looks: what it lists has been stored, what it
\* has read of a head is used.
LEMMA CollectStep ==
    ASSUME KvInv, GcStart \/ GcList \/ GcListed \/ GcSweep \/ GcEnds
    PROVE  KvInv'
<1>1. UNCHANGED <<heads, stored, allocated, writer, op, plan, clears>>
    BY DEF GcStart, GcList, GcListed, GcSweep, GcEnds, storeVars, walletVars
<1>2. listed' \subseteq Ids /\ used' \subseteq Ids /\ unread' \subseteq Partitions
      /\ gc' \in {"idle", "listing", "heads", "sweep"}
    BY DEF GcStart, GcList, GcListed, GcSweep, GcEnds, KvInv, KvTypeOK
<1>3. \A i \in listed' : i \in listed \/ (i \in Ids /\ stored[i] # Nothing)
    BY DEF GcStart, GcList, GcListed, GcSweep, GcEnds
<1>4. \A p \in Partitions : HeadRefs(p)' = HeadRefs(p)
    BY <1>1 DEF HeadRefs
<1>5. \A w \in Writers : NewRefs(w)' = NewRefs(w)
    BY <1>1 DEF NewRefs
<1>6. KvTypeOK'
    BY <1>1, <1>2 DEF KvInv, KvTypeOK
<1>7. HeadsIntact' /\ PlanFromHead' /\ NewApart'
    BY <1>1, <1>5 DEF KvInv, HeadsIntact, PlanFromHead, NewApart
<1>8. Drawn'
    BY <1>1, <1>3, <1>4 DEF KvInv, Drawn
<1>9. NewUnknown'
    <2> SUFFICES ASSUME NEW w \in Writers, writer[w] = "batch", NEW r \in NewRefs(w)
                 PROVE  r.id \notin listed'
        BY <1>1, <1>4, <1>5 DEF KvInv, NewUnknown
    <2>1. r.id \notin listed /\ stored[r.id] = Nothing
        BY DEF KvInv, NewUnknown
    <2> QED BY <2>1, <1>3
<1>10. CandidatesUnused'
    <2>1. CASE GcListed
        <3>1. gc' = "heads" /\ unread' = {p \in Partitions : heads[p].revision > 0}
            BY <2>1 DEF GcListed
        <3>2. \A p \in Partitions \ unread' : HeadRefs(p) = {}
            BY <3>1 DEF KvInv, KvTypeOK, HeadRecord, Drawn
        <3> QED BY <3>1, <3>2, <1>4 DEF CandidatesUnused, Unused
    <2>2. CASE GcSweep
        <3>1. gc = "heads" /\ unread = {} /\ gc' = "sweep" /\ listed' = listed \ used
            BY <2>2 DEF GcSweep
        <3>2. \A i \in listed \ used : \A p \in Partitions : Unused(i, p)
            BY <3>1 DEF KvInv, CandidatesUnused
        <3> QED BY <3>1, <3>2, <1>4 DEF CandidatesUnused, Unused
    <2>3. CASE GcStart \/ GcList \/ GcEnds
        <3>1. gc' \notin {"heads", "sweep"}
            BY <2>3 DEF GcStart, GcList, GcEnds
        <3> QED BY <3>1 DEF CandidatesUnused
    <2> QED BY <2>1, <2>2, <2>3
<1> QED BY <1>6, <1>7, <1>8, <1>9, <1>10 DEF KvInv

\* The collection reads a head: the references it finds are used.
LEMMA ReadRefsStep ==
    ASSUME KvInv, NEW p \in Partitions, GcReadHead(p)
    PROVE  KvInv'
<1>1. UNCHANGED <<heads, stored, allocated, writer, op, plan, clears, gc, listed>>
    BY DEF GcReadHead, storeVars, walletVars
<1>2. /\ gc = "heads" /\ p \in unread
      /\ unread' = unread \ {p}
      /\ used' = used \cup IdsOf(heads[p].entries)
    BY DEF GcReadHead
<1>3. heads[p].entries \in Entries
    BY DEF KvInv, KvTypeOK, HeadRecord
<1>4. IdsOf(heads[p].entries) \subseteq Ids
    BY <1>3, RefsTyped DEF IdsOf, Ref
<1>5. \A q \in Partitions : HeadRefs(q)' = HeadRefs(q)
    BY <1>1 DEF HeadRefs
<1>6. \A w \in Writers : NewRefs(w)' = NewRefs(w)
    BY <1>1 DEF NewRefs
<1>7. KvTypeOK'
    BY <1>1, <1>2, <1>4 DEF KvInv, KvTypeOK
<1>8. HeadsIntact' /\ PlanFromHead' /\ NewApart'
    BY <1>1, <1>6 DEF KvInv, HeadsIntact, PlanFromHead, NewApart
<1>9. Drawn' /\ NewUnknown'
    BY <1>1, <1>5, <1>6 DEF KvInv, Drawn, NewUnknown
<1>10. CandidatesUnused'
    <2> SUFFICES ASSUME NEW i \in listed \ used', NEW q \in Partitions \ unread'
                 PROVE  Unused(i, q)
        BY <1>1, <1>2, <1>5 DEF CandidatesUnused, Unused
    <2>1. CASE q = p
        BY <2>1, <1>2 DEF Unused, IdsOf, HeadRefs
    <2>2. CASE q # p
        BY <2>2, <1>2 DEF KvInv, CandidatesUnused
    <2> QED BY <2>1, <2>2
<1> QED BY <1>7, <1>8, <1>9, <1>10 DEF KvInv

\* The collection deletes an object: no head refers to it.
LEMMA DeleteStep ==
    ASSUME KvInv, NEW i \in Ids, GcDelete(i)
    PROVE  KvInv'
<1>1. UNCHANGED <<heads, allocated, writer, op, plan, clears, gc, used, unread>>
    BY DEF GcDelete, walletVars
<1>2. /\ gc = "sweep" /\ i \in listed
      /\ listed' = listed \ {i}
      /\ stored' \in {[stored EXCEPT ![i] = Nothing], stored}
    BY DEF GcDelete
<1>3. \A j \in Ids : stored'[j] = stored[j] \/ (j = i /\ stored'[j] = Nothing)
    BY <1>2 DEF KvInv, KvTypeOK
<1>4. \A p \in Partitions : HeadRefs(p)' = HeadRefs(p)
    BY <1>1 DEF HeadRefs
<1>5. \A w \in Writers : NewRefs(w)' = NewRefs(w)
    BY <1>1 DEF NewRefs
<1>6. stored' \in [Ids -> Contents \cup {Nothing}]
    BY <1>2 DEF KvInv, KvTypeOK
<1>7. KvTypeOK'
    BY <1>1, <1>2, <1>6 DEF KvInv, KvTypeOK
<1>8. HeadsIntact'
    <2> SUFFICES ASSUME NEW p \in Partitions, NEW r \in HeadRefs(p)
                 PROVE  stored'[r.id] = r.content
        BY <1>4 DEF HeadsIntact, HeadRefs
    <2>1. r.id # i
        BY <1>2 DEF KvInv, CandidatesUnused, Unused
    <2>2. r.id \in Ids
        BY RefsTyped DEF HeadRefs, KvInv, KvTypeOK, HeadRecord, Ref
    <2>3. stored[r.id] = r.content
        BY DEF KvInv, HeadsIntact, HeadRefs
    <2> QED BY <2>1, <2>2, <2>3, <1>3
<1>9. PlanFromHead' /\ NewApart'
    BY <1>1, <1>5 DEF KvInv, PlanFromHead, NewApart
<1>10. Drawn'
    BY <1>1, <1>2, <1>3, <1>4 DEF KvInv, Drawn
<1>11. NewUnknown'
    <2> SUFFICES ASSUME NEW w \in Writers, writer[w] = "batch", NEW r \in NewRefs(w)
                 PROVE  stored'[r.id] = Nothing /\ r.id \notin listed'
        BY <1>1, <1>4, <1>5 DEF KvInv, NewUnknown
    <2>1. r.id \notin listed /\ stored[r.id] = Nothing /\ r.id \in allocated
        BY DEF KvInv, NewUnknown
    <2>2. r.id \in Ids
        BY <2>1 DEF KvInv, KvTypeOK
    <2> QED BY <2>1, <2>2, <1>2, <1>3
<1>12. CandidatesUnused'
    BY <1>1, <1>2, <1>4 DEF KvInv, CandidatesUnused, Unused
<1> QED BY <1>7, <1>8, <1>9, <1>10, <1>11, <1>12 DEF KvInv

\* Every step of the engine keeps the invariant.
LEMMA KvStep == KvInv /\ [KvNext]_kvVars => KvInv'
<1> SUFFICES ASSUME KvInv, [KvNext]_kvVars PROVE KvInv'
    OBVIOUS
<1>1. ASSUME NEW w \in Writers, CommitNext(w)
      PROVE  KvInv'
    BY <1>1, CommitStep, ReadHeadStep, BatchStep, AnswerStep DEF CommitNext
<1>2. ASSUME NEW r \in Readers, ReadNext(r)
      PROVE  KvInv'
    BY <1>2, ReadStep
<1>3. CASE GcNext
    BY <1>3, CollectStep, ReadRefsStep, DeleteStep DEF GcNext
<1>4. CASE UNCHANGED kvVars
    <2>1. UNCHANGED <<storeVars, gcVars, writer, op, plan, clears>>
        BY <1>4 DEF kvVars, storeVars, gcVars
    <2>2. KvTypeOK'
        BY <2>1 DEF KvInv, KvTypeOK, storeVars, gcVars
    <2> QED BY <2>1, <2>2, QuietStep
<1> QED BY <1>1, <1>2, <1>3, <1>4 DEF KvNext
-----------------------------------------------------------------------------
(* The theorem                                                             *)

\* A value that a head refers to is never lost: commits, retries and the
\* collection of walletKvEngine.ts, however they interleave, leave every
\* reference with its value object and its content.
THEOREM NoValueLost == KvSpec => []HeadsIntact
<1>1. KvInit => KvInv
    BY KvInitInv
<1>2. KvInv /\ [KvNext]_kvVars => KvInv'
    BY KvStep
<1>3. KvInv => HeadsIntact
    BY DEF KvInv
<1> QED BY <1>1, <1>2, <1>3, PTL DEF KvSpec
-----------------------------------------------------------------------------
(* The engine implements KvStore                                           *)

\* A queued batch makes of its base what its caller asked for.
PlanMakes ==
    \A w \in Writers : writer[w] = "batch" =>
        /\ ContentsOf(plan[w].next) = Store!Written(ContentsOf(plan[w].base.entries), op[w].write)
        /\ ContentsOf(plan[w].next) # ContentsOf(plan[w].base.entries)
        /\ op[w].cond \in {Unconditional, plan[w].base.revision}

\* What a read still has to load is in the head it took, unless that has moved.
PageFromHead ==
    /\ reader \in [Readers -> {"idle", "values", "ok", "missing", "unavailable"}]
    /\ page \in [Readers -> [p : Partitions \cup {Nothing}, revision : Nat,
                             refs : SUBSET Ref, era : Nat]]
    /\ \A r \in Readers : reader[r] = "values" =>
           /\ page[r].p \in Partitions
           /\ page[r].era = clears
           /\ page[r].revision <= heads[page[r].p].revision
           /\ page[r].revision = heads[page[r].p].revision =>
                  page[r].refs \subseteq HeadRefs(page[r].p)

StoreInv == PlanMakes /\ PageFromHead
Implements == StoreInv' /\ [Store!StoreNext]_Store!abstractVars

\* The contents of the next entries are those the commit asks for.
LEMMA NextContents ==
    ASSUME NEW base \in Entries, NEW write \in Writes,
           NEW idOf \in [PutContents(write) -> Ids]
    PROVE  ContentsOf(NextEntries(base, write, idOf)) = Store!Written(ContentsOf(base), write)
<1> DEFINE next == NextEntries(base, write, idOf)
<1>1. DOMAIN base = Keys /\ DOMAIN next = Keys
    BY DEF Entries, NextEntries
<1>2. ASSUME NEW k \in Keys
      PROVE  (IF next[k] = Nothing THEN Nothing ELSE next[k].content)
             = (IF write[k] = Keep THEN IF base[k] = Nothing THEN Nothing ELSE base[k].content
                ELSE write[k])
    <2>1. CASE write[k] = Keep
        BY <2>1 DEF NextEntries
    <2>2. CASE write[k] = Nothing
        BY <2>2, KvAssumption DEF NextEntries
    <2>3. CASE write[k] \notin {Keep, Nothing}
        <3>1. write[k] \in PutContents(write) /\ write[k] \in Contents
            BY <2>3 DEF PutContents, Writes
        <3>2. next[k] = [id |-> idOf[write[k]], content |-> write[k]]
            BY <2>3 DEF NextEntries
        <3>3. next \in Entries
            BY NextTyped
        <3> QED BY <2>3, <3>1, <3>2, <3>3, KvAssumption DEF Entries, Ref
    <2> QED BY <2>1, <2>2, <2>3
<1> HIDE DEF next
<1>3. ContentsOf(next) = [k \in Keys |-> IF next[k] = Nothing THEN Nothing ELSE next[k].content]
    BY <1>1 DEF ContentsOf
<1>4. Store!Written(ContentsOf(base), write) =
        [k \in Keys |-> IF write[k] = Keep
                        THEN IF base[k] = Nothing THEN Nothing ELSE base[k].content
                        ELSE write[k]]
    BY <1>1 DEF ContentsOf, Store!Written
<1> QED BY <1>2, <1>3, <1>4 DEF next

\* What a handle maps to, as far as the steps of its commit tell.
LEMMA CallMaps ==
    ASSUME NEW w \in Writers
    PROVE  /\ storeCall[w].p = op[w].p
           /\ storeCall[w].write = op[w].write
           /\ storeCall[w].cond = op[w].cond
           /\ writer[w] \in {"head", "batch"} => storeCall[w].status = "called"
           /\ writer[w] = "landed" => storeCall[w].status = "applied"
           /\ writer[w] \notin {"head", "batch", "landed"} => storeCall[w].status = writer[w]
BY DEF storeCall

\* Handles that do not step map to the same commits; so do the reads.
LEMMA OthersMap ==
    ASSUME NEW w \in Writers,
           \A o \in Writers \ {w} : writer'[o] = writer[o] /\ op'[o] = op[o]
    PROVE  \A o \in Writers \ {w} : storeCall'[o] = storeCall[o]
BY DEF storeCall

\* A step of a commit that leaves the heads alone keeps the map and the reads.
LEMMA SameMap ==
    ASSUME UNCHANGED <<heads, reader, page, clears>>
    PROVE  UNCHANGED <<storeMap, storeView, clears>>
BY DEF storeMap, storeView

\* What is queued stays as it was computed while its handle waits.
LEMMA PlansKeep ==
    ASSUME PlanMakes, NEW w \in Writers, writer'[w] # "batch",
           \A o \in Writers \ {w} :
               writer'[o] = writer[o] /\ op'[o] = op[o] /\ plan'[o] = plan[o]
    PROVE  PlanMakes'
BY DEF PlanMakes

\* Reads keep what they know while the heads do not change.
LEMMA PagesKeep ==
    ASSUME PageFromHead, UNCHANGED <<heads, reader, page, clears>>
    PROVE  PageFromHead'
BY DEF PageFromHead, HeadRefs

\* Ending a commit is an answer of the store.
LEMMA AnswerMaps ==
    ASSUME KvInv, StoreInv, NEW w \in Writers, NEW answer \in {"ok", "conflict", "unavailable"},
           AnswerCommit(w, answer), UNCHANGED <<heads, reader, page, clears>>
    PROVE  /\ StoreInv'
           /\ UNCHANGED <<storeMap, storeView, clears>>
           /\ storeCall'[w].status = answer
           /\ \A o \in Writers \ {w} : storeCall'[o] = storeCall[o]
<1>1. writer'[w] = answer
    BY DEF AnswerCommit, KvInv, KvTypeOK
<1>2. \A o \in Writers \ {w} : writer'[o] = writer[o] /\ op'[o] = op[o] /\ plan'[o] = plan[o]
    BY DEF AnswerCommit, KvInv, KvTypeOK
<1>3. storeCall'[w].status = answer
    BY <1>1 DEF storeCall
<1> QED BY <1>1, <1>2, <1>3, OthersMap, SameMap, PlansKeep, PagesKeep DEF StoreInv

\* A commit starts.
LEMMA CommitImplements ==
    ASSUME KvInv, StoreInv, NEW w \in Writers, StartCommit(w)
    PROVE  Implements
<1>1. writer[w] \in Answered /\ UNCHANGED <<heads, reader, page, clears>> /\ plan' = plan
    BY DEF StartCommit, storeVars, walletVars
<1>2. writer'[w] = "head"
    BY DEF StartCommit, KvInv, KvTypeOK
<1>3. \A o \in Writers \ {w} : writer'[o] = writer[o] /\ op'[o] = op[o]
    BY DEF StartCommit, KvInv, KvTypeOK
<1>4. storeCall[w].status \in {"idle", "ok", "conflict", "unavailable"}
    BY <1>1, CallMaps DEF Answered
<1>5. storeCall'[w].status = "called"
    BY <1>2 DEF storeCall
<1>6. Store!Call(w)
    BY <1>1, <1>3, <1>4, <1>5, OthersMap, SameMap DEF Store!Call, Store!Status
<1>7. StoreInv'
    BY <1>1, <1>2, <1>3, PlansKeep, PagesKeep DEF StoreInv
<1> QED BY <1>6, <1>7 DEF Implements, Store!StoreNext

\* The head is read: the commit is refused, has no effect, or is queued.
LEMMA ReadHeadImplements ==
    ASSUME KvInv, StoreInv, NEW w \in Writers, ReadHead(w)
    PROVE  Implements
<1> DEFINE p == op[w].p
           write == op[w].write
           base == heads[p].entries
<1>1. writer[w] = "head" /\ UNCHANGED <<heads, reader, page, clears>>
    BY DEF ReadHead, walletVars
<1>2. op[w] \in [p : Partitions, write : Writes, cond : Nat \cup {Unconditional},
                 attempt : Nat, era : Nat]
    BY <1>1 DEF KvInv, KvTypeOK
<1>3. p \in Partitions /\ write \in Writes
    BY <1>2
<1>4. base \in Entries /\ DOMAIN base = Keys
    BY <1>3 DEF KvInv, KvTypeOK, HeadRecord, Entries
<1>5. storeMap[p].revision = heads[p].revision /\ storeMap[p].contents = ContentsOf(base)
    BY <1>3 DEF storeMap
<1>6. storeCall[w].status = "called" /\ storeCall[w].p = p /\ storeCall[w].write = write
      /\ storeCall[w].cond = op[w].cond
    BY <1>1, CallMaps
<1>7. CASE AnswerCommit(w, "unavailable")
    <2>1. Store!Answer(w, "unavailable") /\ StoreInv'
        BY <1>1, <1>6, <1>7, AnswerMaps DEF Store!Answer, Store!Status
    <2> QED BY <2>1 DEF Implements, Store!StoreNext
<1>8. CASE op[w].cond \notin {Unconditional, heads[p].revision} /\ AnswerCommit(w, "conflict")
    <2>1. Store!Answer(w, "conflict") /\ StoreInv'
        BY <1>1, <1>5, <1>6, <1>8, AnswerMaps DEF Store!Answer, Store!Status
    <2> QED BY <2>1 DEF Implements, Store!StoreNext
<1>9. CASE /\ op[w].cond \in {Unconditional, heads[p].revision}
           /\ ~Changed(base, write) /\ AnswerCommit(w, "ok")
    <2>1. Store!Written(ContentsOf(base), write) = ContentsOf(base)
        BY <1>4, <1>9 DEF Store!Written, ContentsOf, Changed
    <2>2. /\ StoreInv' /\ UNCHANGED <<storeMap, storeView, clears>>
          /\ storeCall'[w].status = "ok"
          /\ \A o \in Writers \ {w} : storeCall'[o] = storeCall[o]
        BY <1>1, <1>9, AnswerMaps
    <2>3. storeMap = [storeMap EXCEPT ![p] = storeMap[p]]
        BY DEF storeMap
    <2>4. Store!Apply(w, "ok")
        BY <1>5, <1>6, <1>9, <2>1, <2>2, <2>3 DEF Store!Apply, Store!Status
    <2> QED BY <2>2, <2>4 DEF Implements, Store!StoreNext
<1>10. CASE /\ op[w].cond \in {Unconditional, heads[p].revision}
            /\ Changed(base, write)
            /\ \E idOf \in [PutContents(write) -> Ids] :
                   plan' = [plan EXCEPT ![w] =
                       [base |-> heads[p], next |-> NextEntries(base, write, idOf)]]
            /\ writer' = [writer EXCEPT ![w] = "batch"]
            /\ UNCHANGED op
    <2>1. PICK idOf \in [PutContents(write) -> Ids] :
              plan' = [plan EXCEPT ![w] =
                  [base |-> heads[p], next |-> NextEntries(base, write, idOf)]]
        BY <1>10
    <2>2. plan'[w].base = heads[p] /\ plan'[w].next = NextEntries(base, write, idOf)
        BY <2>1 DEF KvInv, KvTypeOK
    <2>3. \A o \in Writers \ {w} : plan'[o] = plan[o] /\ writer'[o] = writer[o]
        BY <1>10, <2>1 DEF KvInv, KvTypeOK
    <2>4. ContentsOf(NextEntries(base, write, idOf)) = Store!Written(ContentsOf(base), write)
        BY <1>3, <1>4, NextContents
    <2>5. Store!Written(ContentsOf(base), write) # ContentsOf(base)
        <3>1. PICK k \in Keys : write[k] \notin {Keep, ContentsOf(base)[k]}
            BY <1>10 DEF Changed
        <3>2. Store!Written(ContentsOf(base), write)[k] = write[k]
            BY <3>1 DEF Store!Written
        <3> QED BY <3>1, <3>2
    <2>6. PlanMakes'
        BY <1>10, <2>2, <2>3, <2>4, <2>5 DEF StoreInv, PlanMakes
    <2>7. storeCall' = storeCall
        BY <1>1, <1>10 DEF storeCall, KvInv, KvTypeOK
    <2> QED BY <1>1, <2>6, <2>7, SameMap, PagesKeep DEF Implements, StoreInv, Store!abstractVars
<1> QED BY <1>7, <1>8, <1>9, <1>10 DEF ReadHead

\* The transaction of the batch: where it lands the commit takes effect, on the
\* very head it was computed from.
LEMMA BatchImplements ==
    ASSUME KvInv, StoreInv, NEW w \in Writers, Batch(w)
    PROVE  Implements
<1> DEFINE p == op[w].p
           base == plan[w].base
           contents == Store!Written(storeMap[p].contents, op[w].write)
<1>1. writer[w] = "batch" /\ UNCHANGED <<reader, page, clears>>
    BY DEF Batch
<1>2. op[w] \in [p : Partitions, write : Writes, cond : Nat \cup {Unconditional},
                 attempt : Nat, era : Nat]
    BY <1>1 DEF KvInv, KvTypeOK
<1>3. p \in Partitions
    BY <1>2
<1>4. storeMap[p].revision = heads[p].revision
      /\ storeMap[p].contents = ContentsOf(heads[p].entries)
    BY <1>3 DEF storeMap
<1>5. storeCall[w].status = "called" /\ storeCall[w].p = p
      /\ storeCall[w].write = op[w].write /\ storeCall[w].cond = op[w].cond
    BY <1>1, CallMaps
<1>6. /\ ContentsOf(plan[w].next) = Store!Written(ContentsOf(base.entries), op[w].write)
      /\ ContentsOf(plan[w].next) # ContentsOf(base.entries)
      /\ op[w].cond \in {Unconditional, base.revision}
    BY <1>1 DEF StoreInv, PlanMakes
<1>7. CASE /\ heads[p].revision = base.revision
           /\ heads' = [heads EXCEPT ![p] =
                  [revision |-> base.revision + 1, entries |-> plan[w].next]]
           /\ writer' = [writer EXCEPT ![w] = "landed"]
           /\ UNCHANGED <<op, plan>>
    <2>1. base = heads[p]
        BY <1>1, <1>7 DEF KvInv, PlanFromHead
    <2>2. writer'[w] = "landed" /\ \A o \in Writers \ {w} : writer'[o] = writer[o]
        BY <1>7 DEF KvInv, KvTypeOK
    <2>3. \A q \in Partitions : heads'[q] =
              IF q = p THEN [revision |-> base.revision + 1, entries |-> plan[w].next] ELSE heads[q]
        BY <1>7 DEF KvInv, KvTypeOK
    <2>4. contents = ContentsOf(plan[w].next) /\ contents # storeMap[p].contents
        BY <1>4, <1>6, <2>1
    <2>5. storeMap' = [storeMap EXCEPT ![p] =
              [revision |-> storeMap[p].revision + 1, contents |-> contents]]
        BY <1>3, <1>4, <2>1, <2>3, <2>4, SMTT(30) DEF storeMap
    <2>6. storeCall'[w] = [storeCall[w] EXCEPT !.status = "applied"]
        BY <1>7, <2>2 DEF storeCall
    <2>7. storeCall'[w].status = "applied"
        BY <2>2 DEF storeCall
    <2>8. \A o \in Writers \ {w} : storeCall'[o] = storeCall[o]
        BY <1>7, <2>2, OthersMap
    <2>9. storeView' = storeView /\ clears' = clears
        BY <1>1 DEF storeView
    <2>10. storeCall[w].cond \in {Unconditional, storeMap[p].revision}
        BY <1>4, <1>5, <1>6, <2>1
    <2>11. Store!Apply(w, "applied")
        BY <1>5, <2>4, <2>5, <2>6, <2>7, <2>8, <2>9, <2>10 DEF Store!Apply, Store!Status
    <2>12. PlanMakes'
        BY <1>7, <2>2, PlansKeep DEF StoreInv
    <2>13. PageFromHead'
        <3>1. ASSUME NEW r \in Readers, reader[r] = "values"
              PROVE  /\ page[r].revision <= heads'[page[r].p].revision
                     /\ page[r].revision = heads'[page[r].p].revision =>
                            page[r].refs \subseteq HeadRefs(page[r].p)'
            <4>1. /\ page[r].p \in Partitions /\ page[r].revision \in Nat
                  /\ page[r].revision <= heads[page[r].p].revision
                  /\ page[r].revision = heads[page[r].p].revision =>
                         page[r].refs \subseteq HeadRefs(page[r].p)
                BY <3>1 DEF StoreInv, PageFromHead
            <4>2. CASE page[r].p = p
                <5>1. heads[p].revision \in Nat /\ heads'[p].revision = heads[p].revision + 1
                    BY <1>3, <2>1, <2>3 DEF KvInv, KvTypeOK, HeadRecord
                <5> QED BY <4>1, <4>2, <5>1
            <4>3. CASE page[r].p # p
                BY <1>1, <4>1, <4>3, <2>3 DEF HeadRefs
            <4> QED BY <4>2, <4>3
        <3> QED BY <1>1, <3>1 DEF StoreInv, PageFromHead
    <2> QED BY <2>11, <2>12, <2>13 DEF Implements, StoreInv, Store!StoreNext
<1>8. CASE /\ writer' = [writer EXCEPT ![w] = "head"]
           /\ op' = [op EXCEPT ![w].attempt = op[w].attempt + 1]
           /\ plan' = [plan EXCEPT ![w] = NoPlan]
           /\ UNCHANGED heads
    <2>1. writer'[w] = "head" /\ op'[w] = [op[w] EXCEPT !.attempt = op[w].attempt + 1]
        BY <1>8 DEF KvInv, KvTypeOK
    <2>2. \A o \in Writers \ {w} : writer'[o] = writer[o] /\ op'[o] = op[o] /\ plan'[o] = plan[o]
        BY <1>8 DEF KvInv, KvTypeOK
    <2>3. op'[w].p = p /\ op'[w].write = op[w].write /\ op'[w].cond = op[w].cond
        BY <1>2, <2>1
    <2>4. storeCall' = storeCall
        BY <1>1, <2>1, <2>2, <2>3 DEF storeCall
    <2>5. StoreInv'
        BY <1>1, <1>8, <2>1, <2>2, PlansKeep, PagesKeep DEF StoreInv
    <2> QED BY <1>1, <1>8, <2>4, <2>5, SameMap DEF Implements, Store!abstractVars
<1>9. CASE /\ heads[p].revision # base.revision
           /\ AnswerCommit(w, "conflict") /\ UNCHANGED heads
    <2>1. op[w].cond # storeMap[p].revision
        BY <1>3, <1>4, <1>6, <1>9, KvAssumption DEF KvInv, KvTypeOK, HeadRecord
    <2>2. Store!Answer(w, "conflict") /\ StoreInv'
        BY <1>1, <1>5, <1>9, <2>1, AnswerMaps DEF Store!Answer, Store!Status
    <2> QED BY <2>2 DEF Implements, Store!StoreNext
<1> QED BY <1>7, <1>8, <1>9 DEF Batch

\* A batch that aborts had no effect; one that landed is answered as it may be.
LEMMA AnswerImplements ==
    ASSUME KvInv, StoreInv, NEW w \in Writers, BatchFails(w) \/ Landed(w)
    PROVE  Implements
<1>1. UNCHANGED <<heads, reader, page, clears>>
    BY DEF BatchFails, Landed, storeVars, walletVars
<1>2. CASE writer[w] = "batch" /\ AnswerCommit(w, "unavailable")
    <2>1. Store!Answer(w, "unavailable") /\ StoreInv'
        BY <1>1, <1>2, CallMaps, AnswerMaps DEF Store!Answer, Store!Status
    <2> QED BY <2>1 DEF Implements, Store!StoreNext
<1>3. ASSUME NEW answer \in {"ok", "unavailable"}, writer[w] = "landed", AnswerCommit(w, answer)
      PROVE  Implements
    <2>1. Store!Answer(w, answer) /\ StoreInv'
        BY <1>1, <1>3, CallMaps, AnswerMaps DEF Store!Answer, Store!Status
    <2> QED BY <2>1 DEF Implements, Store!StoreNext
<1> QED BY <1>2, <1>3 DEF BatchFails, Landed

\* A step of a read leaves commits and the map alone.
LEMMA ReadsOnly ==
    ASSUME StoreInv, UNCHANGED <<storeVars, queue, writer, op, plan, gcVars, walletVars>>
    PROVE  PlanMakes' /\ UNCHANGED <<storeMap, storeCall, clears>>
BY DEF StoreInv, PlanMakes, storeMap, storeCall, storeVars, walletVars

\* A read takes the references of one head.
LEMMA ReadImplements ==
    ASSUME KvInv, StoreInv, NEW r \in Readers, Read(r)
    PROVE  Implements
<1>1. UNCHANGED <<storeVars, queue, writer, op, plan, gcVars, walletVars>>
      /\ reader[r] # "values" /\ reader' = [reader EXCEPT ![r] = "values"]
    BY DEF Read
<1>2. PICK p \in Partitions, keys \in SUBSET Keys :
          page' = [page EXCEPT ![r] =
              [p |-> p, revision |-> heads[p].revision, era |-> clears,
               refs |-> {q \in RefsOf(heads[p].entries) :
                            \E k \in keys : heads[p].entries[k] = q}]]
    BY DEF Read
<1> DEFINE refs == {q \in RefsOf(heads[p].entries) : \E k \in keys : heads[p].entries[k] = q}
           new == [p |-> p, revision |-> heads[p].revision, era |-> clears, refs |-> refs]
<1>3. refs \subseteq HeadRefs(p) /\ HeadRefs(p) \subseteq Ref
    BY RefsTyped DEF HeadRefs, KvInv, KvTypeOK, HeadRecord
<1> HIDE DEF refs
<1>4. new \in [p : Partitions \cup {Nothing}, revision : Nat, refs : SUBSET Ref, era : Nat]
    BY <1>3 DEF KvInv, KvTypeOK, HeadRecord
<1>5. /\ new.p = p /\ new.revision = heads[p].revision /\ new.era = clears
      /\ new.refs \subseteq HeadRefs(p)
    BY <1>3
<1>6. page' = [page EXCEPT ![r] = new]
    BY <1>2 DEF refs
<1> HIDE DEF new
<1>7. reader'[r] = "values" /\ page'[r] = new
    BY <1>1, <1>6 DEF StoreInv, PageFromHead
<1>8. \A o \in Readers \ {r} : reader'[o] = reader[o] /\ page'[o] = page[o]
    BY <1>1, <1>6 DEF StoreInv, PageFromHead
<1>9. heads' = heads /\ clears' = clears
    BY <1>1 DEF storeVars, walletVars
<1>10. heads[p].revision \in Nat
    BY DEF KvInv, KvTypeOK, HeadRecord
<1>11. PageFromHead'
    <2>1. reader' \in [Readers -> {"idle", "values", "ok", "missing", "unavailable"}]
          /\ page' \in [Readers -> [p : Partitions \cup {Nothing}, revision : Nat,
                                    refs : SUBSET Ref, era : Nat]]
        BY <1>1, <1>4, <1>6 DEF StoreInv, PageFromHead
    <2>2. ASSUME NEW o \in Readers, reader'[o] = "values"
          PROVE  /\ page'[o].p \in Partitions
                 /\ page'[o].era = clears
                 /\ page'[o].revision <= heads[page'[o].p].revision
                 /\ page'[o].revision = heads[page'[o].p].revision =>
                        page'[o].refs \subseteq HeadRefs(page'[o].p)
        BY <1>5, <1>7, <1>8, <1>10, <2>2 DEF StoreInv, PageFromHead
    <2> QED BY <1>9, <2>1, <2>2 DEF PageFromHead, HeadRefs
<1>12. Store!See(r)
    <2>1. storeView[r].status # "seen"
        BY <1>1 DEF storeView, StoreInv, PageFromHead
    <2>2. /\ storeView'[r].status = "seen" /\ storeView'[r].p = p
          /\ storeView'[r].revision = storeMap[p].revision /\ storeView'[r].era = clears
        BY <1>5, <1>7 DEF storeView, storeMap
    <2>3. \A o \in Readers \ {r} : storeView'[o] = storeView[o]
        BY <1>8 DEF storeView
    <2> QED BY <1>1, <2>1, <2>2, <2>3, ReadsOnly DEF Store!See
<1> QED BY <1>1, <1>11, <1>12, ReadsOnly DEF Implements, StoreInv, Store!StoreNext

\* The end of a read is told; a value is missing only from an outdated head.
LEMMA TellImplements ==
    ASSUME KvInv, StoreInv, NEW r \in Readers, NEW answer \in {"ok", "missing", "unavailable"},
           reader[r] = "values", AnswerRead(r, answer),
           answer = "missing" => heads[page[r].p].revision # page[r].revision,
           UNCHANGED <<storeVars, queue, writer, op, plan, gcVars, walletVars>>
    PROVE  Implements
<1>1. heads' = heads /\ clears' = clears
    BY DEF storeVars, walletVars
<1>2. reader'[r] = answer /\ \A o \in Readers \ {r} : reader'[o] = reader[o] /\ page'[o] = page[o]
    BY DEF AnswerRead, StoreInv, PageFromHead
<1>3. NoPage \in [p : Partitions \cup {Nothing}, revision : Nat, refs : SUBSET Ref, era : Nat]
    BY DEF NoPage
<1>4. PageFromHead'
    <2>1. reader' \in [Readers -> {"idle", "values", "ok", "missing", "unavailable"}]
          /\ page' \in [Readers -> [p : Partitions \cup {Nothing}, revision : Nat,
                                    refs : SUBSET Ref, era : Nat]]
        BY <1>3 DEF AnswerRead, StoreInv, PageFromHead
    <2>2. ASSUME NEW o \in Readers, reader'[o] = "values"
          PROVE  o # r /\ reader[o] = "values" /\ page'[o] = page[o]
        BY <1>2, <2>2
    <2> QED BY <1>1, <2>1, <2>2 DEF StoreInv, PageFromHead, HeadRefs
<1>5. Store!Tell(r, answer)
    <2>1. page[r].p \in Partitions
        BY DEF StoreInv, PageFromHead
    <2>2. /\ storeView[r].status = "seen" /\ storeView'[r].status = answer
          /\ storeView[r].p = page[r].p /\ storeView[r].revision = page[r].revision
          /\ storeMap[page[r].p].revision = heads[page[r].p].revision
        BY <1>2, <2>1 DEF storeView, storeMap
    <2>3. \A o \in Readers \ {r} : storeView'[o] = storeView[o]
        BY <1>2 DEF storeView
    <2> QED BY <2>2, <2>3, ReadsOnly DEF Store!Tell
<1> QED BY <1>4, <1>5, ReadsOnly DEF Implements, StoreInv, Store!StoreNext

\* The values of a read: one that is gone was deleted after its head had moved.
LEMMA ValuesImplement ==
    ASSUME KvInv, StoreInv, NEW r \in Readers,
           (\E ref \in page[r].refs : LoadValue(r, ref)) \/ ReadEnds(r)
    PROVE  Implements
<1>1. reader[r] = "values"
      /\ UNCHANGED <<storeVars, queue, writer, op, plan, gcVars, walletVars>>
    BY DEF LoadValue, ReadEnds
<1>2. CASE AnswerRead(r, "unavailable") \/ AnswerRead(r, "ok")
    BY <1>1, <1>2, TellImplements
<1>3. ASSUME NEW ref \in page[r].refs, stored[ref.id] # ref.content, AnswerRead(r, "missing")
      PROVE  Implements
    <2>1. heads[page[r].p].revision # page[r].revision
        BY <1>1, <1>3 DEF StoreInv, PageFromHead, KvInv, HeadsIntact, HeadRefs
    <2> QED BY <1>1, <1>3, <2>1, TellImplements
<1>4. ASSUME NEW ref \in page[r].refs,
             page' = [page EXCEPT ![r].refs = page[r].refs \ {ref}], UNCHANGED reader
      PROVE  Implements
    <2>1. page[r] \in [p : Partitions \cup {Nothing}, revision : Nat, refs : SUBSET Ref, era : Nat]
        BY DEF StoreInv, PageFromHead
    <2> DEFINE new == [page[r] EXCEPT !.refs = page[r].refs \ {ref}]
    <2>2. /\ new \in [p : Partitions \cup {Nothing}, revision : Nat, refs : SUBSET Ref, era : Nat]
          /\ new.p = page[r].p /\ new.revision = page[r].revision /\ new.era = page[r].era
          /\ new.refs \subseteq page[r].refs
        BY <2>1
    <2>3. page' = [page EXCEPT ![r] = new]
        BY <1>4
    <2> HIDE DEF new
    <2>4. page' \in [Readers -> [p : Partitions \cup {Nothing}, revision : Nat,
                                 refs : SUBSET Ref, era : Nat]]
        BY <2>2, <2>3 DEF StoreInv, PageFromHead
    <2>5. \A o \in Readers : /\ page'[o].p = page[o].p /\ page'[o].revision = page[o].revision
                             /\ page'[o].era = page[o].era /\ page'[o].refs \subseteq page[o].refs
        BY <2>2, <2>3 DEF StoreInv, PageFromHead
    <2>6. storeView' = storeView
        BY <1>4, <2>5 DEF storeView
    <2>7. heads' = heads /\ clears' = clears
        BY <1>1 DEF storeVars, walletVars
    <2>8. PageFromHead'
        BY <1>4, <2>4, <2>5, <2>7 DEF StoreInv, PageFromHead, HeadRefs
    <2> QED BY <1>1, <2>6, <2>8, ReadsOnly DEF Implements, StoreInv, Store!abstractVars
<1> QED BY <1>2, <1>3, <1>4 DEF LoadValue, ReadEnds

\* The collection is invisible: it moves no head.
LEMMA CollectImplements ==
    ASSUME StoreInv, GcNext \/ UNCHANGED kvVars
    PROVE  Implements
<1>1. UNCHANGED <<heads, writer, op, plan, reader, page, clears>>
    BY DEF GcNext, GcStart, GcList, GcListed, GcSweep, GcEnds, GcReadHead, GcDelete,
           kvVars, storeVars, walletVars
<1>2. storeCall' = storeCall /\ PlanMakes'
    BY <1>1 DEF storeCall, StoreInv, PlanMakes
<1> QED BY <1>1, <1>2, SameMap, PagesKeep DEF Implements, StoreInv, Store!abstractVars

\* Every step of the engine is a step of the store, or invisible.
LEMMA StepImplements == KvInv /\ StoreInv /\ [KvNext]_kvVars => Implements
<1> SUFFICES ASSUME KvInv, StoreInv, [KvNext]_kvVars PROVE Implements
    OBVIOUS
<1>1. ASSUME NEW w \in Writers, CommitNext(w)
      PROVE  Implements
    BY <1>1, CommitImplements, ReadHeadImplements, BatchImplements, AnswerImplements DEF CommitNext
<1>2. ASSUME NEW r \in Readers, ReadNext(r)
      PROVE  Implements
    BY <1>2, ReadImplements, ValuesImplement DEF ReadNext
<1>3. CASE GcNext \/ UNCHANGED kvVars
    BY <1>3, CollectImplements
<1> QED BY <1>1, <1>2, <1>3 DEF KvNext

\* The engine starts as the empty store.
LEMMA InitImplements == KvInit => StoreInv /\ Store!StoreInit
<1> SUFFICES ASSUME KvInit PROVE StoreInv /\ Store!StoreInit
    OBVIOUS
<1>1. PlanMakes
    BY DEF KvInit, PlanMakes
<1>2. NoPage \in [p : Partitions \cup {Nothing}, revision : Nat, refs : SUBSET Ref, era : Nat]
    BY DEF NoPage
<1>3. PageFromHead
    BY <1>2 DEF KvInit, PageFromHead
<1>4. ContentsOf(NoHead.entries) = [k \in Keys |-> Nothing] /\ NoHead.revision = 0
    BY DEF NoHead, ContentsOf
<1>5. storeMap = [p \in Partitions |-> Store!EmptyMap]
    BY <1>4 DEF KvInit, storeMap, Store!EmptyMap
<1>6. \A w \in Writers : storeCall[w].status = "idle"
    BY DEF KvInit, storeCall
<1>7. \A r \in Readers : storeView[r].status = "idle"
    BY DEF KvInit, storeView
<1> QED BY <1>1, <1>3, <1>5, <1>6, <1>7 DEF StoreInv, Store!StoreInit, KvInit

\* The engine implements the key-value store: a commit takes effect in one step
\* and at most once, is refused only when the revision has moved, and a read
\* answers what the map held in one moment, whatever retries and collections of
\* walletKvEngine.ts run between its steps.
THEOREM EngineImplementsStore == KvSpec => KvStoreSpec
<1>1. KvInit => KvInv /\ StoreInv /\ Store!StoreInit
    BY KvInitInv, InitImplements
<1>2. KvInv /\ [KvNext]_kvVars => KvInv'
    BY KvStep
<1>3. KvInv /\ StoreInv /\ [KvNext]_kvVars => StoreInv' /\ [Store!StoreNext]_Store!abstractVars
    BY StepImplements DEF Implements
<1> QED BY <1>1, <1>2, <1>3, PTL DEF KvSpec, KvStoreSpec, Store!StoreSpec

=============================================================================
