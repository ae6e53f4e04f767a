----------------------- MODULE BackgroundTasksProofs -----------------------
(***************************************************************************)
(* A background task never runs twice at once and is quiet behind a lock,  *)
(* for any number of locks, unlocks and password changes.                  *)
(***************************************************************************)
EXTENDS BackgroundTasks, TLAPS

USE DEF RunIds, NoRun, Epochs, Phases

\* The entry t of taskRuntimes knows the executions rs: its completion is that of
\* the only one, and it is shown running only while there is one.
Tracks(t, rs) ==
    /\ \A r, s \in rs : r = s
    /\ \A r \in rs : r.id = t.completion
    /\ rs = {} => t.completion = NoRun
    /\ t.state = "running" => rs # {}

\* The inductive invariant: a task that is gone has left no execution behind, since
\* its disposal waits for the completion, so the next one starts from nothing.
TasksInv ==
    /\ TasksTypeOK
    /\ Registered => Tracks(task, runs)
    /\ ~Registered => runs = {}
    /\ disposing => Registered
    /\ QuietWhileLocked

-----------------------------------------------------------------------------
(* The helpers of the model on a task t and its executions rs.             *)

LEMMA TaskIsRegistered == \A t \in Task : t # NoTask
  BY DEF Task, NoTask

\* scheduleRuntime changes the timer and, of a task that cannot run, the state.
LEMMA ScheduleKeeps ==
    ASSUME NEW t \in Task, NEW blocked \in BOOLEAN, NEW on \in BOOLEAN
    PROVE  LET s == Schedule(t, blocked, on) IN
           /\ s \in Task
           /\ s.completion = t.completion
           /\ s.state = "running" => t.state = "running"
           /\ blocked => ~s.timer
  BY DEF Schedule, Block, Task

\* Scheduling a task that knows its executions keeps it so.
LEMMA TracksScheduled ==
    ASSUME NEW t \in Task, NEW blocked \in BOOLEAN, NEW on \in BOOLEAN,
           NEW rs, Tracks(t, rs)
    PROVE  Tracks(Schedule(t, blocked, on), rs)
  BY ScheduleKeeps DEF Tracks

\* Telling an execution to stop changes nothing else of it.
LEMMA AbortKeeps ==
    ASSUME NEW t, NEW rs \in SUBSET Run
    PROVE  /\ Abort(rs, t) \in SUBSET Run
           /\ Abort(rs, t) = {} <=> rs = {}
           /\ \A r \in Abort(rs, t) : \E q \in rs : r.id = q.id
           /\ Tracks(t, rs) => Tracks(t, Abort(rs, t))
           /\ Tracks(t, rs) => \A r \in Abort(rs, t) : r.aborted
  <1> DEFINE Stop(r) == IF r.id = t.completion THEN [r EXCEPT !.aborted = TRUE] ELSE r
  <1>1. \A r \in Run : Stop(r) \in Run /\ Stop(r).id = r.id
    BY DEF Run
  <1>2. \A r \in Run : r.id = t.completion => Stop(r).aborted
    BY DEF Run
  <1>3. Abort(rs, t) = {Stop(r) : r \in rs}
    BY DEF Abort
  <1> HIDE DEF Stop
  <1>4. Abort(rs, t) \in SUBSET Run /\ (Abort(rs, t) = {} <=> rs = {})
    BY <1>1, <1>3
  <1>5. \A r \in Abort(rs, t) : \E q \in rs : r = Stop(q) /\ r.id = q.id
    BY <1>1, <1>3
  <1>6. ASSUME Tracks(t, rs) PROVE Tracks(t, Abort(rs, t)) /\ \A r \in Abort(rs, t) : r.aborted
    <2>1. \A r, s \in Abort(rs, t) : r = s
      BY <1>5, <1>6 DEF Tracks
    <2>2. \A r \in Abort(rs, t) : r.id = t.completion
      BY <1>5, <1>6 DEF Tracks
    <2>3. \A r \in Abort(rs, t) : r.aborted
      BY <1>2, <1>5, <1>6 DEF Tracks
    <2> QED
      BY <1>4, <1>6, <2>1, <2>2, <2>3 DEF Tracks
  <1> QED
    BY <1>4, <1>5, <1>6

\* What a step may make of a task and its executions: both still belong together,
\* and behind a lock nothing is started and nothing is due.
Proper(outcome, blocked) ==
    /\ outcome.task \in Task
    /\ outcome.runs \in SUBSET Run
    /\ Tracks(outcome.task, outcome.runs)
    /\ blocked => ~outcome.task.timer /\ outcome.runs = runs

LEMMA ProperOutcome ==
    ASSUME NEW t \in Task, NEW rs \in SUBSET Run, NEW blocked, Tracks(t, rs),
           blocked => ~t.timer /\ rs = runs
    PROVE  Proper([task |-> t, runs |-> rs], blocked)
  BY DEF Proper

\* executeTask starts a run only of a task that has none, and none behind a lock.
LEMMA ExecuteKeeps ==
    ASSUME NEW t \in Task, NEW blocked \in BOOLEAN, NEW manual \in BOOLEAN,
           TasksTypeOK, Tracks(t, runs)
    PROVE  Proper(Execute(t, blocked, manual), blocked)
  <1>0. runs \in SUBSET Run /\ interval \in BOOLEAN
    BY DEF TasksTypeOK
  <1>1. CASE blocked
    <2> DEFINE b == Block(t, "unavailable")
    <2>1. Execute(t, blocked, manual) = [task |-> b, runs |-> runs]
      BY <1>1 DEF Execute
    <2>2. b \in Task /\ b.state = "blocked" /\ b.completion = t.completion /\ ~b.timer
      BY DEF Block, Task
    <2> HIDE DEF b
    <2>3. Tracks(b, runs)
      BY <2>2 DEF Tracks
    <2> QED
      BY <1>0, <2>1, <2>2, <2>3, ProperOutcome
  <1>2. CASE ~blocked /\ policy = "managed" /\ ~interval /\ ~manual
    <2>1. Execute(t, blocked, manual) = [task |-> t, runs |-> runs]
      BY <1>2 DEF Execute
    <2> QED
      BY <1>0, <1>2, <2>1, ProperOutcome
  <1>3. CASE ~blocked /\ (policy = "managed" => interval \/ manual) /\ t.completion # NoRun
    <2>1. Execute(t, blocked, manual) = [task |-> t, runs |-> runs]
      BY <1>3 DEF Execute
    <2> QED
      BY <1>0, <1>3, <2>1, ProperOutcome
  <1>4. CASE ~blocked /\ (policy = "managed" => interval \/ manual) /\ t.completion = NoRun
    <2> DEFINE started == [id |-> FreeId, epoch |-> session.epoch, aborted |-> FALSE]
               shown == [t EXCEPT !.state = "running", !.reason = "none",
                                  !.completion = FreeId, !.why = "none"]
    <2>1. Execute(t, blocked, manual) = [task |-> shown, runs |-> runs \cup {started}]
      BY <1>4 DEF Execute, StartRun
    <2>2. runs = {}
      BY <1>4 DEF Tracks, TasksTypeOK, Run
    <2>3. FreeId \in RunIds
      <3>1. FreeId = CHOOSE i \in RunIds : \A r \in runs : r.id # i
        BY DEF FreeId
      <3>2. \E i \in RunIds : \A r \in runs : r.id # i
        BY <2>2
      <3> QED
        BY <3>1, <3>2
    <2>4. started \in Run /\ started.id = FreeId
      BY <2>3 DEF Run, TasksTypeOK
    <2>5. shown \in Task /\ shown.completion = FreeId
      BY <2>3 DEF Task
    <2> HIDE DEF started, shown
    <2>6. Tracks(shown, {started}) /\ runs \cup {started} = {started}
      BY <2>2, <2>4, <2>5 DEF Tracks
    <2> QED
      BY <1>4, <2>1, <2>4, <2>5, <2>6, ProperOutcome
  <1> QED
    BY <1>0, <1>1, <1>2, <1>3, <1>4

\* The notice of the Host starts nothing behind a lock either.
LEMMA HostNotifiedKeeps ==
    ASSUME NEW t \in Task, NEW blocked \in BOOLEAN, TasksTypeOK, Tracks(t, runs)
    PROVE  Proper(HostNotified(t, blocked), blocked)
  <1> DEFINE scheduled == Schedule(t, blocked, interval)
             resumed == [scheduled EXCEPT !.state = "idle", !.reason = "none"]
             resumes == t.state = "blocked" /\ t.reason = "unavailable" /\ ~blocked
  <1>1. interval \in BOOLEAN /\ runs \in SUBSET Run
    BY DEF TasksTypeOK
  <1>2. scheduled \in Task /\ Tracks(scheduled, runs) /\ (blocked => ~scheduled.timer)
    BY <1>1, ScheduleKeeps, TracksScheduled
  <1>3. resumed \in Task /\ Tracks(resumed, runs)
    <2> HIDE DEF scheduled
    <2> QED
      BY <1>2 DEF Task, Tracks
  <1>4. CASE ~resumes
    <2>1. HostNotified(t, blocked) = [task |-> scheduled, runs |-> runs]
      BY <1>4 DEF HostNotified
    <2> HIDE DEF scheduled
    <2> QED
      BY <1>1, <1>2, <2>1, ProperOutcome
  <1>5. CASE resumes /\ (policy = "smart" \/ interval)
    <2>1. HostNotified(t, blocked) = Execute(resumed, blocked, FALSE)
      BY <1>5 DEF HostNotified
    <2> HIDE DEF resumed
    <2> QED
      BY <1>3, <2>1, ExecuteKeeps
  <1>6. CASE resumes /\ ~(policy = "smart" \/ interval)
    <2>1. HostNotified(t, blocked) = [task |-> resumed, runs |-> runs]
      BY <1>6 DEF HostNotified
    <2> HIDE DEF resumed
    <2> QED
      BY <1>1, <1>3, <1>6, <2>1, ProperOutcome
  <1> QED
    BY <1>4, <1>5, <1>6

-----------------------------------------------------------------------------
(* The invariant.                                                          *)

\* The task and its executions as any action but those of the wallet and of the
\* registration leaves them.
LEMMA ProperStep ==
    ASSUME TasksInv, Registered,
           NEW o, Proper(o, Blocked), task' = o.task, runs' = o.runs,
           UNCHANGED <<wallet, disposing, policy>>,
           ready' \in BOOLEAN, interval' \in BOOLEAN, woc' \in BOOLEAN, restarting' \in BOOLEAN,
           cancelling' \in BOOLEAN, idleTimer' \in BOOLEAN,
           idleTimer' => idleTimer \/ Unlocked
    PROVE  TasksInv'
  <1>1. task' \in Task /\ runs' \in SUBSET Run /\ Tracks(task', runs')
    BY DEF Proper
  <1>2. Registered'
    BY <1>1, TaskIsRegistered DEF Registered
  <1>3. TasksTypeOK'
    BY <1>1 DEF TasksInv, TasksTypeOK, wallet
  <1>4. QuietWhileLocked'
    <2>1. session' = session
      BY DEF wallet
    <2>2. CASE session.phase \in {"cleaning", "clean"}
      <3>1. Blocked /\ ~Unlocked
        BY <2>2 DEF Blocked, Unlocked
      <3>2. runs' = runs /\ ~task'.timer
        BY <3>1 DEF Proper
      <3> QED
        BY <2>1, <2>2, <3>1, <3>2 DEF TasksInv, QuietWhileLocked
    <2>3. CASE session.phase \notin {"cleaning", "clean"}
      BY <2>1, <2>3 DEF QuietWhileLocked
    <2> QED
      BY <2>2, <2>3
  <1>5. (disposing => Registered)'
    BY <1>2
  <1> QED
    BY <1>1, <1>2, <1>3, <1>4, <1>5 DEF TasksInv

\* A task that is replaced by t, with its executions possibly told to stop.
LEMMA ReplacedStep ==
    ASSUME TasksInv, Registered,
           NEW t \in Task, t.completion = task.completion,
           t.state = "running" => task.state = "running",
           t.timer => task.timer \/ ~Blocked,
           task' = t, runs' \in {runs, Abort(runs, task)},
           UNCHANGED <<wallet, policy>>,
           disposing' \in BOOLEAN,
           ready' \in BOOLEAN, interval' \in BOOLEAN, woc' \in BOOLEAN, restarting' \in BOOLEAN,
           cancelling' \in BOOLEAN, idleTimer' \in BOOLEAN,
           idleTimer' => idleTimer \/ Unlocked
    PROVE  TasksInv'
  <1>1. task \in Task /\ runs \in SUBSET Run /\ Tracks(task, runs)
    BY DEF TasksInv, TasksTypeOK, Registered
  <1>2. runs' \in SUBSET Run /\ Tracks(task, runs')
    BY <1>1, AbortKeeps
  <1>3. Tracks(t, runs')
    BY <1>2 DEF Tracks
  <1>4. Registered'
    BY TaskIsRegistered DEF Registered
  <1>5. TasksTypeOK'
    BY <1>2 DEF TasksInv, TasksTypeOK, wallet
  <1>6. QuietWhileLocked'
    <2>1. session' = session
      BY DEF wallet
    <2>2. CASE session.phase \in {"cleaning", "clean"}
      <3>1. Blocked /\ ~Unlocked
        BY <2>2 DEF Blocked, Unlocked
      <3>2. \A r \in runs' : r.aborted
        BY <1>1, <2>2, AbortKeeps DEF TasksInv, QuietWhileLocked
      <3> QED
        BY <2>1, <2>2, <3>1, <3>2 DEF TasksInv, QuietWhileLocked
    <2>3. CASE session.phase \notin {"cleaning", "clean"}
      BY <2>1, <2>3 DEF QuietWhileLocked
    <2> QED
      BY <2>2, <2>3
  <1> QED
    BY <1>2, <1>3, <1>4, <1>5, <1>6 DEF TasksInv

LEMMA TasksInitInv == TasksInit => TasksInv
  <1> SUFFICES ASSUME TasksInit PROVE TasksInv
    OBVIOUS
  <1>1. TasksTypeOK
    <2>1. session \in [epoch : Epochs, phase : Phases, bound : BOOLEAN]
      BY TasksAssumption DEF TasksInit
    <2>2. runs \subseteq Run /\ draining \subseteq RunIds
      BY DEF TasksInit
    <2> QED
      BY <2>1, <2>2 DEF TasksInit, TasksTypeOK
  <1> QED
    BY <1>1 DEF TasksInit, TasksInv, Registered, QuietWhileLocked

\* The Host registers, enables, stops and disposes of the unit.
LEMMA HostKeeps ==
    ASSUME TasksInv, Register \/ UnitEnabled \/ UnitStops \/ DisposeDone \/ HostChanges
    PROVE  TasksInv'
  <1>a. TasksTypeOK /\ interval \in BOOLEAN /\ Blocked \in BOOLEAN
    BY DEF TasksInv, TasksTypeOK, Blocked, Unlocked
  <1>1. CASE Register
    <2> DEFINE fresh == [state |-> "idle", reason |-> "none", timer |-> FALSE,
                         completion |-> NoRun, why |-> "none"]
    <2>1. fresh \in Task /\ fresh.completion = NoRun /\ fresh.state = "idle"
      BY DEF Task
    <2>2. runs = {} /\ ~disposing /\ session.phase = "unlocked"
      BY <1>1 DEF Register, TasksInv, Unlocked
    <2>3. task' = Schedule(fresh, TRUE, interval) /\ runs' = runs
      BY <1>1 DEF Register
    <2> HIDE DEF fresh
    <2>4. Tracks(fresh, runs)
      BY <2>1, <2>2 DEF Tracks
    <2>5. task' \in Task /\ Tracks(task', runs')
      BY <1>a, <2>1, <2>3, <2>4, ScheduleKeeps, TracksScheduled
    <2>6. TasksTypeOK'
      BY <1>1, <2>5 DEF Register, TasksInv, TasksTypeOK, wallet, host, queue
    <2>7. Registered'
      BY <2>5, TaskIsRegistered DEF Registered
    <2>8. QuietWhileLocked'
      BY <1>1, <2>2 DEF Register, wallet, QuietWhileLocked
    <2> QED
      BY <2>5, <2>6, <2>7, <2>8 DEF TasksInv
  <1>2. CASE UnitEnabled
    <2>1. task \in Task /\ Tracks(task, runs)
      BY <1>2 DEF UnitEnabled, TasksInv, TasksTypeOK, Registered
    <2>2. Proper(HostNotified(task, FALSE), FALSE)
      BY <1>a, <2>1, HostNotifiedKeeps
    <2>3. session.phase = "unlocked"
      BY <1>2 DEF UnitEnabled, Unlocked
    <2>4. task' \in Task /\ runs' \in SUBSET Run /\ Tracks(task', runs')
      BY <1>2, <2>2 DEF UnitEnabled, Becomes, Proper
    <2>5. TasksTypeOK'
      BY <1>2, <2>4 DEF UnitEnabled, TasksInv, TasksTypeOK, wallet, queue
    <2>6. Registered'
      BY <2>4, TaskIsRegistered DEF Registered
    <2>7. QuietWhileLocked'
      BY <1>2, <2>3 DEF UnitEnabled, wallet, QuietWhileLocked
    <2> QED
      BY <2>4, <2>5, <2>6, <2>7 DEF TasksInv
  <1>3. CASE UnitStops
    <2> DEFINE disarmed == [task EXCEPT !.timer = FALSE]
               t == Schedule(disarmed, TRUE, interval)
    <2>1. task \in Task /\ Registered
      BY <1>3 DEF UnitStops, TasksInv, TasksTypeOK, Registered
    <2>2. /\ disarmed \in Task /\ disarmed.completion = task.completion
          /\ disarmed.state = task.state
      BY <2>1 DEF Task
    <2> HIDE DEF disarmed
    <2>3. /\ t \in Task /\ t.completion = task.completion
          /\ t.state = "running" => task.state = "running"
          /\ ~t.timer
      BY <1>a, <2>2, ScheduleKeeps
    <2> HIDE DEF t
    <2>4. task' = t /\ runs' = Abort(runs, task)
      BY <1>3 DEF UnitStops, t, disarmed
    <2> QED
      BY <1>3, <2>1, <2>3, <2>4, ReplacedStep DEF UnitStops, TasksInv, TasksTypeOK, queue
  <1>4. CASE DisposeDone
    <2>1. Registered /\ runs = {}
      BY <1>4 DEF DisposeDone, TasksInv, Tracks, TasksTypeOK, Run
    <2>2. ~Registered'
      BY <1>4 DEF DisposeDone, Registered
    <2>3. TasksTypeOK'
      BY <1>4 DEF DisposeDone, TasksInv, TasksTypeOK, wallet, queue
    <2>4. QuietWhileLocked'
      BY <1>4, <2>1, <2>2 DEF DisposeDone, TasksInv, QuietWhileLocked, wallet
    <2> QED
      BY <1>4, <2>1, <2>2, <2>3, <2>4 DEF DisposeDone, TasksInv
  <1>5. CASE HostChanges
    <2>1. Registered /\ task \in Task /\ Tracks(task, runs)
      BY <1>5 DEF HostChanges, TasksInv, TasksTypeOK, Registered
    <2>2. Proper(HostNotified(task, Blocked), Blocked)
      BY <1>a, <2>1, HostNotifiedKeeps
    <2> QED
      BY <1>5, <2>1, <2>2, ProperStep DEF HostChanges, Becomes, TasksInv, TasksTypeOK, host, queue
  <1> QED
    BY <1>1, <1>2, <1>3, <1>4, <1>5

\* The facts every step starts from.
LEMMA TasksFacts ==
    ASSUME TasksInv
    PROVE  /\ interval \in BOOLEAN /\ woc \in BOOLEAN /\ ready \in BOOLEAN
           /\ disposing \in BOOLEAN /\ restarting \in BOOLEAN /\ cancelling \in BOOLEAN
           /\ idleTimer \in BOOLEAN /\ Blocked \in BOOLEAN
           /\ runs \in SUBSET Run
           /\ Registered => task \in Task /\ Tracks(task, runs)
           /\ ~Registered => task = NoTask /\ runs = {}
  BY DEF TasksInv, TasksTypeOK, Blocked, Unlocked, Registered

\* A step that leaves the wallet unlocked, or only on its way to the revocation.
LEMMA OpenStep ==
    ASSUME TasksTypeOK', session'.phase \notin {"cleaning", "clean"},
           (Registered => Tracks(task, runs))', (~Registered => runs = {})',
           (disposing => Registered)'
    PROVE  TasksInv'
  BY DEF TasksInv, QuietWhileLocked

\* The global lock and the next unlock.
LEMMA WalletKeeps ==
    ASSUME TasksInv, Lock \/ Revoke \/ Cleaned \/ Unlock
    PROVE  TasksInv'
  <1>a. /\ session \in [epoch : Epochs, phase : Phases, bound : BOOLEAN]
        /\ runs \in SUBSET Run
        /\ Registered => task \in Task /\ Tracks(task, runs)
        /\ ~Registered => task = NoTask /\ runs = {}
        /\ disposing => Registered
    BY TasksFacts DEF TasksInv, TasksTypeOK
  <1>1. CASE Lock
    <2>1. session' \in [epoch : Epochs, phase : Phases, bound : BOOLEAN]
      BY <1>1, <1>a, TasksAssumption DEF Lock
    <2>2. draining' \subseteq RunIds
      BY <1>1, <1>a DEF Lock, Task
    <2>3. TasksTypeOK'
      BY <1>1, <2>1, <2>2 DEF Lock, TasksInv, TasksTypeOK, host, queue
    <2>4. session'.phase = "revoking"
      BY <1>1 DEF Lock
    <2> QED
      BY <1>1, <1>a, <2>3, <2>4, OpenStep DEF Lock, host, Registered
  <1>2. CASE Revoke
    <2>1. /\ session' \in [epoch : Epochs, phase : Phases, bound : BOOLEAN]
          /\ session'.phase = "cleaning"
      BY <1>2, <1>a DEF Revoke
    <2>2. CASE Registered
      <3>1. task' = Block(task, "locked") /\ runs' = Abort(runs, task)
        BY <1>2, <2>2 DEF Revoke, RevokeTasks, Becomes
      <3>2. runs' \in SUBSET Run /\ Tracks(task, runs') /\ \A r \in runs' : r.aborted
        BY <1>a, <2>2, <3>1, AbortKeeps
      <3>3. task' \in Task /\ task'.completion = task.completion /\ task'.state = "blocked" /\ ~task'.timer
        BY <1>a, <2>2, <3>1 DEF Block, Task
      <3>4. Tracks(task', runs') /\ Registered'
        BY <3>2, <3>3, TaskIsRegistered DEF Tracks, Registered
      <3>5. TasksTypeOK'
        BY <1>2, <2>1, <3>2, <3>3 DEF Revoke, TasksInv, TasksTypeOK, host, queue
      <3>6. QuietWhileLocked'
        BY <1>2, <2>1, <3>2, <3>3 DEF Revoke, QuietWhileLocked
      <3> QED
        BY <3>4, <3>5, <3>6 DEF TasksInv
    <2>3. CASE ~Registered
      <3>1. task' = task /\ runs' = runs
        BY <1>2, <2>3 DEF Revoke, RevokeTasks, Becomes
      <3>2. TasksTypeOK'
        BY <1>2, <2>1, <3>1 DEF Revoke, TasksInv, TasksTypeOK, host, queue
      <3>3. ~Registered' /\ ~disposing'
        BY <1>2, <1>a, <2>3, <3>1 DEF Revoke, host, Registered
      <3>4. QuietWhileLocked'
        BY <1>2, <1>a, <2>1, <2>3, <3>1, <3>3 DEF Revoke, QuietWhileLocked
      <3> QED
        BY <1>a, <2>3, <3>1, <3>2, <3>3, <3>4 DEF TasksInv
    <2> QED
      BY <2>2, <2>3
  <1>3. CASE Cleaned
    <2>1. /\ session' \in [epoch : Epochs, phase : Phases, bound : BOOLEAN]
          /\ session'.phase = "clean"
      BY <1>3, <1>a DEF Cleaned
    <2>2. /\ UNCHANGED <<ready, disposing, task, runs, policy, interval, woc, idleTimer,
                         restarting, cancelling>>
          /\ ~Registered /\ draining' = {} /\ session.phase = "cleaning"
      BY <1>3 DEF Cleaned, host, queue
    <2>3. TasksTypeOK'
      BY <2>1, <2>2 DEF TasksInv, TasksTypeOK
    <2>4. QuietWhileLocked'
      BY <1>a, <2>1, <2>2 DEF TasksInv, QuietWhileLocked, Registered
    <2> QED
      BY <1>a, <2>2, <2>3, <2>4 DEF TasksInv, Registered
  <1>4. CASE Unlock
    <2>1. /\ session' \in [epoch : Epochs, phase : Phases, bound : BOOLEAN]
          /\ session'.phase = "unlocked"
      BY <1>4, <1>a, TasksAssumption DEF Unlock
    <2>2. UNCHANGED <<ready, disposing, draining, task, runs, policy, interval, woc, idleTimer,
                      restarting, cancelling>>
      BY <1>4 DEF Unlock, host, queue
    <2>3. TasksTypeOK'
      BY <2>1, <2>2 DEF TasksInv, TasksTypeOK
    <2> QED
      BY <1>a, <2>1, <2>2, <2>3, OpenStep DEF Registered
  <1> QED
    BY <1>1, <1>2, <1>3, <1>4

\* The end of the binding resumes what the lock had blocked.
LEMMA BindKeeps ==
    ASSUME TasksInv, Bind
    PROVE  TasksInv'
  <1>1. /\ session.phase = "unlocked"
        /\ session' \in [epoch : Epochs, phase : Phases, bound : BOOLEAN]
        /\ session'.phase = "unlocked"
    BY DEF Bind, Unlocked, TasksInv, TasksTypeOK
  <1>2. UNCHANGED <<ready, disposing, draining, policy, interval, woc, restarting, cancelling>>
    BY DEF Bind, host, queue
  <1>3. CASE Registered
    <2> DEFINE resumes == task.state = "blocked" /\ task.reason = "locked"
               idle == [task EXCEPT !.state = "idle", !.reason = "none"]
               resumed == IF resumes THEN Schedule(idle, Blocked, interval) ELSE task
               acts == policy = "smart" \/ interval
               outcome == IF acts THEN Execute(resumed, Blocked, FALSE)
                          ELSE [task |-> resumed, runs |-> runs]
    <2>1. task \in Task /\ Tracks(task, runs)
      BY <1>3, TasksFacts
    <2>2. idle \in Task /\ idle.completion = task.completion /\ idle.state = "idle"
      BY <2>1 DEF Task
    <2>3. Becomes(outcome) /\ idleTimer' \in BOOLEAN
      BY <1>3, TasksFacts DEF Bind
    <2> HIDE DEF idle
    <2>4. Tracks(idle, runs)
      BY <2>1, <2>2 DEF Tracks
    <2>5. resumed \in Task /\ Tracks(resumed, runs)
      BY <2>1, <2>2, <2>4, ScheduleKeeps, TracksScheduled, TasksFacts
    <2> HIDE DEF resumed
    <2>6. /\ outcome.task \in Task /\ outcome.runs \in SUBSET Run
          /\ Tracks(outcome.task, outcome.runs)
      <3>1. CASE acts
        BY <2>5, <3>1, ExecuteKeeps, TasksFacts DEF Proper, TasksInv
      <3>2. CASE ~acts
        BY <2>5, <3>2, TasksFacts
      <3> QED
        BY <3>1, <3>2
    <2> HIDE DEF outcome
    <2>7. task' \in Task /\ runs' \in SUBSET Run /\ Tracks(task', runs')
      BY <2>3, <2>6 DEF Becomes
    <2>8. TasksTypeOK'
      BY <1>1, <1>2, <2>3, <2>7 DEF TasksInv, TasksTypeOK
    <2> QED
      BY <1>1, <2>7, <2>8, TaskIsRegistered, OpenStep DEF Registered
  <1>4. CASE ~Registered
    <2>1. UNCHANGED <<task, runs, idleTimer>>
      BY <1>4 DEF Bind
    <2>2. TasksTypeOK'
      BY <1>1, <1>2, <2>1 DEF TasksInv, TasksTypeOK
    <2>3. runs = {} /\ ~disposing
      BY <1>4 DEF TasksInv
    <2> QED
      BY <1>1, <1>2, <1>4, <2>1, <2>2, <2>3, OpenStep DEF Registered
  <1> QED
    BY <1>3, <1>4

\* A password change takes the storage away while the wallet stays unlocked.
LEMMA RevokeStorageKeeps ==
    ASSUME TasksInv, RevokeStorage
    PROVE  TasksInv'
  <1>1. /\ session' \in [epoch : Epochs, phase : Phases, bound : BOOLEAN]
        /\ session'.phase = "unlocked"
    BY TasksAssumption DEF RevokeStorage, Unlocked, TasksInv, TasksTypeOK
  <1>2. /\ UNCHANGED <<ready, disposing, draining, policy, interval, woc, idleTimer, restarting,
                       cancelling>>
        /\ task' = CancelledByKey("revoked")
        /\ runs' = IF Registered THEN Abort(runs, task) ELSE runs
    BY DEF RevokeStorage, host, queue
  <1>3. CASE Registered
    <2>1. task \in Task /\ runs \in SUBSET Run /\ Tracks(task, runs)
      BY <1>3, TasksFacts
    <2>2. runs' \in SUBSET Run /\ Tracks(task, runs')
      BY <1>2, <1>3, <2>1, AbortKeeps
    <2>3. task' \in Task /\ task'.completion = task.completion /\ task'.state = "idle"
      BY <1>2, <1>3, <2>1 DEF CancelledByKey, Task
    <2>4. Tracks(task', runs') /\ Registered'
      BY <2>2, <2>3, TaskIsRegistered DEF Tracks, Registered
    <2>5. TasksTypeOK'
      BY <1>1, <1>2, <2>2, <2>3 DEF TasksInv, TasksTypeOK
    <2> QED
      BY <1>1, <2>4, <2>5, OpenStep
  <1>4. CASE ~Registered
    <2>1. task' = task /\ runs' = {} /\ ~disposing
      BY <1>2, <1>4 DEF CancelledByKey, TasksInv
    <2>2. TasksTypeOK'
      BY <1>1, <1>2, <2>1 DEF TasksInv, TasksTypeOK
    <2> QED
      BY <1>1, <1>2, <1>4, <2>1, <2>2, OpenStep DEF Registered
  <1> QED
    BY <1>3, <1>4

\* The requests and the settings.
LEMMA RequestKeeps ==
    ASSUME TasksInv,
           (\E manual \in BOOLEAN : RunNow(manual)) \/ Cancel \/ CancelByKey \/ Restart
             \/ RestartGoesOn \/ UpdateSettings
    PROVE  TasksInv'
  <1>1. ASSUME NEW manual \in BOOLEAN, RunNow(manual) PROVE TasksInv'
    <2>1. Registered /\ task \in Task /\ Tracks(task, runs)
      BY <1>1, TasksFacts DEF RunNow
    <2>2. Proper(Execute(task, Blocked, manual), Blocked)
      BY <2>1, ExecuteKeeps, TasksFacts DEF TasksInv
    <2> QED
      BY <1>1, <2>1, <2>2, ProperStep, TasksFacts DEF RunNow, Becomes, host, queue
  <1>2. CASE Cancel
    <2> DEFINE t == [task EXCEPT !.state = "idle", !.why = "cancelled"]
    <2>1. Registered /\ task \in Task
      BY <1>2, TasksFacts DEF Cancel
    <2>2. t \in Task /\ t.completion = task.completion /\ t.state = "idle" /\ t.timer = task.timer
      BY <2>1 DEF Task
    <2>3. task' = t
      BY <1>2 DEF Cancel
    <2> HIDE DEF t
    <2> QED
      BY <1>2, <2>1, <2>2, <2>3, ReplacedStep, TasksFacts DEF Cancel, host
  <1>3. CASE CancelByKey
    <2> DEFINE t == [task EXCEPT !.state = "idle", !.timer = FALSE, !.why = "cancelled"]
    <2>1. Registered /\ task \in Task
      BY <1>3, TasksFacts DEF CancelByKey
    <2>2. t \in Task /\ t.completion = task.completion /\ t.state = "idle" /\ ~t.timer
      BY <2>1 DEF Task
    <2>3. task' = t
      BY <1>3, <2>1 DEF CancelByKey, CancelledByKey
    <2> HIDE DEF t
    <2> QED
      BY <1>3, <2>1, <2>2, <2>3, ReplacedStep, TasksFacts DEF CancelByKey, host
  <1>4. CASE Restart
    <2> DEFINE t == [task EXCEPT !.timer = FALSE]
    <2>1. Registered /\ task \in Task
      BY <1>4, TasksFacts DEF Restart
    <2>2. t \in Task /\ t.completion = task.completion /\ t.state = task.state /\ ~t.timer
      BY <2>1 DEF Task
    <2>3. task' = t
      BY <1>4 DEF Restart
    <2> HIDE DEF t
    <2> QED
      BY <1>4, <2>1, <2>2, <2>3, ReplacedStep, TasksFacts DEF Restart, host
  <1>5. CASE RestartGoesOn
    <2>1. CASE Unlocked /\ Registered
      <3>1. task \in Task /\ Tracks(task, runs)
        BY <2>1, TasksFacts
      <3>2. Proper(Execute(task, Blocked, FALSE), Blocked)
        BY <3>1, ExecuteKeeps, TasksFacts DEF TasksInv
      <3> QED
        BY <1>5, <2>1, <3>2, ProperStep, TasksFacts DEF RestartGoesOn, Becomes, host
    <2>2. CASE ~(Unlocked /\ Registered)
      BY <1>5, <2>2 DEF RestartGoesOn, TasksInv, TasksTypeOK, QuietWhileLocked, Registered, wallet, host
    <2> QED
      BY <2>1, <2>2
  <1>6. CASE UpdateSettings
    <2>1. CASE Registered /\ policy = "managed"
      <3>1. task' = Schedule(task, Blocked, ~interval) /\ task \in Task
        BY <1>6, <2>1, TasksFacts DEF UpdateSettings
      <3> DEFINE t == Schedule(task, Blocked, ~interval)
      <3>2. /\ t \in Task /\ t.completion = task.completion
            /\ t.state = "running" => task.state = "running"
            /\ Blocked => ~t.timer
        BY <3>1, ScheduleKeeps, TasksFacts
      <3>3. t.timer \in BOOLEAN
        BY <3>2 DEF Task
      <3>4. task' = t
        BY <3>1
      <3> HIDE DEF t
      <3> QED
        BY <1>6, <2>1, <3>2, <3>3, <3>4, ReplacedStep, TasksFacts DEF UpdateSettings, host, queue
    <2>2. CASE ~(Registered /\ policy = "managed")
      BY <1>6, <2>2 DEF UpdateSettings, TasksInv, TasksTypeOK, QuietWhileLocked, Registered, wallet,
           host, queue
    <2> QED
      BY <2>1, <2>2
  <1> QED
    BY <1>1, <1>2, <1>3, <1>4, <1>5, <1>6

\* The timers.
LEMMA TimerKeeps ==
    ASSUME TasksInv, TimerFires \/ IdleTimerFires \/ WocChanges
    PROVE  TasksInv'
  <1>1. CASE TimerFires
    <2> DEFINE t == [task EXCEPT !.timer = FALSE]
    <2>1. Registered /\ task \in Task /\ Tracks(task, runs)
      BY <1>1, TasksFacts DEF TimerFires
    <2>2. t \in Task /\ t.completion = task.completion /\ t.state = task.state
      BY <2>1 DEF Task
    <2>3. Becomes(Execute(t, Blocked, FALSE))
      BY <1>1 DEF TimerFires
    <2> HIDE DEF t
    <2>4. Tracks(t, runs)
      BY <2>1, <2>2 DEF Tracks
    <2>5. Proper(Execute(t, Blocked, FALSE), Blocked)
      BY <2>2, <2>4, ExecuteKeeps, TasksFacts DEF TasksInv
    <2> QED
      BY <1>1, <2>1, <2>3, <2>5, ProperStep, TasksFacts DEF TimerFires, Becomes, host, queue
  <1>2. CASE IdleTimerFires
    <2>1. CASE Unlocked /\ Registered /\ policy = "smart"
      <3>1. task \in Task /\ Tracks(task, runs)
        BY <2>1, TasksFacts
      <3>2. Proper(Execute(task, Blocked, FALSE), Blocked)
        BY <3>1, ExecuteKeeps, TasksFacts DEF TasksInv
      <3> QED
        BY <1>2, <2>1, <3>2, ProperStep, TasksFacts DEF IdleTimerFires, Becomes, host, queue
    <2>2. CASE ~(Unlocked /\ Registered /\ policy = "smart")
      BY <1>2, <2>2 DEF IdleTimerFires, TasksInv, TasksTypeOK, QuietWhileLocked, Registered,
                        wallet, host, queue
    <2> QED
      BY <2>1, <2>2
  <1>3. CASE WocChanges
    <2>1. idleTimer' \in BOOLEAN /\ (idleTimer' => idleTimer \/ Unlocked)
      BY <1>3, TasksFacts DEF WocChanges
    <2>2. TasksTypeOK'
      BY <1>3, <2>1 DEF WocChanges, TasksInv, TasksTypeOK, wallet, host, queue
    <2>3. QuietWhileLocked'
      BY <1>3, <2>1 DEF WocChanges, TasksInv, QuietWhileLocked, Registered, Unlocked, wallet
    <2> QED
      BY <1>3, <2>2, <2>3 DEF WocChanges, TasksInv, Registered, host
  <1> QED
    BY <1>1, <1>2, <1>3

\* The end of a run: its own try and catch blocks, then the finally block.
LEMMA SettledKeeps ==
    ASSUME TasksInv, Registered, NEW r \in runs, NEW outcome
    PROVE  /\ Settled(r, outcome) \in Task
           /\ Settled(r, outcome).state # "running"
           /\ Settled(r, outcome).timer = task.timer
  BY TasksFacts DEF Settled, Task

LEMMA FinallyKeeps ==
    ASSUME TasksInv, NEW r, NEW t \in Task, t.state # "running", t.timer => task.timer
    PROVE  /\ Finally(r, t) \in Task
           /\ Finally(r, t).state # "running"
           /\ Blocked /\ Finally(r, t).timer => task.timer
  <1> DEFINE idle == [t EXCEPT !.state = "idle", !.reason = "none"]
             s == Schedule(idle, Blocked, interval)
             u == Schedule(t, Blocked, interval)
             blocked == [t EXCEPT !.state = "blocked", !.reason = "unavailable"]
             locked == [t EXCEPT !.state = "blocked", !.reason = "locked"]
  <1>1. Finally(r, t) \in {blocked, locked, s, u, t} /\ (Blocked => Finally(r, t) = blocked)
    BY DEF Finally
  <1>2. idle \in Task /\ idle.state # "running"
    BY DEF Task
  <1>3. /\ blocked \in Task /\ blocked.state # "running" /\ blocked.timer = t.timer
        /\ locked \in Task /\ locked.state # "running"
    BY DEF Task
  <1> HIDE DEF idle, blocked, locked
  <1>4. s \in Task /\ s.state # "running" /\ u \in Task /\ u.state # "running"
    BY <1>2, ScheduleKeeps, TasksFacts, ZenonT(30)
  <1> HIDE DEF s, u
  <1> QED
    BY <1>1, <1>3, <1>4

LEMMA FinishKeeps ==
    ASSUME TasksInv, NEW r \in runs, NEW outcome, Finish(r, outcome)
    PROVE  TasksInv'
  <1> DEFINE final == Finally(r, Settled(r, outcome))
             t == [final EXCEPT !.completion = NoRun]
  <1>1. Registered /\ task \in Task /\ runs \in SUBSET Run /\ Tracks(task, runs)
    BY TasksFacts DEF Finish
  <1>2. task.completion = r.id /\ runs' = {}
    BY <1>1 DEF Tracks, Finish
  <1>3. /\ task' = t /\ idleTimer' = (idleTimer \/ Rearms(r, final)) /\ cancelling' = FALSE
        /\ UNCHANGED <<session, draining, ready, disposing, policy, interval, woc, restarting>>
    BY <1>1, <1>2 DEF Finish, wallet, host
  <1>4. final \in Task /\ final.state # "running" /\ (Blocked /\ final.timer => task.timer)
    BY <1>1, SettledKeeps, FinallyKeeps
  <1>5. idleTimer' \in BOOLEAN /\ (idleTimer' => idleTimer \/ Unlocked)
    BY <1>3, TasksFacts DEF Rearms
  <1> HIDE DEF final
  <1>6. t \in Task /\ t.state # "running" /\ t.timer = final.timer /\ t.completion = NoRun
    BY <1>4 DEF Task
  <1> HIDE DEF t
  <1>7. Tracks(task', runs') /\ Registered'
    BY <1>2, <1>3, <1>6, TaskIsRegistered DEF Tracks, Registered
  <1>8. TasksTypeOK'
    BY <1>2, <1>3, <1>5, <1>6 DEF TasksInv, TasksTypeOK
  <1>9. QuietWhileLocked'
    <2>1. CASE session.phase \in {"cleaning", "clean"}
      <3>1. Blocked /\ ~Unlocked
        BY <2>1 DEF Blocked, Unlocked
      <3>2. ~idleTimer /\ ~task.timer /\ session.phase # "clean"
        BY <1>1, <2>1 DEF TasksInv, QuietWhileLocked
      <3> QED
        BY <1>2, <1>3, <1>4, <1>5, <1>6, <3>1, <3>2 DEF QuietWhileLocked
    <2>2. CASE session.phase \notin {"cleaning", "clean"}
      BY <1>3, <2>2 DEF QuietWhileLocked
    <2> QED
      BY <2>1, <2>2
  <1> QED
    BY <1>7, <1>8, <1>9 DEF TasksInv

LEMMA TasksStepInv == TasksInv /\ [TasksNext]_vars => TasksInv'
  <1> SUFFICES ASSUME TasksInv, [TasksNext]_vars PROVE TasksInv'
    OBVIOUS
  <1>1. CASE UNCHANGED vars
    BY <1>1 DEF vars, TasksInv, TasksTypeOK, Registered, Tracks, QuietWhileLocked
  <1>2. CASE TasksNext
    BY <1>2, HostKeeps, WalletKeeps, BindKeeps, RevokeStorageKeeps, RequestKeeps, TimerKeeps,
       FinishKeeps DEF TasksNext
  <1> QED
    BY <1>1, <1>2

-----------------------------------------------------------------------------
(* The theorems.                                                           *)

\* Every reachable state satisfies the inductive invariant.
THEOREM TasksInvariant == TasksSpec => []TasksInv
  BY TasksInitInv, TasksStepInv, PTL DEF TasksSpec

\* executeTask, with every way to it - timer, request, settings, restart, Host,
\* unlock -, never has two executions of a task under way, and a task shown
\* running has one, through any number of locks and unlocks.
THEOREM TaskRunsOnce == TasksSpec => []SingleRun
  <1>1. TasksInv => SingleRun
    BY DEF TasksInv, SingleRun, Tracks, Registered
  <1> QED
    BY <1>1, TasksInvariant, PTL

\* From the revocation of the global lock to the next unlock every execution has
\* been told to stop and no timer is armed; once the clean-up ended none is left.
THEOREM TasksQuietWhileLocked == TasksSpec => []QuietWhileLocked
  <1>1. TasksInv => QuietWhileLocked
    BY DEF TasksInv
  <1> QED
    BY <1>1, TasksInvariant, PTL
=============================================================================
