----------------------------- MODULE BackgroundTasks -----------------------------
(***************************************************************************)
(* The scheduling of one background task of an owner-session unit          *)
(* (packages/plugin-background/src/workerRuntime.ts), between the plugin   *)
(* Host that registers and disposes it, the global lock that blocks it and *)
(* the requests, timers and settings that start, cancel and restart it.    *)
(* Tasks share nothing but the idle timer, so one task is modelled.        *)
(***************************************************************************)
EXTENDS Naturals, FiniteSets

CONSTANTS
    Policies,       \* the syncPolicy values a task is registered with
    MaxEpoch        \* bound on the session epochs

\* "managed": at an interval of the settings.  "smart": when the WoC queue is idle.
ASSUME TasksAssumption == Policies \subseteq {"managed", "smart"} /\ MaxEpoch \in Nat

VARIABLES
    session,        \* epoch, phase of the wallet, and whether unlocking has resumed the tasks
    ready,          \* the unit of the task is enabled in the Host
    task,           \* the TaskRuntime in taskRuntimes, or NoTask
    disposing,      \* the registration is being disposed
    runs,           \* executions whose promise has not settled
    draining,       \* completions the global lock waits for
    policy,         \* the syncPolicy of the task, which never changes
    interval,       \* the settings give the task an interval
    woc,            \* is the WoC queue idle?
    idleTimer,      \* smartSyncIdleTimer is set
    restarting,     \* restartTasks waits for the completion of the task
    cancelling      \* a cancel request holds the request queue until the run ends

vars == <<session, ready, task, disposing, runs, draining, policy, interval, woc,
          idleTimer, restarting, cancelling>>
wallet == <<session, draining>>
host == <<ready, disposing>>
queue == <<restarting, cancelling>>

Epochs == 0..MaxEpoch
RunIds == 1..2
Phases == {"unlocked", "revoking", "cleaning", "clean"}
NoRun == 0
NoTask == [state |-> "none"]
Run == [id : RunIds, epoch : Epochs, aborted : BOOLEAN]
\* "why": how the last run was called off, for the properties.
Task == [state : {"idle", "running", "blocked"}, reason : {"none", "unavailable", "locked", "provider"},
         timer : BOOLEAN, completion : RunIds \cup {NoRun}, why : {"none", "cancelled", "revoked"}]

Unlocked == session.phase = "unlocked"
Registered == task # NoTask

TasksInit ==
    /\ session = [epoch |-> 0, phase |-> "clean", bound |-> FALSE]
    /\ ready = FALSE /\ task = NoTask /\ disposing = FALSE
    /\ runs = {} /\ draining = {}
    /\ policy \in Policies
    /\ interval \in BOOLEAN
    /\ woc = TRUE /\ idleTimer = FALSE
    /\ restarting = FALSE /\ cancelling = FALSE

-----------------------------------------------------------------------------
\* coordinatorTaskBlockedReason: the unit needs an unlocked owner and its Host instance.
Blocked == ~(Unlocked /\ ready)

Block(t, reason) == [t EXCEPT !.state = "blocked", !.reason = reason, !.timer = FALSE]
Abort(rs, t) == {IF r.id = t.completion THEN [r EXCEPT !.aborted = TRUE] ELSE r : r \in rs}

\* scheduleRuntime, when the availability and the interval are as given.
Schedule(t, blocked, on) ==
    IF blocked
    THEN IF t.state = "running" THEN [t EXCEPT !.timer = FALSE] ELSE Block(t, "unavailable")
    ELSE IF policy = "managed" /\ on THEN [t EXCEPT !.timer = TRUE]
    ELSE [t EXCEPT !.timer = FALSE]

FreeId == CHOOSE i \in RunIds : \A r \in runs : r.id # i

StartQueued(t) ==  \* Mutant: the state the type allows and the code never uses.
    [task |-> [t EXCEPT !.state = "queued", !.completion = FreeId], runs |-> runs]

StartRun(t) ==
    [task |-> [t EXCEPT !.state = "running", !.reason = "none", !.completion = FreeId, !.why = "none"],
     runs |-> runs \cup {[id |-> FreeId, epoch |-> session.epoch, aborted |-> FALSE]}]

ExecuteOverlapping(t, blocked, manual) ==  \* Mutant: a run in progress is not looked at.
    CASE blocked -> [task |-> Block(t, "unavailable"), runs |-> runs]
      [] ~blocked /\ policy = "managed" /\ ~interval /\ ~manual -> [task |-> t, runs |-> runs]
      [] OTHER -> IF Cardinality(runs) = 2 THEN [task |-> t, runs |-> runs] ELSE StartRun(t)

\* executeTask up to its first await. The check that the vault is unlocked comes
\* after that of the availability, which includes it.
Execute(t, blocked, manual) ==
    CASE blocked -> [task |-> Block(t, "unavailable"), runs |-> runs]
      [] ~blocked /\ policy = "managed" /\ ~interval /\ ~manual -> [task |-> t, runs |-> runs]
      [] ~blocked /\ (policy = "managed" => interval \/ manual) ->
             IF t.completion # NoRun THEN [task |-> t, runs |-> runs] ELSE StartRun(t)

Becomes(outcome) == task' = outcome.task /\ runs' = outcome.runs

\* The subscription of attachCoordinatorHost, after the set of instances changed.
HostNotified(t, blocked) ==
    LET resumes == t.state = "blocked" /\ t.reason = "unavailable" /\ ~blocked
        scheduled == Schedule(t, blocked, interval)
        resumed == [scheduled EXCEPT !.state = "idle", !.reason = "none"]
    IN  IF ~resumes THEN [task |-> scheduled, runs |-> runs]
        ELSE IF policy = "smart" \/ interval THEN Execute(resumed, blocked, FALSE)
        ELSE [task |-> resumed, runs |-> runs]

-----------------------------------------------------------------------------
\* The Host starts the unit of the task: register, then the unit is enabled.
Register ==
    /\ Unlocked /\ ~ready /\ ~Registered
    /\ task' = Schedule([state |-> "idle", reason |-> "none", timer |-> FALSE,
                         completion |-> NoRun, why |-> "none"], TRUE, interval)
    /\ UNCHANGED <<wallet, host, runs, policy, interval, woc, idleTimer, queue>>

UnitEnabled ==
    /\ Unlocked /\ ~ready /\ Registered /\ ~disposing
    /\ ready' = TRUE
    /\ Becomes(HostNotified(task, FALSE))
    /\ UNCHANGED <<wallet, disposing, policy, interval, woc, idleTimer, queue>>

\* The unit stops, because of the lock or of what it depends on: the registration
\* is revoked and disposed of.
UnitStops ==
    /\ Registered /\ ~disposing
    /\ ready' = FALSE /\ disposing' = TRUE
    /\ task' = Schedule([task EXCEPT !.timer = FALSE], TRUE, interval)
    /\ runs' = Abort(runs, task)
    /\ UNCHANGED <<wallet, policy, interval, woc, idleTimer, queue>>

DisposeDone ==
    /\ disposing /\ task.completion = NoRun
    /\ task' = NoTask /\ disposing' = FALSE
    /\ UNCHANGED <<wallet, ready, runs, policy, interval, woc, idleTimer, queue>>

\* Another unit appeared or went.
HostChanges ==
    /\ Registered /\ ~disposing
    /\ Becomes(HostNotified(task, Blocked))
    /\ UNCHANGED <<wallet, host, policy, interval, woc, idleTimer, queue>>

-----------------------------------------------------------------------------
\* performGlobalLock: the security commit, then the revocation in a later job.
Lock ==
    /\ Unlocked /\ session.epoch < MaxEpoch
    /\ session' = [epoch |-> session.epoch + 1, phase |-> "revoking", bound |-> FALSE]
    /\ draining' = IF Registered THEN {task.completion} \ {NoRun} ELSE {}
    /\ UNCHANGED <<host, task, runs, policy, interval, woc, idleTimer, queue>>

RevokeAbortsNothing ==  \* Mutant: running tasks are not aborted.
    [task |-> IF Registered THEN Block(task, "locked") ELSE task, runs |-> runs]

RevokeTasks ==
    [task |-> IF Registered THEN Block(task, "locked") ELSE task,
     runs |-> IF Registered THEN Abort(runs, task) ELSE runs]

RevokeKeepingIdleTimer ==  \* Mutant: the idle timer of the old session stays.
    /\ session.phase = "revoking"
    /\ session' = [session EXCEPT !.phase = "cleaning"]
    /\ Becomes(RevokeTasks)
    /\ UNCHANGED <<host, draining, policy, interval, woc, idleTimer, queue>>

\* cancelSmartSyncIdleTimer and block("Vault is locked")
Revoke ==
    /\ session.phase = "revoking"
    /\ session' = [session EXCEPT !.phase = "cleaning"]
    /\ idleTimer' = FALSE
    /\ Becomes(RevokeTasks)
    /\ UNCHANGED <<host, draining, policy, interval, woc, queue>>

\* The clean-ups of the owner's units and of the background tasks have settled.
Cleaned ==
    /\ session.phase = "cleaning"
    /\ ~Registered /\ \A r \in runs : r.id \notin draining
    /\ session' = [session EXCEPT !.phase = "clean"]
    /\ draining' = {}
    /\ UNCHANGED <<host, task, runs, policy, interval, woc, idleTimer, queue>>

Unlock ==
    /\ session.phase = "clean" /\ session.epoch < MaxEpoch
    /\ session' = [epoch |-> session.epoch + 1, phase |-> "unlocked", bound |-> FALSE]
    /\ UNCHANGED <<host, task, draining, runs, policy, interval, woc, idleTimer, queue>>

\* The end of completeUnlockedBinding: resume("Vault is locked"), then
\* triggerImmediateSync.
Bind ==
    /\ Unlocked /\ ~session.bound
    /\ session' = [session EXCEPT !.bound = TRUE]
    /\ IF Registered
       THEN LET resumes == task.state = "blocked" /\ task.reason = "locked"
                resumed == IF resumes
                           THEN Schedule([task EXCEPT !.state = "idle", !.reason = "none"], Blocked, interval)
                           ELSE task
            IN  /\ Becomes(IF policy = "smart" \/ interval THEN Execute(resumed, Blocked, FALSE)
                           ELSE [task |-> resumed, runs |-> runs])
                /\ idleTimer' = (idleTimer \/ (resumes /\ policy = "smart" /\ woc))
       ELSE UNCHANGED <<task, runs, idleTimer>>
    /\ UNCHANGED <<host, draining, policy, interval, woc, queue>>

-----------------------------------------------------------------------------
\* handleBackgroundRunNow, and with another reason handleBackgroundTrigger
RunNow(manual) ==
    /\ ~cancelling /\ Unlocked /\ Registered
    /\ task.state = "idle" \/ Blocked
    /\ Becomes(Execute(task, Blocked, manual))
    /\ UNCHANGED <<wallet, host, policy, interval, woc, idleTimer, queue>>

\* handleBackgroundCancel
Cancel ==
    /\ ~cancelling /\ Registered
    /\ task.state = "running"
    /\ task' = [task EXCEPT !.state = "idle", !.why = "cancelled"]
    /\ runs' = Abort(runs, task)
    /\ cancelling' = (task.completion # NoRun)
    /\ UNCHANGED <<wallet, host, policy, interval, woc, idleTimer, restarting>>

CancelledByKey(why) ==
    IF Registered THEN [task EXCEPT !.state = "idle", !.timer = FALSE, !.why = why] ELSE task

\* handleBackgroundCancelByKey, of the owner's identity
CancelByKey ==
    /\ ~cancelling /\ Unlocked /\ Registered
    /\ task' = CancelledByKey("cancelled")
    /\ runs' = Abort(runs, task)
    /\ cancelling' = (task.completion # NoRun)
    /\ UNCHANGED <<wallet, host, policy, interval, woc, idleTimer, restarting>>

\* revokeStorageBindingAndDrain of a password change: the wallet stays unlocked,
\* and nobody waits for the tasks.
RevokeStorage ==
    /\ Unlocked /\ session.epoch < MaxEpoch
    /\ session' = [session EXCEPT !.epoch = @ + 1]
    /\ task' = CancelledByKey("revoked")
    /\ runs' = IF Registered THEN Abort(runs, task) ELSE runs
    /\ UNCHANGED <<host, draining, policy, interval, woc, idleTimer, queue>>

\* restartTasks, after another provider was chosen
Restart ==
    /\ ~restarting /\ Registered
    /\ task' = [task EXCEPT !.timer = FALSE]
    /\ runs' = Abort(runs, task)
    /\ restarting' = TRUE
    /\ UNCHANGED <<wallet, host, policy, interval, woc, idleTimer, cancelling>>

RestartGoesOn ==
    /\ restarting /\ (Registered => task.completion = NoRun)
    /\ restarting' = FALSE
    /\ IF Unlocked /\ Registered THEN Becomes(Execute(task, Blocked, FALSE)) ELSE UNCHANGED <<task, runs>>
    /\ UNCHANGED <<wallet, host, policy, interval, woc, idleTimer, cancelling>>

\* handleBackgroundSettingsUpdate, once the settings are stored
UpdateSettings ==
    /\ ~cancelling
    /\ interval' = ~interval
    /\ task' = IF Registered /\ policy = "managed" THEN Schedule(task, Blocked, ~interval) ELSE task
    /\ UNCHANGED <<wallet, host, runs, policy, woc, idleTimer, queue>>

-----------------------------------------------------------------------------
TimerFires ==
    /\ Registered /\ task.timer
    /\ Becomes(Execute([task EXCEPT !.timer = FALSE], Blocked, FALSE))
    /\ UNCHANGED <<wallet, host, policy, interval, woc, idleTimer, queue>>

IdleTimerFires ==
    /\ idleTimer
    /\ idleTimer' = FALSE
    /\ IF Unlocked /\ Registered /\ policy = "smart" THEN Becomes(Execute(task, Blocked, FALSE))
       ELSE UNCHANGED <<task, runs>>
    /\ UNCHANGED <<wallet, host, policy, interval, woc, queue>>

\* onWocQueueChanged
WocChanges ==
    /\ woc' = ~woc
    /\ idleTimer' = (~woc /\ (idleTimer \/ Unlocked))
    /\ UNCHANGED <<wallet, host, task, runs, policy, interval, queue>>

\* The try and catch blocks of executeTask: the state the run itself gives the task.
Settled(r, outcome) ==
    CASE outcome = "ok" /\ r.epoch = session.epoch -> [task EXCEPT !.state = "idle"]
      [] outcome # "ok" \/ r.epoch # session.epoch ->
           IF Blocked THEN [task EXCEPT !.state = "blocked", !.reason = "unavailable"]
           ELSE IF r.aborted THEN [task EXCEPT !.state = IF task.reason = "unavailable" THEN "blocked" ELSE "idle"]
           ELSE IF outcome = "provider" THEN [task EXCEPT !.state = "blocked", !.reason = "provider"]
           ELSE [task EXCEPT !.state = "idle"]

FinallyForgettingTimer(r, t) ==  \* Mutant: only a recovered task is scheduled again.
    IF Blocked THEN [t EXCEPT !.state = "blocked", !.reason = "unavailable"]
    ELSE IF r.epoch # session.epoch THEN [t EXCEPT !.state = "blocked", !.reason = "locked"]
    ELSE IF t.reason = "unavailable" THEN Schedule([t EXCEPT !.state = "idle", !.reason = "none"], Blocked, interval)
    ELSE t

\* Its finally block.
Finally(r, t) ==
    IF Blocked THEN [t EXCEPT !.state = "blocked", !.reason = "unavailable"]
    ELSE IF r.epoch # session.epoch THEN [t EXCEPT !.state = "blocked", !.reason = "locked"]
    ELSE IF t.reason = "unavailable" THEN Schedule([t EXCEPT !.state = "idle", !.reason = "none"], Blocked, interval)
    ELSE IF ~r.aborted /\ t.state # "blocked" THEN Schedule(t, Blocked, interval)
    ELSE t

RearmsNever(r, t) == FALSE  \* Mutant

\* The smart task counts the idle time from its own end.
Rearms(r, t) ==
    /\ policy = "smart" /\ t.state # "blocked" /\ Unlocked
    /\ r.epoch = session.epoch /\ woc

Finish(r, outcome) ==
    /\ r \in runs /\ Registered
    /\ runs' = runs \ {r}
    /\ IF task.completion # r.id
       THEN task' = Settled(r, outcome) /\ UNCHANGED <<idleTimer, cancelling>>
       ELSE LET final == Finally(r, Settled(r, outcome))
            IN  /\ task' = [final EXCEPT !.completion = NoRun]
                /\ idleTimer' = (idleTimer \/ Rearms(r, final))
                /\ cancelling' = FALSE
    /\ UNCHANGED <<wallet, host, policy, interval, woc, restarting>>

-----------------------------------------------------------------------------
TasksNext ==
    \/ Register \/ UnitEnabled \/ UnitStops \/ DisposeDone \/ HostChanges
    \/ Lock \/ Revoke \/ Cleaned \/ Unlock \/ Bind
    \/ \E manual \in BOOLEAN : RunNow(manual)
    \/ Cancel \/ CancelByKey \/ RevokeStorage \/ Restart \/ RestartGoesOn \/ UpdateSettings
    \/ TimerFires \/ IdleTimerFires \/ WocChanges
    \/ \E r \in runs, outcome \in {"ok", "failed", "provider"} : Finish(r, outcome)

TasksSpec == TasksInit /\ [][TasksNext]_vars

\* Timers fire, runs end, and the Host and the lock finish what they began.
FairTasksSpec ==
    /\ TasksSpec
    /\ WF_vars(TimerFires) /\ WF_vars(IdleTimerFires)
    /\ WF_vars(\E r \in runs, outcome \in {"ok", "failed", "provider"} : Finish(r, outcome))
    /\ WF_vars(DisposeDone) /\ WF_vars(RestartGoesOn) /\ WF_vars(Revoke) /\ WF_vars(Cleaned)
    /\ WF_vars(UnitStops /\ session.phase = "cleaning")

-----------------------------------------------------------------------------
TasksTypeOK ==
    /\ session \in [epoch : Epochs, phase : Phases, bound : BOOLEAN]
    /\ ready \in BOOLEAN /\ disposing \in BOOLEAN
    /\ task \in Task \cup {NoTask}
    /\ runs \subseteq Run /\ draining \subseteq RunIds
    /\ policy \in Policies /\ interval \in BOOLEAN /\ woc \in BOOLEAN /\ idleTimer \in BOOLEAN
    /\ restarting \in BOOLEAN /\ cancelling \in BOOLEAN

\* However timers, requests, restarts and the Host interleave, a task never runs
\* twice at the same time, and a task that is shown running runs.
SingleRun ==
    /\ \A r, s \in runs : r = s
    /\ Registered => \A r \in runs : task.completion = r.id
    /\ (Registered /\ task.state = "running") => runs # {}

\* From the revocation of a lock until the next unlock every run of the old session
\* has been told to stop and no timer can start another; after the clean-up none is left.
QuietWhileLocked ==
    /\ session.phase \in {"cleaning", "clean"} =>
         (\A r \in runs : r.aborted) /\ ~idleTimer /\ (Registered => ~task.timer)
    /\ session.phase = "clean" => runs = {} /\ ~Registered

\* A task that stays available and is not cancelled runs again and again.
Able == /\ Registered /\ ~Blocked /\ ~disposing /\ task.why = "none" /\ ~restarting
        /\ interval /\ woc /\ (task.state = "blocked" => task.reason # "provider")
KeepsSyncing == <>[]Able => []<>(runs # {})

\* "The other sync tasks run at the interval of the settings; 0 means off": a
\* resting task that nobody cancelled and whose provider works has its timer.
\* The code does not keep this: README, section 3.
Resting == Registered /\ ~disposing /\ ~Blocked /\ task.completion = NoRun /\ ~restarting
IntervalKept ==
    (/\ policy = "managed" /\ interval /\ session.bound /\ Resting
     /\ task.why # "cancelled" /\ task.reason # "provider") => task.timer
=============================================================================
