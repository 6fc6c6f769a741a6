----------------------------- MODULE Scheduler ------------------------------
(***************************************************************************)
(* When the service starts a backup: schedule.rs, the timed part of the    *)
(* runtime, and the sleep of the event loop.  The clock is the wall clock, *)
(* which may be set; the sleep is measured by a clock that may not.        *)
(*                                                                         *)
(* The loop acts within a unit of time: time passes only while it sleeps.  *)
(* Which repository is used, updates and the queue are in ServiceRuntime;  *)
(* here an event is a reason to wake that is still pending.                *)
(***************************************************************************)
EXTENDS Integers, FiniteSets

CONSTANTS
    None,               \* an absent time
    Configurations,     \* configurations that requests may install
    FailureRetry,       \* INITIAL_FAILURE_RETRY_MINUTES
    MaxExponent,        \* MAX_FAILURE_BACKOFF_EXPONENT
    ConditionRetry,     \* CONDITION_RETRY_SECONDS
    LongestSleep,       \* the sleep without a deadline, one hour
    Deferrals,          \* minutes a client may defer by
    ClockChanges,       \* times the wall clock may be set to
    Suspensions,        \* durations of a suspension of the machine
    Enrolls,            \* whether clients enroll the device
    MaxFailures,        \* where consecutive_failures saturates
    MaxNow              \* bound: the last instant considered

Configuration ==
    [configured : BOOLEAN, interval : Nat \ {0}, grace : Nat,
     battery : BOOLEAN, metered : BOOLEAN]

ASSUME SchedulerAssumption ==
    /\ None \notin Int
    /\ Configurations \subseteq Configuration
    /\ FailureRetry \in Nat \ {0}
    /\ MaxExponent \in Nat
    /\ ConditionRetry \in Nat \ {0}
    /\ LongestSleep \in Nat \ {0}
    /\ Deferrals \subseteq Nat \ {0}
    /\ ClockChanges \subseteq Nat
    /\ Suspensions \subseteq Nat
    /\ Enrolls \in BOOLEAN
    /\ MaxFailures \in Nat
    /\ MaxNow \in Nat

VARIABLES
    now,                \* the wall clock
    config,             \* effective configuration
    status,             \* state and next_deadline of ServiceStatus
    last_success,
    saved_success,      \* last_success in state.json
    resumed_at,
    not_before,
    consecutive_failures,
    manual_requested,
    operation,          \* the repository operation
    management,         \* management_operation_active
    pending,            \* events in the channel
    loop,               \* the event loop, the configuration it cloned, and whether
                        \* its latest evaluation found a management operation
    delay,              \* what is left of the sleep
    waited              \* history: time spent ready for a backup since an event

timeVars == <<last_success, resumed_at, not_before, consecutive_failures>>
gateVars == <<config, operation, management>>
vars == <<now, config, status, last_success, saved_success, resumed_at, not_before,
          consecutive_failures, manual_requested, operation, management, pending,
          loop, delay, waited>>

MaybeTime == Nat \cup {None}
Latest(t, u) == IF u = None \/ t >= u THEN t ELSE u

(* 1 << e *)
Power[e \in Nat] == IF e = 0 THEN 1 ELSE 2 * Power[e - 1]

-----------------------------------------------------------------------------
(* schedule.rs                                                             *)

(* Mutant: the interval counts from the evaluation.                        *)
SlidingDeadline(success, time, interval) == IF success = None THEN time ELSE time + interval

CompletionDeadline(success, time, interval) ==
    IF success = None THEN time
    ELSE (IF success <= time THEN success ELSE time) + interval

(* The conditions: no network, on battery, metered network.                *)
Conditions == SUBSET {"network", "battery", "metered"}

ScheduledDeadline(c) == CompletionDeadline(last_success, now, c.interval)

(* Mutant: the retry time is not looked at.                                *)
UndeferredDueAt(c) == ScheduledDeadline(c)

(* The deadline that decide works with.                                    *)
DueAt(c) == IF manual_requested THEN ScheduledDeadline(c)
            ELSE Latest(ScheduledDeadline(c), not_before)

Due(c) == manual_requested \/ now >= DueAt(c)

InWakeGrace(c) == ~manual_requested /\ resumed_at # None /\ now < resumed_at + c.grace

(* decide, for a configuration and the conditions that hold.  The reason   *)
(* is the first blocker.                                                   *)
Decide(c, conditions) ==
    LET battery == ~manual_requested /\ "battery" \in conditions /\ ~c.battery
        metered == "metered" \in conditions /\ ~c.metered
    IN IF status.state = "Running" THEN [decision |-> "AlreadyRunning"]
       ELSE IF ~Due(c) THEN [decision |-> "Idle", deadline |-> DueAt(c)]
       ELSE IF InWakeGrace(c)
       THEN [decision |-> "Waiting", reason |-> "WakeGrace", retry |-> resumed_at + c.grace]
       ELSE IF "network" \in conditions \/ battery \/ metered
       THEN [decision |-> "Waiting", reason |-> "Conditions", retry |-> None]
       ELSE [decision |-> "Start"]

-----------------------------------------------------------------------------
(* The runtime                                                             *)

States == {"Unconfigured", "Idle", "Running", "Ended", "WakeGrace", "Conditions",
           "RepositoryValidation"}
Waiting == {"WakeGrace", "Conditions", "RepositoryValidation"}
Status(state, deadline) == [state |-> state, next_deadline |-> deadline]

(* Mutant: a management operation does not bound the sleep.                *)
DelayWithoutManagement(s, m, time) ==
    IF s.state = "Conditions" THEN ConditionRetry
    ELSE IF s.next_deadline = None THEN LongestSleep
    ELSE IF s.next_deadline > time THEN s.next_deadline - time ELSE 0

(* The sleep that next_evaluation_delay asks for in the given state.       *)
NextEvaluationDelay(s, m, time) ==
    IF m \/ s.state = "Conditions" THEN ConditionRetry
    ELSE IF s.next_deadline = None THEN LongestSleep
    ELSE IF s.next_deadline > time THEN s.next_deadline - time ELSE 0

(* apply_configuration_status *)
ConfigurationStatus(c, op) ==
    IF ~c.configured THEN Status("Unconfigured", None)
    ELSE IF op # "Succeeded" THEN Status("RepositoryValidation", None)
    ELSE Status(IF status.state \in {"Unconfigured", "RepositoryValidation"}
                THEN "Idle" ELSE status.state,
                Latest(ScheduledDeadline(c), not_before))

ApplyConfigurationStatus(c, op) ==
    /\ status' = ConfigurationStatus(c, op)
    /\ manual_requested' = (manual_requested /\ c.configured)
    /\ not_before' = IF c.configured THEN not_before ELSE None

(* from_resolved_with_state *)
LoadedStatus(c, op, success) ==
    IF ~c.configured THEN Status("Unconfigured", None)
    ELSE IF op # "Succeeded" THEN Status("RepositoryValidation", None)
    ELSE Status("Idle", CompletionDeadline(success, now, c.interval))

(* The loop at a point of its code, with the configuration it cloned if it *)
(* is going to use one.                                                    *)
At(pc, busy) ==
    [pc |-> pc, busy |-> busy,
     config |-> IF pc \in {"evaluate", "finished", "notStarted"} THEN config ELSE None]

Init ==
    /\ now = 0
    /\ config \in Configurations
    /\ last_success = None
    /\ saved_success = None
    /\ operation \in {"Required", "Succeeded"}
    /\ status = LoadedStatus(config, operation, None)
    /\ loop = At("woken", FALSE)
    /\ resumed_at = None
    /\ not_before = None
    /\ consecutive_failures = 0
    /\ manual_requested = FALSE
    /\ management = FALSE
    /\ pending = {}
    /\ delay = 0
    /\ waited = 0

(* A restart keeps the configuration, the validation and the last success  *)
(* that was saved.  An operation that was running is required again.       *)
Restart ==
    /\ last_success' = saved_success
    /\ operation' = IF operation = "Succeeded" THEN operation ELSE "Required"
    /\ status' = LoadedStatus(config, operation', saved_success)
    /\ loop' = At("woken", FALSE)
    /\ resumed_at' = None
    /\ not_before' = None
    /\ consecutive_failures' = 0
    /\ manual_requested' = FALSE
    /\ management' = FALSE
    /\ pending' = {}
    /\ delay' = 0
    /\ waited' = 0
    /\ UNCHANGED <<now, config, saved_success>>

-----------------------------------------------------------------------------
(* The event loop                                                          *)

(* The top of the loop: next_evaluation_delay and recv_timeout.  An        *)
(* operation that is still active bounds the sleep.                        *)
Sleep ==
    /\ loop.pc \in {"evaluated", "handled"}
    /\ loop' = At("sleep", loop.busy /\ ~management)
    /\ delay' = NextEvaluationDelay(status, management, now)
    /\ UNCHANGED <<now, gateVars, status, timeVars, saved_success, manual_requested,
                   pending, waited>>

(* An event that asks for an evaluation, or the timeout.  There is none    *)
(* while a backup is active.                                               *)
Wake ==
    /\ loop.pc = "sleep"
    /\ \E event \in {"resume", "wake"} :
         /\ event \in pending \/ (pending = {} /\ delay = 0 /\ event = "wake")
         /\ pending' = pending \ {event}
         /\ resumed_at' = IF event = "resume" THEN now ELSE resumed_at
    /\ loop' = At(IF status.state = "Running" THEN "handled" ELSE "woken", loop.busy)
    /\ delay' = 0
    /\ UNCHANGED <<now, gateVars, status, last_success, saved_success, not_before,
                   consecutive_failures, manual_requested, waited>>

(* evaluate_schedule clones the configuration, then takes the mutex.       *)
CloneConfiguration ==
    /\ loop.pc = "woken"
    /\ loop' = At("evaluate", loop.busy)
    /\ UNCHANGED <<now, gateVars, status, timeVars, saved_success, manual_requested,
                   pending, delay, waited>>

(* What a decision changes.                                                *)
Carry(d) ==
    \/ /\ d.decision = "Start"
       /\ status' = Status("Running", None)
       /\ resumed_at' = None
       /\ not_before' = None
       /\ manual_requested' = FALSE
       /\ waited' = 0
    \/ /\ d.decision = "Idle"
       /\ status' = Status(IF status.state \in Waiting THEN "Idle" ELSE status.state,
                           d.deadline)
       /\ resumed_at' = None
       /\ UNCHANGED <<not_before, manual_requested, waited>>
    \/ /\ d.decision = "Waiting"
       /\ status' = Status(d.reason, IF d.retry # None THEN d.retry
                                     ELSE IF not_before # None THEN not_before ELSE now)
       /\ waited' = 0
       /\ UNCHANGED <<resumed_at, not_before, manual_requested>>

Evaluate ==
    /\ loop.pc = "evaluate"
    /\ IF \/ ~loop.config.configured
          \/ management
          \/ operation # "Succeeded"
          \/ status.state = "Running"       \* AlreadyRunning
       THEN UNCHANGED <<status, resumed_at, not_before, manual_requested, waited>>
       ELSE \E conditions \in Conditions : Carry(Decide(loop.config, conditions))
    /\ loop' = At("evaluated", management)
    /\ UNCHANGED <<now, gateVars, last_success, saved_success, consecutive_failures,
                   pending, delay>>

(* Mutant: the backoff has no cap.                                         *)
UncappedDelay(failures) == FailureRetry * Power[IF failures = 0 THEN 0 ELSE failures - 1]

(* The retry delay after this many failures in a row; a cancellation does  *)
(* not count as one.                                                       *)
RetryDelay(failures) ==
    LET exponent == IF failures = 0 THEN 0 ELSE failures - 1
    IN FailureRetry * Power[IF exponent <= MaxExponent THEN exponent ELSE MaxExponent]

BackupSucceeded ==
    /\ status' = Status("Ended", CompletionDeadline(now, now, config.interval))
    /\ last_success' = now
    /\ saved_success' \in {now, saved_success}
    /\ not_before' = None
    /\ consecutive_failures' = 0

BackupNotSucceeded(failed) ==
    /\ consecutive_failures' = IF failed /\ consecutive_failures < MaxFailures
                               THEN consecutive_failures + 1
                               ELSE consecutive_failures
    /\ not_before' = now + RetryDelay(consecutive_failures')
    /\ status' = Status("Ended", not_before')
    /\ UNCHANGED <<last_success, saved_success>>

(* BackupFinished and finish_backup_at.                                    *)
FinishBackup ==
    /\ loop.pc = "sleep" /\ status.state = "Running"
    /\ \/ BackupSucceeded
       \/ \E failed \in BOOLEAN : BackupNotSucceeded(failed)
    /\ resumed_at' = None
    /\ waited' = 0
    /\ loop' = At("handled", FALSE)
    /\ delay' = 0
    /\ UNCHANGED <<now, gateVars, manual_requested, pending>>

(* RepositoryOperationRequested: the worker starts, or it cannot be.       *)
OperationRequested ==
    /\ loop.pc = "sleep" /\ "request" \in pending
    /\ pending' = pending \ {"request"}
    /\ \E pc \in {"handled", "notStarted"} : loop' = At(pc, loop.busy)
    /\ delay' = 0
    /\ UNCHANGED <<now, gateVars, status, timeVars, saved_success, manual_requested,
                   waited>>

(* RepositoryOperationFinished *)
OperationFinished ==
    /\ loop.pc = "sleep" /\ "request" \notin pending /\ operation = "Running"
    /\ loop' = At("finished", loop.busy)
    /\ delay' = 0
    /\ UNCHANGED <<now, gateVars, status, timeVars, saved_success, manual_requested,
                   pending, waited>>

(* finish_repository_operation has cloned the configuration and takes the  *)
(* mutex.  The loop then evaluates, unless the worker was not started.     *)
FinishRepositoryOperation ==
    /\ loop.pc \in {"finished", "notStarted"}
    /\ operation' \in {"Succeeded", "Failed"}
    /\ loop.pc = "notStarted" => operation' = "Failed"
    /\ ApplyConfigurationStatus(loop.config, operation')
    /\ loop' = At(IF loop.pc = "finished" THEN "woken" ELSE "handled", loop.busy)
    /\ waited' = 0
    /\ UNCHANGED <<now, config, management, last_success, saved_success, resumed_at,
                   consecutive_failures, pending, delay>>

-----------------------------------------------------------------------------
(* Requests                                                                *)

Idle == status.state # "Running" /\ operation # "Running"

(* The one thread that serves requests is not in enroll.                   *)
Serving == ~management

RunBackupNow ==
    /\ Serving
    /\ config.configured /\ operation = "Succeeded"
    /\ status.state # "Running"
    /\ manual_requested' = TRUE
    /\ not_before' = None
    /\ pending' = pending \cup {"wake"}
    /\ waited' = 0
    /\ UNCHANGED <<now, gateVars, status, last_success, saved_success, resumed_at,
                   consecutive_failures, loop, delay>>

DeferBackup ==
    /\ Serving
    /\ config.configured /\ operation = "Succeeded"
    /\ status.state # "Running"
    /\ manual_requested' = FALSE
    /\ \E minutes \in Deferrals : not_before' = now + minutes
    /\ status' = Status(status.state, not_before')
    /\ pending' = pending \cup {"wake"}
    /\ waited' = 0
    /\ UNCHANGED <<now, gateVars, last_success, saved_success, resumed_at,
                   consecutive_failures, loop, delay>>

(* update_schedule, update_repository, commit_enrollment or a new managed  *)
(* policy; a changed connection has to be validated again.                 *)
UpdateConfiguration ==
    /\ Idle
    /\ config' \in Configurations
    /\ operation' \in {operation, "Required"}
    /\ ApplyConfigurationStatus(config', operation')
    /\ pending' = pending \cup {"wake"}
    /\ waited' = 0
    /\ UNCHANGED <<now, management, last_success, saved_success, resumed_at,
                   consecutive_failures, loop, delay>>

(* update_backup_sources: also during a repository operation.              *)
UpdateBackupSources ==
    /\ Serving
    /\ status.state # "Running"
    /\ config' \in {c \in Configurations : c = [config EXCEPT !.configured = c.configured]}
    /\ ApplyConfigurationStatus(config', operation)
    /\ pending' = pending \cup {"wake"}
    /\ waited' = 0
    /\ UNCHANGED <<now, operation, management, last_success, saved_success, resumed_at,
                   consecutive_failures, loop, delay>>

(* begin_repository_operation; the requirement may fail to be saved.       *)
BeginRepositoryOperation ==
    /\ Serving /\ Idle
    /\ operation' \in {"Running", "Failed"}
    /\ status' = IF config.configured THEN Status("RepositoryValidation", None) ELSE status
    /\ pending' = IF operation' = "Running" THEN pending \cup {"request"} ELSE pending
    /\ waited' = 0
    /\ UNCHANGED <<now, config, management, timeVars, saved_success, manual_requested,
                   loop, delay>>

(* enroll holds the flag; what it commits is UpdateConfiguration.          *)
EnrollBegins ==
    /\ Enrolls /\ Serving /\ Idle
    /\ management' = TRUE
    /\ waited' = 0
    /\ UNCHANGED <<now, config, operation, status, timeVars, saved_success, manual_requested,
                   pending, loop, delay>>

EnrollEnds ==
    /\ management
    /\ management' = FALSE
    /\ UNCHANGED <<now, config, operation, status, timeVars, saved_success, manual_requested,
                   pending, loop, delay, waited>>

-----------------------------------------------------------------------------
(* Time                                                                    *)

Ready == config.configured /\ operation = "Succeeded" /\ ~management
         /\ status.state # "Running"

Tick ==
    /\ loop.pc = "sleep" /\ pending = {} /\ delay > 0
    /\ now < MaxNow
    /\ now' = now + 1
    /\ delay' = delay - 1
    /\ waited' = IF Ready THEN waited + 1 ELSE 0
    /\ UNCHANGED <<gateVars, status, timeVars, saved_success, manual_requested, pending, loop>>

PowerStatusChanged ==
    /\ pending' = pending \cup {"wake"}
    /\ UNCHANGED <<now, gateVars, status, timeVars, saved_success, manual_requested, loop,
                   delay, waited>>

(* Mutant: the loop is not told of a changed clock.                        *)
TimeChangedSilently ==
    /\ now' \in ClockChanges
    /\ waited' = 0
    /\ UNCHANGED <<gateVars, status, timeVars, saved_success, manual_requested, pending,
                   loop, delay>>

(* The wall clock is set, which the service control manager reports.       *)
TimeChanged ==
    /\ now' \in ClockChanges
    /\ pending' = pending \cup {"wake"}
    /\ waited' = 0
    /\ UNCHANGED <<gateVars, status, timeVars, saved_success, manual_requested, loop, delay>>

(* The machine is suspended and resumes.                                   *)
Resume ==
    /\ \E d \in Suspensions : now' = now + d /\ now' <= MaxNow
    /\ pending' = pending \cup {"resume"}
    /\ waited' = 0
    /\ UNCHANGED <<gateVars, status, timeVars, saved_success, manual_requested, loop, delay>>

Next ==
    \/ Restart
    \/ Sleep \/ Wake \/ CloneConfiguration \/ Evaluate
    \/ FinishBackup \/ OperationRequested \/ OperationFinished \/ FinishRepositoryOperation
    \/ RunBackupNow \/ DeferBackup \/ UpdateConfiguration \/ UpdateBackupSources
    \/ BeginRepositoryOperation \/ EnrollBegins \/ EnrollEnds
    \/ Tick \/ PowerStatusChanged \/ TimeChanged \/ Resume

Spec == Init /\ [][Next]_vars

-----------------------------------------------------------------------------
(* Properties                                                              *)

Statuses == [state : States, next_deadline : MaybeTime]
Loops == [pc : {"woken", "evaluate", "evaluated", "handled", "sleep", "finished", "notStarted"},
          config : Configurations \cup {None}, busy : BOOLEAN]

(* Every variable has its type.                                            *)
TypeOK ==
    /\ now \in Nat
    /\ config \in Configurations
    /\ status \in Statuses
    /\ {last_success, saved_success, resumed_at, not_before} \subseteq MaybeTime
    /\ consecutive_failures \in 0..MaxFailures
    /\ {manual_requested, management} \subseteq BOOLEAN
    /\ operation \in {"Required", "Running", "Succeeded", "Failed"}
    /\ pending \subseteq {"wake", "resume", "request"}
    /\ loop \in Loops
    /\ delay \in Nat
    /\ waited \in Nat

(* When the loop would start a backup if the conditions allow it.          *)
StartsAt == IF Due(config) /\ InWakeGrace(config) THEN resumed_at + config.grace
            ELSE IF Due(config) THEN now ELSE DueAt(config)

(* The event loop never sleeps through the moment a backup becomes due:    *)
(* whatever request moved the deadline (next_deadline is a copy), the loop *)
(* is awake by then or by the next poll of the conditions.  The exception  *)
(* is an evaluation stopped by an enrollment that ended before the loop    *)
(* computed its sleep.                                                     *)
NeverOversleeps ==
    (loop.pc = "sleep" /\ pending = {} /\ Ready /\ ~loop.busy)
        => delay <= ConditionRetry \/ now + delay <= StartsAt

(* The loop does not spin: unless something happened in between, the sleep *)
(* after an evaluation is not empty (the comment in next_evaluation_delay).*)
NoBusySpin ==
    [][(loop.pc = "evaluated" /\ loop'.pc = "sleep" /\ pending = {}
            /\ loop.busy = management)
        => delay' > 0]_vars

(* No backup starts early: whoever moved the deadline, set the clock or    *)
(* changed the configuration while the loop was at work, a backup that     *)
(* nobody asked for starts an interval after the last success, not before  *)
(* the retry time or the end of a deferral, and not within the grace after *)
(* a resume (decide, evaluate_schedule).                                   *)
StartsOnlyWhenDue ==
    [][status.state # "Running" /\ status'.state = "Running" =>
         /\ loop.config.configured /\ operation = "Succeeded" /\ ~management
         /\ \/ manual_requested
            \/ /\ last_success # None => now >= last_success + loop.config.interval
               /\ not_before # None => now >= not_before
               /\ resumed_at # None => now >= resumed_at + loop.config.grace]_vars

(* completion_deadline keeps a machine that is ready protected: without a  *)
(* deferral or a failure a backup is at most an interval away, unless an   *)
(* enrollment stopped the latest evaluation.                               *)
DueWithinInterval ==
    (Ready /\ not_before = None /\ ~loop.busy) => waited <= config.interval + ConditionRetry

(* The retry after a failure is bounded (finish_backup_at).                *)
BackoffIsBounded ==
    not_before # None =>
        \/ not_before <= now + FailureRetry * Power[MaxExponent]
        \/ \E minutes \in Deferrals : not_before <= now + minutes

=============================================================================
