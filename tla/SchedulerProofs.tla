--------------------------- MODULE SchedulerProofs ---------------------------
(***************************************************************************)
(* Proofs about the schedule, for every set of configurations, every retry *)
(* and poll delay and every bound.  The loop sleeps until a deadline that  *)
(* it copied, so what has to be shown is that the copy is good enough      *)
(* whenever nothing is pending: SleepInv says it of the sleep under way    *)
(* and of the one the loop is about to compute.  IntervalInv and SpinInv   *)
(* say how that sleep relates to the time already waited, and that it is   *)
(* not empty after an evaluation.                                          *)
(***************************************************************************)
EXTENDS Scheduler, TLAPS, WellFoundedInduction

(* The provers that try a leaf which names none, in this order.            *)
USE SMT, Zenon, Z3T(30)

(* The operation in progress and the backup that runs.  The loop has the   *)
(* configuration it is going to use.                                       *)
OperationInv ==
    /\ loop.pc \in {"evaluate", "finished", "notStarted"} => loop.config \in Configurations
    /\ "request" \in pending => operation = "Running"
    /\ loop.pc \in {"finished", "notStarted"} => operation = "Running" /\ "request" \notin pending
    /\ status.state = "Running" =>
         operation = "Succeeded" /\ status.next_deadline = None /\ ~manual_requested

(* A backup can become due and no event is pending. *)
Quiet ==
    pending = {} /\ config.configured /\ operation = "Succeeded" /\ status.state # "Running"

(* The sleep the loop computes when no management operation is active. *)
Planned == NextEvaluationDelay(status, FALSE, now)

InTime(d) == d <= ConditionRetry \/ now + d <= StartsAt

SleepInv ==
    /\ loop.pc = "evaluate" /\ pending = {} => loop.config = config
    /\ loop.pc \in {"evaluated", "handled"} /\ Quiet /\ ~loop.busy => InTime(Planned)
    /\ loop.pc = "sleep" /\ Quiet /\ ~loop.busy => InTime(delay)

Past(t) == t # None => t <= now

HistoryInv ==
    /\ Past(last_success) /\ Past(saved_success) /\ Past(resumed_at)
    /\ last_success # None => waited <= now - last_success
    /\ management => waited = 0
    /\ loop.pc = "evaluate" /\ loop.config # config => waited = 0

IntervalInv ==
    /\ DueWithinInterval
    /\ loop.pc \in {"evaluated", "handled"} /\ Quiet /\ ~loop.busy /\ not_before = None =>
         waited + Planned <= config.interval + ConditionRetry
    /\ loop.pc = "sleep" /\ Quiet /\ ~loop.busy /\ not_before = None =>
         waited + delay <= config.interval + ConditionRetry

SpinInv ==
    /\ operation # "Succeeded" => status.next_deadline = None
    /\ loop.pc = "evaluated" /\ pending = {} /\ ~loop.busy => Planned > 0

-----------------------------------------------------------------------------
(* The powers of two                                                       *)

(* A set of natural numbers that has an element has a least one: induction *)
(* in the form in which it is used below.                                  *)
LEMMA LeastNumber ==
    ASSUME NEW T \in SUBSET Nat, T # {}
    PROVE  \E m \in T : \A k \in T : m <= k
<1> DEFINE R == OpToRel(<, Nat)
<1>1. IsWellFoundedOn(R, Nat)
  BY NatLessThanWellFounded
<1>2. \A x, y \in Nat : y < x => <<y, x>> \in R
  BY DEF OpToRel
<1> HIDE DEF R
<1>3. PICK m \in T : \A y \in T : ~ (<<y, m>> \in R)
  BY <1>1, WFMin, Zenon
<1>4. ASSUME NEW k \in T PROVE m <= k
  <2>1. ~(k < m)
    BY <1>2, <1>3, Zenon
  <2> QED
    BY <2>1
<1> QED
  BY <1>4

(* g tabulates the powers up to the exponent n. *)
IsPower(g, n) ==
    g \in [0 .. n -> Nat] /\ g[0] = 1 /\ \A k \in 1 .. n : g[k] = 2 * g[k - 1]

(* There is such a table for every n. *)
LEMMA PowersExist == \A n \in Nat : \E g \in [0 .. n -> Nat] : IsPower(g, n)
<1> DEFINE T == {n \in Nat : ~ \E g \in [0 .. n -> Nat] : IsPower(g, n)}
<1> SUFFICES ASSUME T # {} PROVE FALSE
  BY Zenon
<1>1. PICK m \in T : \A k \in T : m <= k
  <2>1. T \in SUBSET Nat
    OBVIOUS
  <2> HIDE DEF T
  <2> QED
    BY <2>1, LeastNumber
<1>2. m # 0
  <2> SUFFICES ASSUME m = 0 PROVE FALSE
    OBVIOUS
  <2> DEFINE g == [i \in 0 .. 0 |-> 1]
  <2>1. g \in [0 .. 0 -> Nat] /\ g[0] = 1
    OBVIOUS
  <2> HIDE DEF g
  <2>2. IsPower(g, 0)
    BY <2>1 DEF IsPower
  <2> QED
    BY <2>1, <2>2
<1>3. m - 1 \in Nat /\ m - 1 \notin T
  <2>1. m \in Nat
    OBVIOUS
  <2> HIDE DEF T
  <2> QED
    BY <1>1, <1>2, <2>1
<1>4. PICK g \in [0 .. m - 1 -> Nat] : IsPower(g, m - 1)
  BY <1>3
<1> DEFINE h == [i \in 0 .. m |-> IF i = m THEN 2 * g[m - 1] ELSE g[i]]
<1>5. m \in Nat /\ m - 1 \in 0 .. m - 1
  BY <1>2
<1>6. h \in [0 .. m -> Nat] /\ h[m] = 2 * g[m - 1] /\ \A i \in 0 .. m - 1 : h[i] = g[i]
  BY <1>5
<1> HIDE DEF h
<1>7. IsPower(h, m)
  <2>1. h[0] = 1
    BY <1>3, <1>4, <1>6 DEF IsPower
  <2>2. ASSUME NEW k \in 1 .. m PROVE h[k] = 2 * h[k - 1]
    <3>1. CASE k = m
      BY <1>5, <1>6, <3>1
    <3>2. CASE k \in 1 .. m - 1
      <4>1. k \in 0 .. m - 1 /\ k - 1 \in 0 .. m - 1
        BY <1>5, <3>2
      <4> QED
        BY <1>4, <1>6, <3>2, <4>1 DEF IsPower
    <3> QED
      BY <1>5, <3>1, <3>2
  <2> QED
    BY <1>6, <2>1, <2>2 DEF IsPower
<1> QED
  BY <1>6, <1>7

(* Two tables agree where both have an entry. *)
LEMMA PowersAgree ==
    ASSUME NEW n \in Nat, NEW m \in Nat, n <= m, NEW g, NEW h, IsPower(g, n), IsPower(h, m)
    PROVE  g[n] = h[n]
<1> DEFINE T == {i \in 0 .. n : g[i] # h[i]}
<1>1. CASE T = {}
  <2>1. n \in 0 .. n
    OBVIOUS
  <2> QED
    BY <1>1, <2>1, Zenon
<1>2. CASE T # {}
  <2>1. PICK k \in T : \A i \in T : k <= i
    <3>1. T \in SUBSET Nat
      OBVIOUS
    <3> HIDE DEF T
    <3> QED
      BY <1>2, <3>1, LeastNumber
  <2>2. k \in 0 .. n /\ g[k] # h[k]
    OBVIOUS
  <2>3. k # 0
    BY <2>2 DEF IsPower
  <2>4. k \in 1 .. n /\ k \in 1 .. m /\ k - 1 \in 0 .. n /\ ~(k <= k - 1)
    BY <2>2, <2>3
  <2>5. g[k - 1] = h[k - 1]
    BY <2>1, <2>4, Zenon
  <2> QED
    BY <2>2, <2>4, <2>5 DEF IsPower
<1> QED
  BY <1>1, <1>2

(* The recursive definition of Power has a solution, which Power is. *)
LEMMA PowerEquation ==
    Power = [n \in Nat |-> IF n = 0 THEN 1 ELSE 2 * Power[n - 1]]
<1> DEFINE G(n) == CHOOSE g \in [0 .. n -> Nat] : IsPower(g, n)
           f == [n \in Nat |-> G(n)[n]]
<1>1. \A n \in Nat : G(n) \in [0 .. n -> Nat] /\ IsPower(G(n), n)
  BY PowersExist, Zenon
<1> HIDE DEF G
<1>2. ASSUME NEW n \in Nat PROVE f[n] = IF n = 0 THEN 1 ELSE 2 * f[n - 1]
  <2>1. CASE n = 0
    BY <1>1, <2>1 DEF IsPower
  <2>2. CASE n # 0
    <3>1. n - 1 \in Nat /\ n - 1 <= n /\ n \in 1 .. n
      BY <2>2
    <3>2. G(n - 1)[n - 1] = G(n)[n - 1]
      BY <1>1, <3>1, PowersAgree
    <3>3. G(n)[n] = 2 * G(n)[n - 1]
      BY <1>1, <3>1 DEF IsPower
    <3> QED
      BY <2>2, <3>1, <3>2, <3>3
  <2> QED
    BY <2>1, <2>2
<1>3. f = [n \in Nat |-> IF n = 0 THEN 1 ELSE 2 * f[n - 1]]
  BY <1>2
<1> HIDE DEF f
<1> QED
  BY <1>3, Zenon DEF Power

(* A power of two is a positive number. *)
LEMMA PowerType == \A n \in Nat : Power[n] \in Nat \ {0}
<1> DEFINE T == {n \in Nat : Power[n] \notin Nat \ {0}}
<1> SUFFICES ASSUME T # {} PROVE FALSE
  BY Zenon
<1>1. PICK m \in T : \A k \in T : m <= k
  <2>1. T \in SUBSET Nat
    OBVIOUS
  <2> HIDE DEF T
  <2> QED
    BY <2>1, LeastNumber
<1>2. m \in Nat /\ Power[m] \notin Nat \ {0}
  OBVIOUS
<1>3. CASE m = 0
  BY <1>2, <1>3, PowerEquation
<1>4. CASE m # 0
  <2>1. m - 1 \in Nat /\ ~(m <= m - 1)
    BY <1>2, <1>4
  <2>2. Power[m - 1] \in Nat \ {0}
    BY <1>1, <2>1, Zenon
  <2>3. Power[m] = 2 * Power[m - 1]
    BY <1>2, <1>4, PowerEquation
  <2> QED
    BY <1>2, <2>2, <2>3
<1> QED
  BY <1>3, <1>4

(* The powers of two grow with the exponent. *)
LEMMA PowerMonotone ==
    ASSUME NEW m \in Nat, NEW n \in Nat, m <= n
    PROVE  Power[m] <= Power[n]
<1> DEFINE T == {k \in Nat : m <= k /\ ~(Power[m] <= Power[k])}
<1>1. CASE n \notin T
  BY <1>1
<1>2. CASE n \in T
  <2>1. PICK k \in T : \A i \in T : k <= i
    <3>1. T \in SUBSET Nat
      OBVIOUS
    <3> HIDE DEF T
    <3> QED
      BY <1>2, <3>1, LeastNumber
  <2>2. k \in Nat /\ m <= k /\ ~(Power[m] <= Power[k])
    OBVIOUS
  <2>3. k # m
    BY <2>2, PowerType
  <2>4. k - 1 \in Nat /\ m <= k - 1 /\ ~(k <= k - 1) /\ k # 0
    BY <2>2, <2>3
  <2>5. Power[m] <= Power[k - 1]
    BY <2>1, <2>4, Zenon
  <2>6. Power[k] = 2 * Power[k - 1]
    BY <2>2, <2>4, PowerEquation
  <2> QED
    BY <2>2, <2>4, <2>5, <2>6, PowerType
<1> QED
  BY <1>1, <1>2

(* The retry delay is positive and never above its cap. *)
LEMMA RetryBounded ==
    ASSUME NEW n \in Nat
    PROVE  /\ RetryDelay(n) \in Nat \ {0}
           /\ RetryDelay(n) <= FailureRetry * Power[MaxExponent]
<1> DEFINE x == IF n = 0 THEN 0 ELSE n - 1
           e == IF x <= MaxExponent THEN x ELSE MaxExponent
<1>1. e \in Nat /\ MaxExponent \in Nat /\ e <= MaxExponent
  BY SchedulerAssumption
<1>2. RetryDelay(n) = FailureRetry * Power[e]
  BY DEF RetryDelay
<1> HIDE DEF e
<1>3. Power[e] <= Power[MaxExponent]
  BY <1>1, PowerMonotone
<1>4. Power[e] \in Nat \ {0} /\ Power[MaxExponent] \in Nat \ {0}
  BY <1>1, PowerType
<1>5. ASSUME NEW p \in Nat \ {0}, NEW q \in Nat \ {0}, p <= q
      PROVE  FailureRetry * p \in Nat \ {0} /\ FailureRetry * p <= FailureRetry * q
  <2>1. \A r \in Nat \ {0} : r * p > 0
    OBVIOUS
  <2>2. \A r, i \in Nat : r * i \in Nat
    OBVIOUS
  <2>3. \A r \in Nat : r * q = r * p + r * (q - p)
    OBVIOUS
  <2>4. FailureRetry \in Nat \ {0} /\ q - p \in Nat
    BY <1>5, SchedulerAssumption
  <2>5. FailureRetry * p > 0 /\ FailureRetry * p \in Nat
    BY <2>1, <2>2, <2>4
  <2>6. /\ FailureRetry * (q - p) \in Nat
        /\ FailureRetry * q = FailureRetry * p + FailureRetry * (q - p)
    BY <2>2, <2>3, <2>4, ZenonT(30)
  <2> QED
    BY <2>5, <2>6
<1> QED
  BY <1>2, <1>3, <1>4, <1>5

-----------------------------------------------------------------------------
(* Types                                                                   *)

(* What a configuration is. *)
LEMMA ConfigurationType ==
    ASSUME NEW c \in Configurations
    PROVE  c.configured \in BOOLEAN /\ c.interval \in Nat \ {0} /\ c.grace \in Nat
BY SchedulerAssumption DEF Configuration

(* The later of a time and an optional one. *)
LEMMA LatestType ==
    ASSUME NEW t \in Nat, NEW u \in MaybeTime
    PROVE  /\ Latest(t, u) \in Nat /\ t <= Latest(t, u)
           /\ u # None => u <= Latest(t, u)
           /\ Latest(t, u) = t \/ Latest(t, u) = u
           /\ u = None => Latest(t, u) = t
BY SchedulerAssumption DEF Latest, MaybeTime

(* A deadline computed from a success is a time. *)
LEMMA DeadlineType ==
    ASSUME NEW success \in MaybeTime, NEW time \in Nat, NEW interval \in Nat
    PROVE  CompletionDeadline(success, time, interval) \in Nat
BY SchedulerAssumption DEF CompletionDeadline, MaybeTime

(* The same of the deadline that decide works with. *)
LEMMA DueAtType ==
    ASSUME TypeOK, NEW c \in Configurations
    PROVE  /\ ScheduledDeadline(c) \in Nat
           /\ DueAt(c) \in Nat
           /\ Latest(ScheduledDeadline(c), not_before) \in Nat
<1>1. last_success \in MaybeTime /\ not_before \in MaybeTime /\ now \in Nat /\ c.interval \in Nat
  BY ConfigurationType DEF TypeOK
<1>2. ScheduledDeadline(c) \in Nat
  BY <1>1, DeadlineType, Zenon DEF ScheduledDeadline
<1>3. Latest(ScheduledDeadline(c), not_before) \in Nat
  BY <1>1, <1>2, LatestType
<1> QED
  BY <1>2, <1>3 DEF DueAt

LEMMA StatusType ==
    ASSUME NEW state \in States, NEW deadline \in MaybeTime
    PROVE  /\ Status(state, deadline) \in Statuses
           /\ Status(state, deadline).state = state
           /\ Status(state, deadline).next_deadline = deadline
BY DEF Status, Statuses

LEMMA AtType ==
    ASSUME config \in Configurations, NEW busy \in BOOLEAN,
           NEW pc \in {"woken", "evaluate", "evaluated", "handled", "sleep", "finished",
                       "notStarted"}
    PROVE  /\ At(pc, busy) \in Loops
           /\ At(pc, busy).pc = pc /\ At(pc, busy).busy = busy
           /\ pc \in {"evaluate", "finished", "notStarted"} => At(pc, busy).config = config
BY DEF At, Loops

(* Where the loop is after each of its steps.                              *)
LEMMA AtPlace == \A pc, busy : At(pc, busy).pc = pc
BY Zenon DEF At

LEMMA LoopPlaces ==
    /\ Restart => loop'.pc = "woken"
    /\ Sleep => loop'.pc = "sleep"
    /\ Wake => loop'.pc \in {"handled", "woken"}
    /\ CloneConfiguration => loop'.pc = "evaluate"
    /\ FinishBackup => loop'.pc = "handled"
    /\ OperationRequested => loop'.pc \in {"handled", "notStarted"}
    /\ OperationFinished => loop'.pc = "finished"
    /\ FinishRepositoryOperation => loop'.pc \in {"woken", "handled"}
<1>1. Restart => loop'.pc = "woken"
  BY AtPlace, Zenon DEF Restart
<1>2. Sleep => loop'.pc = "sleep"
  BY AtPlace, Zenon DEF Sleep
<1>3. Wake => loop'.pc \in {"handled", "woken"}
  BY AtPlace, Zenon DEF Wake
<1>4. CloneConfiguration => loop'.pc = "evaluate"
  BY AtPlace, Zenon DEF CloneConfiguration
<1>5. FinishBackup => loop'.pc = "handled"
  BY AtPlace, Zenon DEF FinishBackup
<1>6. OperationRequested => loop'.pc \in {"handled", "notStarted"}
  BY AtPlace, Zenon DEF OperationRequested
<1>7. OperationFinished => loop'.pc = "finished"
  BY AtPlace, Zenon DEF OperationFinished
<1>8. FinishRepositoryOperation => loop'.pc \in {"woken", "handled"}
  BY AtPlace, ZenonT(30) DEF FinishRepositoryOperation
<1> QED
  BY <1>1, <1>2, <1>3, <1>4, <1>5, <1>6, <1>7, <1>8, Zenon

(* The statuses that the configuration alone determines.  None is Running  *)
(* unless it was, and only a validated repository has a deadline.          *)
LEMMA ConfigurationStatusType ==
    ASSUME TypeOK, NEW c \in Configurations, NEW op
    PROVE  /\ ConfigurationStatus(c, op) \in Statuses
           /\ status.state # "Running" => ConfigurationStatus(c, op).state # "Running"
           /\ op # "Succeeded" => /\ ConfigurationStatus(c, op).next_deadline = None
                                  /\ ConfigurationStatus(c, op).state # "Running"
<1>1. status.state \in States /\ None \in MaybeTime
  BY DEF TypeOK, Statuses, MaybeTime
<1>2. Latest(ScheduledDeadline(c), not_before) \in MaybeTime
  BY DueAtType DEF MaybeTime
<1> DEFINE s == IF status.state \in {"Unconfigured", "RepositoryValidation"}
                THEN "Idle" ELSE status.state
<1>3. s \in States /\ (status.state # "Running" => s # "Running")
  BY <1>1 DEF States
<1>4. CASE ~c.configured
  <2>1. ConfigurationStatus(c, op) = Status("Unconfigured", None)
    BY <1>4 DEF ConfigurationStatus
  <2> QED
    BY <1>1, <2>1, StatusType DEF States
<1>5. CASE c.configured /\ op # "Succeeded"
  <2>1. ConfigurationStatus(c, op) = Status("RepositoryValidation", None)
    BY <1>5 DEF ConfigurationStatus
  <2> QED
    BY <1>1, <2>1, StatusType DEF States
<1>6. CASE c.configured /\ op = "Succeeded"
  <2>1. ConfigurationStatus(c, op) = Status(s, Latest(ScheduledDeadline(c), not_before))
    BY <1>6 DEF ConfigurationStatus
  <2> HIDE DEF s
  <2> QED
    BY <1>2, <1>3, <1>6, <2>1, StatusType
<1> QED
  BY <1>4, <1>5, <1>6

LEMMA LoadedStatusType ==
    ASSUME now \in Nat, NEW c \in Configurations, NEW op, NEW success \in MaybeTime
    PROVE  /\ LoadedStatus(c, op, success) \in Statuses
           /\ LoadedStatus(c, op, success).state # "Running"
           /\ op # "Succeeded" => LoadedStatus(c, op, success).next_deadline = None
<1>1. CompletionDeadline(success, now, c.interval) \in MaybeTime /\ None \in MaybeTime
  BY ConfigurationType, DeadlineType, Zenon DEF MaybeTime
<1>2. CASE ~c.configured
  <2>1. LoadedStatus(c, op, success) = Status("Unconfigured", None)
    BY <1>2 DEF LoadedStatus
  <2> QED
    BY <1>1, <2>1, StatusType DEF States
<1>3. CASE c.configured /\ op # "Succeeded"
  <2>1. LoadedStatus(c, op, success) = Status("RepositoryValidation", None)
    BY <1>3 DEF LoadedStatus
  <2> QED
    BY <1>1, <2>1, StatusType DEF States
<1>4. CASE c.configured /\ op = "Succeeded"
  <2>1. LoadedStatus(c, op, success) = Status("Idle", CompletionDeadline(success, now, c.interval))
    BY <1>4 DEF LoadedStatus
  <2> QED
    BY <1>1, <1>4, <2>1, StatusType DEF States
<1> QED
  BY <1>2, <1>3, <1>4

(* The sleep is a duration. *)
LEMMA DelayType ==
    ASSUME NEW s \in Statuses, NEW m \in BOOLEAN, NEW time \in Nat
    PROVE  NextEvaluationDelay(s, m, time) \in Nat
BY SchedulerAssumption DEF NextEvaluationDelay, Statuses, MaybeTime

(* What an evaluation can do. *)
Evaluates == /\ loop.config.configured /\ ~management /\ operation = "Succeeded"
             /\ status.state # "Running"
NothingDone == /\ ~Evaluates
               /\ UNCHANGED <<status, resumed_at, not_before, manual_requested, waited>>
Started == /\ Evaluates /\ Due(loop.config) /\ ~InWakeGrace(loop.config)
           /\ status' = Status("Running", None)
           /\ resumed_at' = None /\ not_before' = None /\ manual_requested' = FALSE /\ waited' = 0
NotDue == /\ Evaluates /\ ~Due(loop.config)
          /\ \E s \in States \ {"Running", "Conditions"} : status' = Status(s, DueAt(loop.config))
          /\ resumed_at' = None /\ UNCHANGED <<not_before, manual_requested, waited>>
InGrace == /\ Evaluates /\ Due(loop.config) /\ InWakeGrace(loop.config)
           /\ status' = Status("WakeGrace", resumed_at + loop.config.grace)
           /\ waited' = 0 /\ UNCHANGED <<resumed_at, not_before, manual_requested>>
Blocked == /\ Evaluates /\ \E u \in MaybeTime : status' = Status("Conditions", u)
           /\ waited' = 0 /\ UNCHANGED <<resumed_at, not_before, manual_requested>>

LEMMA EvaluateCases ==
    ASSUME TypeOK, OperationInv, Evaluate
    PROVE  /\ NothingDone \/ Started \/ NotDue \/ InGrace \/ Blocked
           /\ loop.pc = "evaluate" /\ loop.config \in Configurations
           /\ loop' = At("evaluated", management)
           /\ UNCHANGED <<now, gateVars, last_success, saved_success, consecutive_failures,
                          pending, delay>>
<1>1. /\ loop.pc = "evaluate" /\ loop.config \in Configurations
      /\ loop' = At("evaluated", management)
      /\ UNCHANGED <<now, gateVars, last_success, saved_success, consecutive_failures,
                     pending, delay>>
  BY DEF Evaluate, OperationInv
<1>2. CASE ~Evaluates
  BY <1>1, <1>2 DEF Evaluate, Evaluates, NothingDone
<1>3. CASE Evaluates
  <2>1. PICK conditions \in Conditions : Carry(Decide(loop.config, conditions))
    BY <1>3 DEF Evaluate, Evaluates
  <2> DEFINE d == Decide(loop.config, conditions)
  <2>2. \/ ~Due(loop.config) /\ d = [decision |-> "Idle", deadline |-> DueAt(loop.config)]
        \/ /\ Due(loop.config) /\ InWakeGrace(loop.config)
           /\ d = [decision |-> "Waiting", reason |-> "WakeGrace",
                   retry |-> resumed_at + loop.config.grace]
        \/ d = [decision |-> "Waiting", reason |-> "Conditions", retry |-> None]
        \/ /\ Due(loop.config) /\ ~InWakeGrace(loop.config)
           /\ d = [decision |-> "Start"]
    BY <1>3, Zenon DEF Decide, Evaluates
  <2>3. Carry(d)
    BY <2>1
  <2> HIDE DEF d
  <2>4. CASE ~Due(loop.config) /\ d = [decision |-> "Idle", deadline |-> DueAt(loop.config)]
    <3>1. /\ status' = Status(IF status.state \in Waiting THEN "Idle" ELSE status.state,
                              DueAt(loop.config))
          /\ resumed_at' = None
          /\ UNCHANGED <<not_before, manual_requested, waited>>
      BY <2>3, <2>4 DEF Carry
    <3>2. (IF status.state \in Waiting THEN "Idle" ELSE status.state)
             \in States \ {"Running", "Conditions"}
      BY <1>3 DEF TypeOK, Statuses, States, Waiting, Evaluates
    <3>3. NotDue
      BY <1>3, <2>4, <3>1, <3>2, Zenon DEF NotDue
    <3> QED
      BY <1>1, <3>3
  <2>5. CASE /\ Due(loop.config) /\ InWakeGrace(loop.config)
             /\ d = [decision |-> "Waiting", reason |-> "WakeGrace",
                     retry |-> resumed_at + loop.config.grace]
    <3>1. resumed_at + loop.config.grace # None
      BY <1>1, <2>5, ConfigurationType, SchedulerAssumption DEF InWakeGrace, TypeOK, MaybeTime
    <3>2. InGrace
      BY <1>3, <2>3, <2>5, <3>1 DEF Carry, InGrace
    <3> QED
      BY <1>1, <3>2
  <2>6. CASE d = [decision |-> "Waiting", reason |-> "Conditions", retry |-> None]
    <3> DEFINE u == IF not_before # None THEN not_before ELSE now
    <3>1. u \in MaybeTime
      BY DEF TypeOK, MaybeTime
    <3>2. /\ status' = Status("Conditions", u)
          /\ waited' = 0 /\ UNCHANGED <<resumed_at, not_before, manual_requested>>
      BY <2>3, <2>6 DEF Carry
    <3> HIDE DEF u
    <3>3. Blocked
      BY <1>3, <3>1, <3>2 DEF Blocked
    <3> QED
      BY <1>1, <3>3
  <2>7. CASE /\ Due(loop.config) /\ ~InWakeGrace(loop.config)
             /\ d = [decision |-> "Start"]
    <3>1. Started
      BY <1>3, <2>3, <2>7 DEF Carry, Started
    <3> QED
      BY <1>1, <3>1
  <2> QED
    BY <2>2, <2>4, <2>5, <2>6, <2>7
<1> QED
  BY <1>2, <1>3

(* How a backup can end. *)
Succeeds == /\ status' = Status("Ended", now + config.interval)
            /\ last_success' = now /\ saved_success' \in {now, saved_success}
            /\ not_before' = None /\ consecutive_failures' = 0
Fails == /\ \E r \in Nat \ {0} : /\ r <= FailureRetry * Power[MaxExponent]
                                 /\ not_before' = now + r
         /\ status' = Status("Ended", not_before')
         /\ consecutive_failures' \in 0 .. MaxFailures
         /\ UNCHANGED <<last_success, saved_success>>

LEMMA FinishBackupCases ==
    ASSUME TypeOK, FinishBackup
    PROVE  /\ Succeeds \/ Fails
           /\ loop.pc = "sleep" /\ status.state = "Running"
           /\ resumed_at' = None /\ waited' = 0 /\ delay' = 0 /\ loop' = At("handled", FALSE)
           /\ UNCHANGED <<now, gateVars, manual_requested, pending>>
<1>1. /\ loop.pc = "sleep" /\ status.state = "Running"
      /\ resumed_at' = None /\ waited' = 0 /\ delay' = 0 /\ loop' = At("handled", FALSE)
      /\ UNCHANGED <<now, gateVars, manual_requested, pending>>
  BY DEF FinishBackup
<1>2. CASE BackupSucceeded
  <2>1. CompletionDeadline(now, now, config.interval) = now + config.interval
    BY SchedulerAssumption DEF CompletionDeadline, TypeOK
  <2>2. Succeeds
    BY <1>2, <2>1 DEF BackupSucceeded, Succeeds
  <2> QED
    BY <1>1, <2>2
<1>3. ASSUME NEW failed \in BOOLEAN, BackupNotSucceeded(failed)
      PROVE  Fails
  <2>1. consecutive_failures' \in 0 .. MaxFailures
    BY <1>3, SchedulerAssumption DEF BackupNotSucceeded, TypeOK
  <2>2. /\ RetryDelay(consecutive_failures') \in Nat \ {0}
        /\ RetryDelay(consecutive_failures') <= FailureRetry * Power[MaxExponent]
    BY <2>1, RetryBounded, SchedulerAssumption
  <2> QED
    BY <1>3, <2>1, <2>2, Zenon DEF BackupNotSucceeded, Fails
<1> QED
  BY <1>1, <1>2, <1>3 DEF FinishBackup

(* Every step keeps the types. *)
LEMMA TypeStep ==
    ASSUME TypeOK, OperationInv, [Next]_vars
    PROVE  TypeOK'
<1> USE DEF gateVars, timeVars
<1>0. /\ now \in Nat /\ config \in Configurations /\ status \in Statuses
      /\ last_success \in MaybeTime /\ saved_success \in MaybeTime
      /\ resumed_at \in MaybeTime /\ not_before \in MaybeTime
      /\ consecutive_failures \in 0 .. MaxFailures
      /\ manual_requested \in BOOLEAN /\ management \in BOOLEAN
      /\ operation \in {"Required", "Running", "Succeeded", "Failed"}
      /\ pending \subseteq {"wake", "resume", "request"} /\ loop \in Loops
      /\ loop.busy \in BOOLEAN /\ delay \in Nat /\ waited \in Nat
      /\ None \in MaybeTime /\ Nat \subseteq MaybeTime
  BY DEF TypeOK, MaybeTime, Loops
<1>1. CASE Restart
  <2>1. status' \in Statuses
    BY <1>0, <1>1, LoadedStatusType DEF Restart
  <2>2. loop' \in Loops
    BY <1>0, <1>1, AtType, Zenon DEF Restart
  <2>3. operation' \in {"Required", "Running", "Succeeded", "Failed"}
    BY <1>0, <1>1 DEF Restart
  <2>4. 0 \in 0 .. MaxFailures /\ {} \subseteq {"wake", "resume", "request"}
    BY SchedulerAssumption
  <2>5. /\ last_success' = saved_success /\ resumed_at' = None /\ not_before' = None
        /\ consecutive_failures' = 0 /\ manual_requested' = FALSE /\ management' = FALSE
        /\ pending' = {} /\ delay' = 0 /\ waited' = 0
        /\ UNCHANGED <<now, config, saved_success>>
    BY <1>1 DEF Restart
  <2> QED
    BY <1>0, <2>1, <2>2, <2>3, <2>4, <2>5, Zenon DEF TypeOK
<1>2. CASE Sleep
  <2>1. delay' \in Nat
    BY <1>0, <1>2, DelayType DEF Sleep
  <2>2. loop' \in Loops
    BY <1>0, <1>2, AtType, Zenon DEF Sleep
  <2> QED
    BY <1>0, <1>2, <2>1, <2>2 DEF Sleep, TypeOK
<1>3. CASE Wake
  <2>1. loop' \in Loops
    BY <1>0, <1>3, AtType DEF Wake
  <2> QED
    BY <1>0, <1>3, <2>1 DEF Wake, TypeOK
<1>4. CASE CloneConfiguration
  <2>1. loop' \in Loops
    BY <1>0, <1>4, AtType DEF CloneConfiguration
  <2> QED
    BY <1>0, <1>4, <2>1 DEF CloneConfiguration, TypeOK
<1>5. CASE Evaluate
  <2>1. loop' \in Loops /\ loop.config \in Configurations
    BY <1>0, <1>5, AtType, EvaluateCases
  <2>2. /\ status' \in Statuses /\ resumed_at' \in MaybeTime /\ not_before' \in MaybeTime
        /\ manual_requested' \in BOOLEAN /\ waited' \in Nat
    <3>1. CASE NothingDone
      BY <1>0, <3>1 DEF NothingDone
    <3>2. CASE Started
      BY <1>0, <3>2, StatusType, Zenon DEF Started, States
    <3>3. CASE NotDue
      <4>1. DueAt(loop.config) \in MaybeTime
        BY <1>0, <2>1, DueAtType
      <4> QED
        BY <1>0, <3>3, <4>1, StatusType DEF NotDue
    <3>4. CASE InGrace
      <4>1. resumed_at + loop.config.grace \in MaybeTime
        BY <1>0, <2>1, <3>4, ConfigurationType DEF InGrace, InWakeGrace, MaybeTime
      <4> QED
        BY <1>0, <3>4, <4>1, StatusType DEF InGrace, States
    <3>5. CASE Blocked
      BY <1>0, <3>5, StatusType DEF Blocked, States
    <3> QED
      BY <1>5, <3>1, <3>2, <3>3, <3>4, <3>5, EvaluateCases
  <2> QED
    BY <1>0, <1>5, <2>1, <2>2, EvaluateCases, Zenon DEF TypeOK
<1>6. CASE FinishBackup
  <2>1. loop' \in Loops
    BY <1>0, <1>6, AtType, FinishBackupCases, ZenonT(30)
  <2>2. /\ status' \in Statuses /\ {last_success', saved_success', not_before'} \subseteq MaybeTime
        /\ consecutive_failures' \in 0 .. MaxFailures
    <3>1. CASE Succeeds
      <4>1. now + config.interval \in MaybeTime
        BY <1>0, ConfigurationType
      <4> QED
        BY <1>0, <3>1, <4>1, StatusType, SchedulerAssumption DEF Succeeds, States
    <3>2. CASE Fails
      <4>1. not_before' \in MaybeTime
        BY <1>0, <3>2 DEF Fails
      <4> QED
        BY <1>0, <3>2, <4>1, StatusType DEF Fails, States
    <3> QED
      BY <1>6, <3>1, <3>2, FinishBackupCases
  <2>3. /\ resumed_at' = None /\ waited' = 0 /\ delay' = 0
        /\ UNCHANGED <<now, gateVars, manual_requested, pending>>
    BY <1>6, FinishBackupCases
  <2> QED
    BY <1>0, <2>1, <2>2, <2>3 DEF TypeOK
<1>7. CASE OperationRequested
  <2>1. loop' \in Loops
    BY <1>0, <1>7, AtType DEF OperationRequested
  <2> QED
    BY <1>0, <1>7, <2>1 DEF OperationRequested, TypeOK
<1>8. CASE OperationFinished
  <2>1. loop' \in Loops
    BY <1>0, <1>8, AtType DEF OperationFinished
  <2> QED
    BY <1>0, <1>8, <2>1 DEF OperationFinished, TypeOK
<1>9. CASE FinishRepositoryOperation
  <2>1. loop' \in Loops
    BY <1>0, <1>9, AtType DEF FinishRepositoryOperation
  <2>2. loop.config \in Configurations
    BY <1>9 DEF FinishRepositoryOperation, OperationInv
  <2>3. status' \in Statuses /\ manual_requested' \in BOOLEAN /\ not_before' \in MaybeTime
    BY <1>0, <1>9, <2>2, ConfigurationStatusType, ConfigurationType
       DEF FinishRepositoryOperation, ApplyConfigurationStatus
  <2> QED
    BY <1>0, <1>9, <2>1, <2>3 DEF FinishRepositoryOperation, TypeOK
<1>10. CASE RunBackupNow
  BY <1>0, <1>10 DEF RunBackupNow, TypeOK
<1>11. CASE DeferBackup
  <2>1. not_before' \in MaybeTime
    BY <1>0, <1>11, SchedulerAssumption DEF DeferBackup
  <2>2. status' \in Statuses
    BY <1>0, <1>11, <2>1, StatusType DEF DeferBackup, Statuses
  <2> QED
    BY <1>0, <1>11, <2>1, <2>2, Zenon DEF DeferBackup, TypeOK
<1>12. CASE UpdateConfiguration
  <2>1. config' \in Configurations
    BY <1>12 DEF UpdateConfiguration
  <2>2. status' \in Statuses /\ manual_requested' \in BOOLEAN /\ not_before' \in MaybeTime
    BY <1>0, <1>12, <2>1, ConfigurationStatusType, ConfigurationType
       DEF UpdateConfiguration, ApplyConfigurationStatus
  <2> QED
    BY <1>0, <1>12, <2>1, <2>2 DEF UpdateConfiguration, TypeOK
<1>13. CASE UpdateBackupSources
  <2>1. config' \in Configurations
    BY <1>13 DEF UpdateBackupSources
  <2>2. status' \in Statuses /\ manual_requested' \in BOOLEAN /\ not_before' \in MaybeTime
    BY <1>0, <1>13, <2>1, ConfigurationStatusType, ConfigurationType
       DEF UpdateBackupSources, ApplyConfigurationStatus
  <2> QED
    BY <1>0, <1>13, <2>1, <2>2 DEF UpdateBackupSources, TypeOK
<1>14. CASE BeginRepositoryOperation
  <2>1. status' \in Statuses
    BY <1>0, <1>14, StatusType DEF BeginRepositoryOperation, States
  <2> QED
    BY <1>0, <1>14, <2>1 DEF BeginRepositoryOperation, TypeOK
<1>15. CASE EnrollBegins
  BY <1>0, <1>15 DEF EnrollBegins, TypeOK
<1>16. CASE EnrollEnds
  BY <1>0, <1>16, Zenon DEF EnrollEnds, TypeOK
<1>17. CASE Tick
  BY <1>0, <1>17 DEF Tick, TypeOK
<1>18. CASE PowerStatusChanged
  BY <1>0, <1>18 DEF PowerStatusChanged, TypeOK
<1>19. CASE TimeChanged
  BY <1>0, <1>19, SchedulerAssumption DEF TimeChanged, TypeOK
<1>20. CASE Resume
  BY <1>0, <1>20, SchedulerAssumption DEF Resume, TypeOK
<1>21. CASE UNCHANGED vars
  BY <1>21, Zenon DEF vars, TypeOK
<1> QED
  BY <1>1, <1>2, <1>3, <1>4, <1>5, <1>6, <1>7, <1>8, <1>9, <1>10, <1>11, <1>12, <1>13, <1>14,
     <1>15, <1>16, <1>17, <1>18, <1>19, <1>20, <1>21, ZenonT(30) DEF Next

(* The operation in progress and the backup that runs. *)
LEMMA OperationStep ==
    ASSUME TypeOK, OperationInv, [Next]_vars
    PROVE  OperationInv'
<1> USE DEF gateVars, timeVars
<1>0. /\ config \in Configurations /\ loop.busy \in BOOLEAN /\ management \in BOOLEAN
      /\ now \in Nat /\ saved_success \in MaybeTime /\ None \in MaybeTime
  BY DEF TypeOK, Loops, MaybeTime
<1>1. CASE Restart
  <2>1. status'.state # "Running"
    BY <1>0, <1>1, LoadedStatusType DEF Restart
  <2>2. loop'.pc = "woken" /\ pending' = {}
    BY <1>0, <1>1, AtType, ZenonT(30) DEF Restart
  <2> QED
    BY <2>1, <2>2 DEF OperationInv
<1>2. CASE Sleep
  <2>1. loop'.pc = "sleep"
    BY <1>0, <1>2, AtType, ZenonT(30) DEF Sleep
  <2> QED
    BY <1>2, <2>1 DEF Sleep, OperationInv
<1>3. CASE Wake
  <2>1. loop'.pc \in {"handled", "woken"}
    BY <1>0, <1>3, AtType DEF Wake
  <2> QED
    BY <1>3, <2>1 DEF Wake, OperationInv
<1>4. CASE CloneConfiguration
  <2>1. loop'.pc = "evaluate" /\ loop'.config = config
    BY <1>0, <1>4, AtType DEF CloneConfiguration
  <2> QED
    BY <1>0, <1>4, <2>1 DEF CloneConfiguration, OperationInv
<1>5. CASE Evaluate
  <2>1. loop'.pc = "evaluated" /\ UNCHANGED <<operation, pending>>
    BY <1>0, <1>5, AtType, EvaluateCases
  <2>2. status'.state = "Running" =>
          operation = "Succeeded" /\ status'.next_deadline = None /\ ~manual_requested'
    <3>1. CASE NothingDone
      BY <3>1 DEF NothingDone, OperationInv
    <3>2. CASE Started
      BY <1>0, <3>2, StatusType DEF Started, Evaluates, States
    <3>3. CASE NotDue
      <4>1. DueAt(loop.config) \in MaybeTime
        BY <1>5, DueAtType, EvaluateCases DEF MaybeTime
      <4> QED
        BY <3>3, <4>1, StatusType DEF NotDue
    <3>4. CASE InGrace
      BY <3>4 DEF InGrace, Status
    <3>5. CASE Blocked
      BY <3>5, StatusType DEF Blocked, States
    <3> QED
      BY <1>5, <3>1, <3>2, <3>3, <3>4, <3>5, EvaluateCases
  <2> QED
    BY <2>1, <2>2 DEF OperationInv
<1>6. CASE FinishBackup
  <2>1. loop'.pc = "handled" /\ UNCHANGED <<operation, pending>>
    BY <1>0, <1>6, AtType, FinishBackupCases, Zenon
  <2>2. status'.state = "Ended"
    BY <1>6, FinishBackupCases DEF Succeeds, Fails, Status
  <2> QED
    BY <2>1, <2>2 DEF OperationInv
<1>7. CASE OperationRequested
  <2>1. loop'.pc \in {"handled", "notStarted"} /\ (loop'.pc = "notStarted" => loop'.config = config)
    BY <1>0, <1>7, AtType DEF OperationRequested
  <2> QED
    BY <1>0, <1>7, <2>1 DEF OperationRequested, OperationInv
<1>8. CASE OperationFinished
  <2>1. loop'.pc = "finished" /\ loop'.config = config
    BY <1>0, <1>8, AtType DEF OperationFinished
  <2> QED
    BY <1>0, <1>8, <2>1 DEF OperationFinished, OperationInv
<1>9. CASE FinishRepositoryOperation
  <2>1. loop'.pc \in {"woken", "handled"}
    BY <1>0, <1>9, AtType DEF FinishRepositoryOperation
  <2>2. loop.config \in Configurations /\ status.state # "Running" /\ "request" \notin pending
    BY <1>9 DEF FinishRepositoryOperation, OperationInv
  <2>3. status'.state # "Running" /\ UNCHANGED pending
    BY <1>9, <2>2, ConfigurationStatusType DEF FinishRepositoryOperation, ApplyConfigurationStatus
  <2> QED
    BY <2>1, <2>2, <2>3 DEF OperationInv
<1>10. CASE RunBackupNow
  BY <1>10 DEF RunBackupNow, OperationInv
<1>11. CASE DeferBackup
  <2>1. status'.state = status.state
    BY <1>11 DEF DeferBackup, Status
  <2> QED
    BY <1>11, <2>1 DEF DeferBackup, OperationInv
<1>12. CASE UpdateConfiguration
  <2>1. status.state # "Running" /\ operation # "Running"
    BY <1>12 DEF UpdateConfiguration, Idle
  <2>2. status'.state # "Running"
    BY <1>12, <2>1, ConfigurationStatusType DEF UpdateConfiguration, ApplyConfigurationStatus
  <2> QED
    BY <1>12, <2>1, <2>2 DEF UpdateConfiguration, OperationInv
<1>13. CASE UpdateBackupSources
  <2>1. status'.state # "Running"
    BY <1>13, ConfigurationStatusType DEF UpdateBackupSources, ApplyConfigurationStatus
  <2> QED
    BY <1>13, <2>1 DEF UpdateBackupSources, OperationInv
<1>14. CASE BeginRepositoryOperation
  <2>1. status.state # "Running" /\ operation # "Running"
    BY <1>14 DEF BeginRepositoryOperation, Idle
  <2>2. status'.state # "Running"
    BY <1>14, <2>1 DEF BeginRepositoryOperation, Status
  <2> QED
    BY <1>14, <2>1, <2>2 DEF BeginRepositoryOperation, OperationInv
<1>15. CASE EnrollBegins
  BY <1>15 DEF EnrollBegins, OperationInv
<1>16. CASE EnrollEnds
  BY <1>16 DEF EnrollEnds, OperationInv
<1>17. CASE Tick
  BY <1>17 DEF Tick, OperationInv
<1>18. CASE PowerStatusChanged
  BY <1>18 DEF PowerStatusChanged, OperationInv
<1>19. CASE TimeChanged
  BY <1>19 DEF TimeChanged, OperationInv
<1>20. CASE Resume
  BY <1>20 DEF Resume, OperationInv
<1>21. CASE UNCHANGED vars
  BY <1>21 DEF vars, OperationInv
<1> QED
  BY <1>1, <1>2, <1>3, <1>4, <1>5, <1>6, <1>7, <1>8, <1>9, <1>10, <1>11, <1>12, <1>13, <1>14,
     <1>15, <1>16, <1>17, <1>18, <1>19, <1>20, <1>21, ZenonT(30) DEF Next

(* The initial states have both. *)
LEMMA OperationInit ==
    ASSUME Init
    PROVE  TypeOK /\ OperationInv
<1>1. /\ config \in Configurations /\ now = 0 /\ now \in Nat /\ None \in MaybeTime
      /\ 0 \in 0 .. MaxFailures
  BY SchedulerAssumption DEF Init, MaybeTime
<1>2. status \in Statuses /\ status.state # "Running"
  BY <1>1, LoadedStatusType DEF Init
<1>3. loop \in Loops /\ loop.pc = "woken"
  BY <1>1, AtType, Zenon DEF Init
<1>4. TypeOK
  BY <1>1, <1>2, <1>3, ZenonT(30) DEF Init, TypeOK
<1> QED
  BY <1>2, <1>3, <1>4, Zenon DEF Init, OperationInv

(* Every variable of the schedule keeps its type: no path of the loop uses *)
(* a configuration it has not cloned, and no sleep is negative although    *)
(* the wall clock may be set (next_evaluation_delay).                      *)
THEOREM TypeCorrect == Spec => []TypeOK
<1>1. Init => TypeOK /\ OperationInv
  BY OperationInit
<1>2. TypeOK /\ OperationInv /\ [Next]_vars => (TypeOK /\ OperationInv)'
  BY TypeStep, OperationStep
<1> QED
  BY <1>1, <1>2, PTL DEF Spec

-----------------------------------------------------------------------------
(* The sleep                                                               *)

(* While time passes a deadline is not moved to an earlier time, and one   *)
(* that has been reached stays reached.                                    *)
LEMMA TickStartsAt ==
    ASSUME TypeOK, Tick
    PROVE  /\ StartsAt \in Nat /\ StartsAt' \in Nat
           /\ now < StartsAt => StartsAt <= StartsAt'
<1>1. /\ now \in Nat /\ now' = now + 1 /\ config \in Configurations
      /\ last_success \in MaybeTime /\ not_before \in MaybeTime /\ resumed_at \in MaybeTime
      /\ manual_requested \in BOOLEAN
      /\ UNCHANGED <<config, last_success, not_before, resumed_at, manual_requested>>
  BY DEF TypeOK, Tick, gateVars, timeVars
<1>2. config.interval \in Nat /\ config.grace \in Nat
  BY <1>1, ConfigurationType
<1> DEFINE S == ScheduledDeadline(config)
           D == DueAt(config)
<1>3. S \in Nat /\ S' \in Nat /\ S <= S' /\ (S <= now => S' <= now + 1)
  BY <1>1, <1>2, SchedulerAssumption DEF ScheduledDeadline, CompletionDeadline, MaybeTime
<1>4. D \in Nat /\ D' \in Nat /\ D <= D' /\ (D <= now => D' <= now + 1)
  <2> HIDE DEF S
  <2>1. D = (IF manual_requested THEN S ELSE Latest(S, not_before))
    BY DEF DueAt, S
  <2>2. D' = (IF manual_requested THEN S' ELSE Latest(S', not_before))
    BY <1>1 DEF DueAt, S
  <2> HIDE DEF D
  <2> QED
    BY <1>1, <1>3, <2>1, <2>2, SchedulerAssumption DEF Latest, MaybeTime
<1> HIDE DEF S
<1>5. Due(config) <=> manual_requested \/ now >= D
  BY DEF Due
<1>6. Due(config)' <=> manual_requested \/ now + 1 >= D'
  BY <1>1 DEF Due
<1>7. StartsAt = IF Due(config) /\ InWakeGrace(config) THEN resumed_at + config.grace
                 ELSE IF Due(config) THEN now ELSE D
  BY DEF StartsAt
<1>8. StartsAt' = IF Due(config)' /\ InWakeGrace(config)' THEN resumed_at + config.grace
                  ELSE IF Due(config)' THEN now + 1 ELSE D'
  BY <1>1 DEF StartsAt
<1> HIDE DEF D
<1>9. StartsAt \in Nat /\ StartsAt' \in Nat
  BY <1>1, <1>2, <1>4, <1>7, <1>8 DEF InWakeGrace, MaybeTime
<1> SUFFICES ASSUME now < StartsAt
             PROVE  StartsAt <= StartsAt'
  BY <1>9
<1>10. CASE ~Due(config)
  <2>1. StartsAt = D /\ ~manual_requested
    BY <1>5, <1>7, <1>10
  <2>2. CASE ~Due(config)'
    BY <1>4, <1>8, <2>1, <2>2
  <2>3. CASE Due(config)'
    <3>1. D <= now + 1
      BY <1>1, <1>4, <1>6, <2>1, <2>3
    <3>2. now + 1 <= StartsAt'
      BY <1>1, <1>2, <1>8, <2>3 DEF InWakeGrace, MaybeTime
    <3> QED
      BY <1>1, <1>4, <1>8, <2>1, <2>3, <3>1, <3>2 DEF InWakeGrace, MaybeTime
  <2> QED
    BY <2>2, <2>3
<1>11. CASE Due(config)
  <2>1. InWakeGrace(config) /\ StartsAt = resumed_at + config.grace
    BY <1>1, <1>7, <1>11
  <2>2. ~manual_requested /\ resumed_at \in Nat
    BY <1>1, <2>1 DEF InWakeGrace, MaybeTime
  <2>3. Due(config)'
    BY <1>1, <1>4, <1>5, <1>6, <1>11, <2>2
  <2>4. CASE InWakeGrace(config)'
    BY <1>2, <1>8, <2>1, <2>2, <2>3, <2>4
  <2>5. CASE ~InWakeGrace(config)'
    <3>1. ~(now + 1 < resumed_at + config.grace)
      BY <1>1, <2>2, <2>5, SchedulerAssumption DEF InWakeGrace
    <3>2. StartsAt' = now + 1
      BY <1>8, <2>3, <2>5
    <3> QED
      BY <1>1, <1>2, <2>1, <2>2, <3>1, <3>2
  <2> QED
    BY <2>4, <2>5
<1> QED
  BY <1>10, <1>11

(* The sleep that follows an evaluation. *)
LEMMA EvaluateInTime ==
    ASSUME TypeOK, OperationInv, SleepInv, Evaluate
    PROVE  Quiet' /\ ~loop'.busy => InTime(Planned)'
<1> SUFFICES ASSUME Quiet', ~loop'.busy
             PROVE  InTime(Planned)'
  OBVIOUS
<1>1. /\ now \in Nat /\ config \in Configurations /\ resumed_at \in MaybeTime
      /\ management \in BOOLEAN
      /\ UNCHANGED <<now, config, last_success, pending, operation>>
  BY EvaluateCases DEF TypeOK, gateVars
<1>2. loop.config = config /\ config.grace \in Nat /\ DueAt(config) \in Nat
  BY <1>1, EvaluateCases, ConfigurationType, DueAtType DEF Quiet, SleepInv
<1>3. ~management
  BY <1>1, EvaluateCases, AtType
<1>4. Evaluates \/ status.state = "Running"
  BY <1>1, <1>2, <1>3 DEF Quiet, Evaluates
<1>5. CASE NothingDone
  BY <1>4, <1>5 DEF NothingDone, Quiet
<1>6. CASE Started
  BY <1>6 DEF Started, Quiet, Status
<1>7. CASE NotDue
  <2>1. PICK s \in States \ {"Running", "Conditions"} : status' = Status(s, DueAt(config))
    BY <1>2, <1>7 DEF NotDue
  <2>2. status'.state # "Conditions" /\ status'.next_deadline = DueAt(config)
    BY <2>1 DEF Status
  <2>3. ~manual_requested /\ now < DueAt(config)
    BY <1>1, <1>2, <1>7 DEF NotDue, Due
  <2>4. Planned' = DueAt(config) - now
    BY <1>1, <1>2, <2>2, <2>3, SchedulerAssumption DEF Planned, NextEvaluationDelay
  <2>5. DueAt(config)' = DueAt(config) /\ ~Due(config)'
    BY <1>1, <1>2, <1>7 DEF NotDue, DueAt, ScheduledDeadline, Due
  <2>6. StartsAt' = DueAt(config)
    BY <2>5 DEF StartsAt
  <2> QED
    BY <1>1, <1>2, <2>4, <2>6 DEF InTime
<1>8. CASE InGrace
  <2>1. status'.state = "WakeGrace" /\ status'.next_deadline = resumed_at + config.grace
    BY <1>2, <1>8 DEF InGrace, Status
  <2>2. resumed_at \in Nat /\ now < resumed_at + config.grace
    BY <1>1, <1>2, <1>8 DEF InGrace, InWakeGrace, MaybeTime
  <2>3. Planned' = resumed_at + config.grace - now
    BY <1>1, <1>2, <2>1, <2>2, SchedulerAssumption DEF Planned, NextEvaluationDelay
  <2>4. Due(config)' /\ InWakeGrace(config)' /\ resumed_at' = resumed_at
    BY <1>1, <1>2, <1>8, Zenon DEF InGrace, DueAt, ScheduledDeadline, Due, InWakeGrace
  <2>5. StartsAt' = resumed_at + config.grace
    BY <1>1, <2>4 DEF StartsAt
  <2> QED
    BY <1>1, <1>2, <2>2, <2>3, <2>5 DEF InTime
<1>9. CASE Blocked
  <2>1. Planned' = ConditionRetry
    BY <1>9 DEF Blocked, Planned, NextEvaluationDelay, Status
  <2> QED
    BY <2>1, SchedulerAssumption DEF InTime
<1> QED
  BY <1>5, <1>6, <1>7, <1>8, <1>9, EvaluateCases

(* The sleep that follows the end of a backup. *)
LEMMA FinishInTime ==
    ASSUME TypeOK, OperationInv, FinishBackup
    PROVE  InTime(Planned)'
<1>1. /\ now \in Nat /\ config \in Configurations /\ last_success \in MaybeTime
      /\ ~manual_requested /\ resumed_at' = None
      /\ UNCHANGED <<now, config, manual_requested>>
  BY FinishBackupCases, Zenon DEF TypeOK, gateVars, OperationInv
<1>2. config.interval \in Nat \ {0}
  BY <1>1, ConfigurationType
<1>3. ~InWakeGrace(config)'
  BY <1>1 DEF InWakeGrace
<1>4. StartsAt' = IF Due(config)' THEN now ELSE DueAt(config)'
  BY <1>1, <1>3 DEF StartsAt
<1>5. Due(config)' <=> now >= DueAt(config)'
  BY <1>1 DEF Due
<1>6. DueAt(config)' = Latest(ScheduledDeadline(config)', not_before')
  BY <1>1 DEF DueAt
<1>7. CASE Succeeds
  <2>1. ScheduledDeadline(config)' = now + config.interval
    BY <1>1, <1>7, SchedulerAssumption DEF Succeeds, ScheduledDeadline, CompletionDeadline
  <2>2. DueAt(config)' = now + config.interval
    BY <1>6, <1>7, <2>1 DEF Succeeds, Latest
  <2>3. StartsAt' = now + config.interval
    BY <1>1, <1>2, <1>4, <1>5, <2>2
  <2>4. Planned' = config.interval
    BY <1>1, <1>2, <1>7, SchedulerAssumption DEF Succeeds, Planned, NextEvaluationDelay, Status
  <2> QED
    BY <1>1, <1>2, <2>3, <2>4 DEF InTime
<1>8. CASE Fails
  <2>1. PICK r \in Nat \ {0} : not_before' = now + r
    BY <1>8 DEF Fails
  <2>2. ScheduledDeadline(config)' \in Nat
    BY <1>1, <1>2, <1>8, DeadlineType, Zenon DEF Fails, ScheduledDeadline
  <2>3. DueAt(config)' \in Nat /\ now + r <= DueAt(config)'
    BY <1>1, <1>6, <2>1, <2>2, SchedulerAssumption DEF Latest
  <2>4. StartsAt' = DueAt(config)'
    BY <1>1, <1>4, <1>5, <2>3
  <2>5. Planned' = r
    BY <1>1, <1>8, <2>1, SchedulerAssumption DEF Fails, Planned, NextEvaluationDelay, Status
  <2> QED
    BY <1>1, <2>3, <2>4, <2>5 DEF InTime
<1> QED
  BY <1>7, <1>8, FinishBackupCases

(* The sleep the loop computes is the planned one, or the poll while a     *)
(* management operation is active.                                         *)
LEMMA SleepDelay ==
    ASSUME TypeOK, Sleep
    PROVE  /\ loop'.pc = "sleep"
           /\ ~loop'.busy => \/ management /\ delay' = ConditionRetry
                             \/ ~management /\ ~loop.busy /\ delay' = Planned
<1>1. loop.busy \in BOOLEAN /\ management \in BOOLEAN /\ config \in Configurations
  BY DEF TypeOK, Loops
<1>2. loop'.pc = "sleep" /\ loop'.busy = (loop.busy /\ ~management)
  BY <1>1, AtType, ZenonT(30) DEF Sleep
<1>3. CASE management
  BY <1>2, <1>3 DEF Sleep, NextEvaluationDelay
<1>4. CASE ~management
  BY <1>1, <1>2, <1>4 DEF Sleep, NextEvaluationDelay, Planned
<1> QED
  BY <1>3, <1>4

(* Whenever nothing is pending, the sleep ends in time. *)
LEMMA SleepStep ==
    ASSUME TypeOK, OperationInv, SleepInv, [Next]_vars
    PROVE  SleepInv'
<1> USE DEF gateVars, timeVars
<1>0. /\ config \in Configurations /\ loop.busy \in BOOLEAN /\ management \in BOOLEAN
      /\ now \in Nat /\ delay \in Nat
  BY DEF TypeOK, Loops
<1>1. CASE Restart
  <2>1. loop'.pc = "woken"
    BY <1>0, <1>1, AtType, Zenon DEF Restart
  <2> QED
    BY <2>1 DEF SleepInv
<1>2. CASE Sleep
  <2>1. Quiet' => Quiet
    BY <1>2 DEF Sleep, Quiet
  <2>2. StartsAt' = StartsAt /\ now' = now
    BY <1>2 DEF Sleep, StartsAt, Due, DueAt, ScheduledDeadline, InWakeGrace
  <2>3. ASSUME Quiet', ~loop'.busy PROVE InTime(delay)'
    <3>1. CASE delay' = ConditionRetry
      BY <3>1, SchedulerAssumption DEF InTime
    <3>2. CASE ~loop.busy /\ delay' = Planned
      <4>1. InTime(Planned)
        BY <1>2, <2>1, <2>3, <3>2 DEF SleepInv, Sleep
      <4> QED
        BY <2>2, <3>2, <4>1, ZenonT(30) DEF InTime
    <3> QED
      BY <1>2, <2>3, <3>1, <3>2, SleepDelay
  <2>4. loop'.pc = "sleep"
    BY <1>2, SleepDelay
  <2> QED
    BY <2>3, <2>4 DEF SleepInv
<1>3. CASE Wake
  <2>1. loop'.pc \in {"handled", "woken"} /\ (loop'.pc = "handled" => status.state = "Running")
    BY <1>0, <1>3, AtType DEF Wake
  <2>2. loop'.pc = "handled" => ~Quiet'
    BY <1>3, <2>1 DEF Wake, Quiet
  <2> QED
    BY <2>1, <2>2 DEF SleepInv
<1>4. CASE CloneConfiguration
  <2>1. loop'.pc = "evaluate" /\ loop'.config = config /\ config' = config
    BY <1>0, <1>4, AtType DEF CloneConfiguration
  <2> QED
    BY <2>1 DEF SleepInv
<1>5. CASE Evaluate
  <2>1. loop'.pc = "evaluated"
    BY <1>0, <1>5, AtType, EvaluateCases
  <2> QED
    BY <1>5, <2>1, EvaluateInTime DEF SleepInv
<1>6. CASE FinishBackup
  <2>1. loop'.pc = "handled"
    BY <1>0, <1>6, AtType, FinishBackupCases, ZenonT(30)
  <2> QED
    BY <1>6, <2>1, FinishInTime DEF SleepInv
<1>7. CASE OperationRequested
  <2>1. loop'.pc \in {"handled", "notStarted"}
    BY <1>0, <1>7, AtType DEF OperationRequested
  <2>2. ~Quiet'
    BY <1>7 DEF OperationRequested, OperationInv, Quiet
  <2> QED
    BY <2>1, <2>2 DEF SleepInv
<1>8. CASE OperationFinished
  <2>1. loop'.pc = "finished"
    BY <1>0, <1>8, AtType DEF OperationFinished
  <2> QED
    BY <2>1 DEF SleepInv
<1>9. CASE FinishRepositoryOperation
  <2>1. \/ loop'.pc = "woken"
        \/ loop'.pc = "handled" /\ operation' = "Failed"
    BY <1>0, <1>9, AtType DEF FinishRepositoryOperation
  <2>2. loop'.pc = "handled" => ~Quiet'
    BY <2>1 DEF Quiet
  <2> QED
    BY <2>1, <2>2 DEF SleepInv
<1>10. CASE pending' # {}
  BY <1>10 DEF SleepInv, Quiet
<1>11. CASE BeginRepositoryOperation
  <2>1. ~Quiet'
    BY <1>11 DEF BeginRepositoryOperation, Quiet
  <2>2. UNCHANGED <<loop, config>> /\ (pending' = {} => pending = {})
    BY <1>11 DEF BeginRepositoryOperation
  <2> QED
    BY <2>1, <2>2 DEF SleepInv
<1>12. CASE EnrollBegins \/ EnrollEnds
  <2>1. UNCHANGED <<now, config, operation, status, last_success, resumed_at, not_before,
                    manual_requested, pending, loop, delay>>
    BY <1>12 DEF EnrollBegins, EnrollEnds
  <2>2. StartsAt' = StartsAt /\ Quiet' = Quiet /\ Planned' = Planned
    BY <2>1 DEF StartsAt, Due, DueAt, ScheduledDeadline, InWakeGrace, Quiet, Planned
  <2>3. InTime(Planned)' <=> InTime(Planned)
    BY <2>1, <2>2 DEF InTime
  <2>4. InTime(delay)' <=> InTime(delay)
    BY <2>1, <2>2 DEF InTime
  <2> QED
    BY <2>1, <2>2, <2>3, <2>4 DEF SleepInv
<1>13. CASE Tick
  <2>1. /\ loop.pc = "sleep" /\ delay > 0 /\ now' = now + 1 /\ delay' = delay - 1
        /\ UNCHANGED <<config, operation, status, pending, loop>>
    BY <1>13 DEF Tick
  <2>2. ASSUME Quiet', ~loop'.busy PROVE InTime(delay)'
    <3>1. Quiet /\ ~loop.busy
      BY <2>1, <2>2 DEF Quiet
    <3>2. CASE delay <= ConditionRetry
      BY <1>0, <2>1, <3>2, SchedulerAssumption DEF InTime
    <3>3. CASE ~(delay <= ConditionRetry)
      <4>1. now + delay <= StartsAt
        BY <2>1, <3>1, <3>3 DEF SleepInv, InTime
      <4>2. StartsAt \in Nat /\ StartsAt' \in Nat
        BY <1>13, TickStartsAt
      <4>3. now < StartsAt
        BY <1>0, <2>1, <4>1, <4>2
      <4>4. StartsAt <= StartsAt'
        BY <1>13, <4>3, TickStartsAt
      <4>5. now' + delay' <= StartsAt'
        BY <1>0, <2>1, <4>1, <4>2, <4>4
      <4> QED
        BY <4>5 DEF InTime
    <3> QED
      BY <3>2, <3>3
  <2> QED
    BY <2>1, <2>2 DEF SleepInv
<1>14. CASE UNCHANGED vars
  <2>1. StartsAt' = StartsAt /\ Quiet' = Quiet /\ Planned' = Planned
    BY <1>14 DEF vars, StartsAt, Due, DueAt, ScheduledDeadline, InWakeGrace, Quiet, Planned
  <2>2. InTime(Planned)' <=> InTime(Planned)
    BY <1>14, <2>1 DEF InTime, vars
  <2>3. InTime(delay)' <=> InTime(delay)
    BY <1>14, <2>1 DEF InTime, vars
  <2> QED
    BY <1>14, <2>1, <2>2, <2>3 DEF SleepInv, vars
<1>15. CASE RunBackupNow \/ DeferBackup \/ UpdateConfiguration \/ UpdateBackupSources
            \/ PowerStatusChanged \/ TimeChanged \/ Resume
  <2>1. pending' # {}
    BY <1>15 DEF RunBackupNow, DeferBackup, UpdateConfiguration, UpdateBackupSources,
                 PowerStatusChanged, TimeChanged, Resume
  <2> QED
    BY <1>10, <2>1
<1> QED
  BY <1>1, <1>2, <1>3, <1>4, <1>5, <1>6, <1>7, <1>8, <1>9, <1>11, <1>12, <1>13, <1>14, <1>15,
     ZenonT(30) DEF Next

(* The event loop never sleeps through the moment a backup becomes due,    *)
(* whichever request or clock change moved that moment, for every          *)
(* configuration and every poll and retry delay (next_evaluation_delay and *)
(* the wakes sent by the handlers).                                        *)
THEOREM OversleepsCorrect == Spec => []NeverOversleeps
<1>1. Init => TypeOK /\ OperationInv /\ SleepInv
  <2> SUFFICES ASSUME Init PROVE SleepInv
    BY OperationInit
  <2>1. loop.pc = "woken"
    BY AtType, ZenonT(30) DEF Init
  <2> QED
    BY <2>1 DEF SleepInv
<1>2. TypeOK /\ OperationInv /\ SleepInv /\ [Next]_vars => (TypeOK /\ OperationInv /\ SleepInv)'
  BY TypeStep, OperationStep, SleepStep
<1>3. TypeOK /\ OperationInv /\ SleepInv => NeverOversleeps
  BY DEF SleepInv, NeverOversleeps, Ready, Quiet, InTime
<1> QED
  BY <1>1, <1>2, <1>3, PTL DEF Spec

-----------------------------------------------------------------------------
(* The loop does not spin                                                  *)

AllConfigured == \A c \in Configurations : c.configured

(* The sleep that follows an evaluation is not empty. *)
LEMMA EvaluateNotEmpty ==
    ASSUME AllConfigured, TypeOK, OperationInv, SpinInv, Evaluate
    PROVE  ~loop'.busy => Planned' > 0
<1> SUFFICES ASSUME ~loop'.busy
             PROVE  Planned' > 0
  OBVIOUS
<1>1. /\ now \in Nat /\ now' = now /\ config \in Configurations /\ loop.config \in Configurations
      /\ resumed_at \in MaybeTime /\ management \in BOOLEAN
      /\ ConditionRetry > 0 /\ LongestSleep > 0
  BY EvaluateCases, SchedulerAssumption DEF TypeOK
<1>2. ~management
  BY <1>1, EvaluateCases, AtType
<1>3. CASE NothingDone
  <2>1. operation # "Succeeded" \/ status.state = "Running"
    BY <1>1, <1>2, <1>3 DEF NothingDone, Evaluates, AllConfigured
  <2>2. status.next_deadline = None
    BY <2>1 DEF SpinInv, OperationInv
  <2> QED
    BY <1>1, <1>3, <2>2 DEF NothingDone, Planned, NextEvaluationDelay
<1>4. CASE Started
  BY <1>1, <1>4 DEF Started, Planned, NextEvaluationDelay, Status
<1>5. CASE NotDue
  <2>1. DueAt(loop.config) \in Nat /\ now < DueAt(loop.config)
    BY <1>1, <1>5, DueAtType DEF NotDue, Due
  <2>2. status'.state # "Conditions" /\ status'.next_deadline = DueAt(loop.config)
    BY <1>5 DEF NotDue, Status
  <2> QED
    BY <1>1, <2>1, <2>2, SchedulerAssumption DEF Planned, NextEvaluationDelay
<1>6. CASE InGrace
  <2> DEFINE u == resumed_at + loop.config.grace
  <2>1. u \in Nat /\ now < u
    BY <1>1, <1>6, ConfigurationType DEF InGrace, InWakeGrace, MaybeTime
  <2>2. status'.state = "WakeGrace" /\ status'.next_deadline = u
    BY <1>6 DEF InGrace, Status
  <2> HIDE DEF u
  <2> QED
    BY <1>1, <2>1, <2>2, SchedulerAssumption DEF Planned, NextEvaluationDelay
<1>7. CASE Blocked
  BY <1>1, <1>7 DEF Blocked, Planned, NextEvaluationDelay, Status
<1> QED
  BY <1>3, <1>4, <1>5, <1>6, <1>7, EvaluateCases

(* A repository that is not validated gives the status no deadline. *)
LEMMA NoDeadlineStep ==
    ASSUME AllConfigured, TypeOK, OperationInv, SpinInv, [Next]_vars
    PROVE  operation' # "Succeeded" => status'.next_deadline = None
<1> USE DEF gateVars, timeVars
<1>0. config \in Configurations /\ config.configured
  BY DEF TypeOK, AllConfigured
<1>1. CASE Restart
  <2>1. now \in Nat /\ saved_success \in MaybeTime
    BY DEF TypeOK
  <2> QED
    BY <1>0, <1>1, <2>1, LoadedStatusType DEF Restart
<1>2. CASE Evaluate
  <2>1. operation' = operation
    BY <1>2, EvaluateCases
  <2>2. operation # "Succeeded" => status' = status
    BY <1>2 DEF Evaluate
  <2> QED
    BY <2>1, <2>2 DEF SpinInv
<1>3. CASE FinishBackup
  BY <1>3 DEF FinishBackup, OperationInv
<1>4. CASE FinishRepositoryOperation
  <2>1. loop.config \in Configurations
    BY <1>4 DEF FinishRepositoryOperation, OperationInv
  <2> QED
    BY <1>4, <2>1, ConfigurationStatusType DEF FinishRepositoryOperation, ApplyConfigurationStatus
<1>5. CASE DeferBackup
  BY <1>5 DEF DeferBackup
<1>6. CASE UpdateConfiguration
  BY <1>6, ConfigurationStatusType DEF UpdateConfiguration, ApplyConfigurationStatus
<1>7. CASE UpdateBackupSources
  BY <1>7, ConfigurationStatusType DEF UpdateBackupSources, ApplyConfigurationStatus
<1>8. CASE BeginRepositoryOperation
  BY <1>0, <1>8 DEF BeginRepositoryOperation, Status
<1>9. CASE Sleep \/ Wake \/ CloneConfiguration \/ OperationRequested \/ OperationFinished
           \/ RunBackupNow \/ EnrollBegins \/ EnrollEnds \/ Tick \/ PowerStatusChanged
           \/ TimeChanged \/ Resume \/ UNCHANGED vars
  <2>1. UNCHANGED <<operation, status>>
    BY <1>9, Zenon DEF Sleep, Wake, CloneConfiguration, OperationRequested, OperationFinished,
                RunBackupNow, EnrollBegins, EnrollEnds, Tick, PowerStatusChanged, TimeChanged,
                Resume, vars
  <2> QED
    BY <2>1 DEF SpinInv
<1> QED
  BY <1>1, <1>2, <1>3, <1>4, <1>5, <1>6, <1>7, <1>8, <1>9, ZenonT(30) DEF Next

LEMMA SpinStep ==
    ASSUME AllConfigured, TypeOK, OperationInv, SpinInv, [Next]_vars
    PROVE  SpinInv'
<1> USE DEF gateVars, timeVars
<1>0. /\ operation' # "Succeeded" => status'.next_deadline = None
      /\ config \in Configurations /\ loop.busy \in BOOLEAN /\ management \in BOOLEAN
  BY NoDeadlineStep DEF TypeOK, Loops
<1>1. CASE Restart \/ Sleep \/ Wake \/ CloneConfiguration \/ FinishBackup \/ OperationRequested
           \/ OperationFinished \/ FinishRepositoryOperation
  <2>1. loop'.pc # "evaluated"
    BY <1>1, LoopPlaces, ZenonT(30)
  <2> QED
    BY <1>0, <2>1 DEF SpinInv
<1>2. CASE Evaluate
  BY <1>0, <1>2, EvaluateNotEmpty, ZenonT(30) DEF SpinInv
<1>3. CASE RunBackupNow \/ DeferBackup \/ UpdateConfiguration \/ UpdateBackupSources
           \/ PowerStatusChanged \/ TimeChanged \/ Resume
  <2>1. pending' # {}
    BY <1>3 DEF RunBackupNow, DeferBackup, UpdateConfiguration, UpdateBackupSources,
                PowerStatusChanged, TimeChanged, Resume
  <2> QED
    BY <1>0, <2>1 DEF SpinInv
<1>4. CASE BeginRepositoryOperation
  <2>1. config.configured /\ ConditionRetry > 0 /\ LongestSleep > 0
    BY <1>0, SchedulerAssumption DEF AllConfigured
  <2>2. Planned' > 0
    BY <1>4, <2>1 DEF BeginRepositoryOperation, Planned, NextEvaluationDelay, Status
  <2> QED
    BY <1>0, <2>2 DEF SpinInv
<1>5. CASE EnrollBegins \/ EnrollEnds \/ UNCHANGED vars
  <2>1. UNCHANGED <<now, status, loop, pending>>
    BY <1>5 DEF EnrollBegins, EnrollEnds, vars
  <2>2. Planned' = Planned
    BY <2>1 DEF Planned
  <2> QED
    BY <1>0, <2>1, <2>2 DEF SpinInv
<1>6. CASE Tick
  <2>1. loop'.pc # "evaluated"
    BY <1>6 DEF Tick
  <2> QED
    BY <1>0, <2>1 DEF SpinInv
<1> QED
  BY <1>1, <1>2, <1>3, <1>4, <1>5, <1>6, ZenonT(30) DEF Next

(* A step that starts a sleep after an undisturbed evaluation starts one   *)
(* that is not empty.                                                      *)
LEMMA SpinAction ==
    ASSUME TypeOK, SpinInv, Next,
           loop.pc = "evaluated", loop'.pc = "sleep", pending = {}, loop.busy = management
    PROVE  delay' > 0
<1>1. Sleep
  <2>1. loop' # loop
    OBVIOUS
  <2> QED
    BY <2>1 DEF Next, Restart, Wake, CloneConfiguration, Evaluate, FinishBackup,
       OperationRequested, OperationFinished, FinishRepositoryOperation, RunBackupNow,
       DeferBackup, UpdateConfiguration, UpdateBackupSources, BeginRepositoryOperation,
       EnrollBegins, EnrollEnds, Tick, PowerStatusChanged, TimeChanged, Resume, At
<1>2. management \in BOOLEAN /\ loop.busy \in BOOLEAN /\ config \in Configurations
  BY DEF TypeOK, Loops
<1>3. ~loop'.busy
  BY <1>1, <1>2, AtType, Zenon DEF Sleep
<1>4. CASE delay' = ConditionRetry
  BY <1>4, SchedulerAssumption
<1>5. CASE ~loop.busy /\ delay' = Planned
  BY <1>5 DEF SpinInv
<1> QED
  BY <1>1, <1>3, <1>4, <1>5, SleepDelay

(* Unless something happened in between, the sleep after an evaluation is  *)
(* not empty, so the loop does not spin (the comment in                    *)
(* next_evaluation_delay), provided that every configuration has backup    *)
(* sources.                                                                *)
THEOREM SpinCorrect ==
    ASSUME AllConfigured
    PROVE  Spec => NoBusySpin
<1>1. Init => TypeOK /\ OperationInv /\ SpinInv
  <2> SUFFICES ASSUME Init PROVE SpinInv
    BY OperationInit
  <2>1. now \in Nat /\ None \in MaybeTime /\ config \in Configurations
    BY DEF Init, MaybeTime
  <2>2. loop.pc = "woken"
    BY <2>1, AtType, Zenon DEF Init
  <2>3. operation # "Succeeded" => status.next_deadline = None
    BY <2>1, LoadedStatusType DEF Init
  <2> QED
    BY <2>2, <2>3 DEF SpinInv
<1>2. TypeOK /\ OperationInv /\ SpinInv /\ [Next]_vars => (TypeOK /\ OperationInv /\ SpinInv)'
  BY TypeStep, OperationStep, SpinStep
<1>3. TypeOK /\ SpinInv /\ [Next]_vars =>
        [(loop.pc = "evaluated" /\ loop'.pc = "sleep" /\ pending = {} /\ loop.busy = management)
            => delay' > 0]_vars
  BY SpinAction
<1> QED
  BY <1>1, <1>2, <1>3, PTL DEF Spec, NoBusySpin

-----------------------------------------------------------------------------
(* No backup starts early                                                  *)

(* What is due is past its schedule and its retry time. *)
LEMMA DuePast ==
    ASSUME TypeOK, NEW c \in Configurations, Due(c), ~manual_requested
    PROVE  /\ last_success # None => now >= last_success + c.interval
           /\ not_before # None => now >= not_before
<1>1. /\ last_success \in MaybeTime /\ not_before \in MaybeTime /\ now \in Nat
      /\ c.interval \in Nat \ {0}
  BY ConfigurationType DEF TypeOK
<1>2. ScheduledDeadline(c) \in Nat
  BY DueAtType
<1>3. now >= Latest(ScheduledDeadline(c), not_before)
  BY DEF Due, DueAt
<1>4. /\ ScheduledDeadline(c) <= Latest(ScheduledDeadline(c), not_before)
      /\ Latest(ScheduledDeadline(c), not_before) \in Nat
      /\ not_before # None => not_before <= Latest(ScheduledDeadline(c), not_before)
  BY <1>1, <1>2, LatestType
<1>5. now >= ScheduledDeadline(c)
  BY <1>1, <1>2, <1>3, <1>4
<1>6. last_success # None => now >= last_success + c.interval
  BY <1>1, <1>5, SchedulerAssumption DEF ScheduledDeadline, CompletionDeadline, MaybeTime
<1>7. not_before # None => now >= not_before
  BY <1>1, <1>3, <1>4 DEF MaybeTime
<1> QED
  BY <1>6, <1>7

(* Only an evaluation makes the status Running. *)
LEMMA OnlyEvaluateStarts ==
    ASSUME TypeOK, OperationInv, [Next]_vars, ~Evaluate, status.state # "Running"
    PROVE  status'.state # "Running"
<1> USE DEF gateVars, timeVars
<1>0. /\ config \in Configurations /\ now \in Nat /\ saved_success \in MaybeTime
      /\ status.state \in States
  BY DEF TypeOK, Statuses
<1>1. CASE Restart
  BY <1>0, <1>1, LoadedStatusType, ZenonT(30) DEF Restart
<1>2. CASE FinishBackup
  BY <1>2, Zenon DEF FinishBackup
<1>3. CASE FinishRepositoryOperation
  <2>1. loop.config \in Configurations
    BY <1>3 DEF FinishRepositoryOperation, OperationInv
  <2> QED
    BY <1>3, <2>1, ConfigurationStatusType, ZenonT(30)
       DEF FinishRepositoryOperation, ApplyConfigurationStatus
<1>4. CASE DeferBackup
  BY <1>4, Zenon DEF DeferBackup, Status
<1>5. CASE UpdateConfiguration
  BY <1>5, ConfigurationStatusType, ZenonT(30) DEF UpdateConfiguration, ApplyConfigurationStatus
<1>6. CASE UpdateBackupSources
  BY <1>6, ConfigurationStatusType, ZenonT(30) DEF UpdateBackupSources, ApplyConfigurationStatus
<1>7. CASE BeginRepositoryOperation
  BY <1>7, Zenon DEF BeginRepositoryOperation, Status
<1>8. CASE Sleep \/ Wake \/ CloneConfiguration \/ OperationRequested \/ OperationFinished
           \/ RunBackupNow \/ EnrollBegins \/ EnrollEnds \/ Tick \/ PowerStatusChanged
           \/ TimeChanged \/ Resume \/ UNCHANGED vars
  <2>1. status' = status
    BY <1>8, ZenonT(30)
       DEF Sleep, Wake, CloneConfiguration, OperationRequested, OperationFinished,
           RunBackupNow, EnrollBegins, EnrollEnds, Tick, PowerStatusChanged, TimeChanged,
           Resume, vars
  <2> QED
    BY <2>1, Zenon
<1> QED
  BY <1>1, <1>2, <1>3, <1>4, <1>5, <1>6, <1>7, <1>8, ZenonT(30) DEF Next

(* Whatever the clock, the requests and the configurations, a backup that  *)
(* nobody asked for starts no earlier than the schedule, the retry time,   *)
(* a deferral and the wake grace allow (decide, evaluate_schedule).        *)
THEOREM StartsCorrect == Spec => StartsOnlyWhenDue
<1> DEFINE Allowed ==
      /\ loop.config.configured /\ operation = "Succeeded" /\ ~management
      /\ \/ manual_requested
         \/ /\ last_success # None => now >= last_success + loop.config.interval
            /\ not_before # None => now >= not_before
            /\ resumed_at # None => now >= resumed_at + loop.config.grace
<1>1. ASSUME TypeOK, OperationInv, [Next]_vars, status.state # "Running",
             status'.state = "Running"
      PROVE  Allowed
  <2>1. Evaluate
    BY <1>1, OnlyEvaluateStarts, Zenon
  <2>2. loop.config \in Configurations
    BY <1>1, <2>1, EvaluateCases, Zenon
  <2>3. NothingDone \/ Started \/ NotDue \/ InGrace \/ Blocked
    BY <1>1, <2>1, EvaluateCases, Zenon
  <2>4. Started
    <3>1. ~NothingDone
      BY <1>1, Zenon DEF NothingDone
    <3>2. ~NotDue
      <4>1. \A s \in States \ {"Running", "Conditions"} :
              \A u : Status(s, u).state # "Running"
        BY Zenon DEF Status
      <4> QED
        BY <1>1, <4>1, Zenon DEF NotDue
    <3>3. \A u : Status("WakeGrace", u).state # "Running"
      BY Zenon DEF Status
    <3>4. \A u : Status("Conditions", u).state # "Running"
      BY Zenon DEF Status
    <3>5. ~InGrace
      BY <1>1, <3>3, Zenon DEF InGrace
    <3>6. ~Blocked
      BY <1>1, <3>4, Zenon DEF Blocked
    <3> QED
      BY <2>3, <3>1, <3>2, <3>5, <3>6, Zenon
  <2>5. /\ Evaluates /\ Due(loop.config) /\ ~InWakeGrace(loop.config)
    BY <2>4, Zenon DEF Started
  <2>6. ~manual_requested =>
          /\ last_success # None => now >= last_success + loop.config.interval
          /\ not_before # None => now >= not_before
    BY <1>1, <2>2, <2>5, DuePast, Zenon
  <2>7. ~manual_requested /\ resumed_at # None => now >= resumed_at + loop.config.grace
    <3>1. now \in Nat /\ resumed_at \in MaybeTime /\ loop.config.grace \in Nat
      BY <1>1, <2>2, ConfigurationType DEF TypeOK
    <3>2. ~manual_requested /\ resumed_at # None => ~(now < resumed_at + loop.config.grace)
      BY <2>5, Zenon DEF InWakeGrace
    <3> QED
      BY <3>1, <3>2 DEF MaybeTime
  <2> QED
    BY <2>5, <2>6, <2>7, Zenon DEF Evaluates
<1>2. TypeOK /\ OperationInv /\ [Next]_vars =>
        [status.state # "Running" /\ status'.state = "Running" => Allowed]_vars
  BY <1>1, Zenon
<1>3. Init => TypeOK /\ OperationInv
  BY OperationInit
<1>4. TypeOK /\ OperationInv /\ [Next]_vars => (TypeOK /\ OperationInv)'
  BY TypeStep, OperationStep
<1> QED
  BY <1>2, <1>3, <1>4, PTL DEF Spec, StartsOnlyWhenDue

-----------------------------------------------------------------------------
(* The backoff                                                             *)

(* The retry after a failure is never further away than the capped backoff *)
(* (finish_backup_at), as long as the wall clock is not set.               *)
THEOREM BackoffCorrect ==
    ASSUME ClockChanges = {}
    PROVE  Spec => []BackoffIsBounded
<1>1. Init => BackoffIsBounded
  BY DEF Init, BackoffIsBounded
<1>2. ASSUME TypeOK, OperationInv, BackoffIsBounded, [Next]_vars
      PROVE  BackoffIsBounded'
  <2> USE DEF gateVars, timeVars
  <2>1. CASE not_before' = None
    BY <2>1 DEF BackoffIsBounded
  <2>2. CASE not_before' = not_before /\ now' >= now
    <3>1. /\ now \in Nat /\ now' \in Nat /\ not_before \in MaybeTime
          /\ FailureRetry * Power[MaxExponent] \in Nat
      <4>1. TypeOK'
        BY <1>2, TypeStep
      <4>2. MaxExponent \in Nat
        BY SchedulerAssumption
      <4>3. Power[MaxExponent] \in Nat /\ FailureRetry \in Nat
        BY <4>2, PowerType, SchedulerAssumption
      <4> QED
        BY <1>2, <4>1, <4>3 DEF TypeOK
    <3>2. CASE not_before <= now + FailureRetry * Power[MaxExponent]
      <4> DEFINE cap == FailureRetry * Power[MaxExponent]
      <4> HIDE DEF cap
      <4>1. not_before # None => not_before <= now' + cap
        BY <2>2, <3>1, <3>2 DEF MaybeTime, cap
      <4> QED
        BY <2>2, <4>1 DEF BackoffIsBounded, cap
    <3>3. ASSUME NEW minutes \in Deferrals, not_before <= now + minutes, not_before # None
          PROVE  not_before <= now' + minutes
      <4>1. minutes \in Nat
        BY SchedulerAssumption
      <4>2. not_before \in Nat
        BY <3>1, <3>3 DEF MaybeTime
      <4>3. now \in Nat /\ now' \in Nat /\ now' >= now
        BY <2>2, <3>1
      <4>4. \A i, j, k, l \in Nat : i <= j + k /\ l >= j => i <= l + k
        OBVIOUS
      <4> QED
        BY <3>3, <4>1, <4>2, <4>3, <4>4, Zenon
    <3> QED
      BY <1>2, <2>2, <3>2, <3>3, ZenonT(30) DEF BackoffIsBounded
  <2>3. CASE FinishBackup
    <3>1. now' = now /\ (not_before' = None \/ Fails)
      BY <1>2, <2>3, FinishBackupCases DEF Succeeds
    <3>2. Fails => not_before' <= now + FailureRetry * Power[MaxExponent]
      <4>1. MaxExponent \in Nat
        BY SchedulerAssumption
      <4>2. Power[MaxExponent] \in Nat /\ FailureRetry \in Nat /\ now \in Nat
        BY <1>2, <4>1, PowerType, SchedulerAssumption DEF TypeOK
      <4>3. FailureRetry * Power[MaxExponent] \in Nat
        BY <4>2
      <4> QED
        BY <4>2, <4>3 DEF Fails
    <3> QED
      BY <3>1, <3>2 DEF BackoffIsBounded
  <2>4. CASE DeferBackup
    <3>1. PICK minutes \in Deferrals : not_before' = now + minutes /\ now' = now
      BY <2>4 DEF DeferBackup
    <3>2. not_before' <= now' + minutes
      BY <1>2, <3>1, SchedulerAssumption DEF TypeOK
    <3> QED
      BY <3>2 DEF BackoffIsBounded
  <2>5. CASE Evaluate
    <3>1. now' = now /\ (not_before' = None \/ not_before' = not_before)
      BY <1>2, <2>5, EvaluateCases, Zenon DEF NothingDone, Started, NotDue, InGrace, Blocked
    <3> QED
      BY <1>2, <2>1, <2>2, <3>1 DEF TypeOK
  <2>6. CASE FinishRepositoryOperation \/ UpdateConfiguration \/ UpdateBackupSources
    <3>1. now' = now /\ (not_before' = None \/ not_before' = not_before)
      BY <2>6 DEF FinishRepositoryOperation, UpdateConfiguration, UpdateBackupSources,
                  ApplyConfigurationStatus
    <3> QED
      BY <1>2, <2>1, <2>2, <3>1 DEF TypeOK
  <2>7. CASE Restart \/ RunBackupNow
    BY <2>1, <2>7, Zenon DEF Restart, RunBackupNow
  <2>8. CASE Sleep \/ Wake \/ CloneConfiguration \/ OperationRequested \/ OperationFinished
             \/ BeginRepositoryOperation \/ EnrollBegins \/ EnrollEnds \/ Tick
             \/ PowerStatusChanged \/ Resume \/ UNCHANGED vars
    <3>1. not_before' = not_before /\ (now' = now \/ Tick \/ Resume)
      BY <2>8, ZenonT(30)
         DEF Sleep, Wake, CloneConfiguration, OperationRequested, OperationFinished,
                  BeginRepositoryOperation, EnrollBegins, EnrollEnds, Tick,
                  PowerStatusChanged, Resume, vars
    <3>2. now' >= now
      BY <1>2, <3>1, SchedulerAssumption DEF Tick, Resume, TypeOK
    <3> QED
      BY <2>2, <3>1, <3>2
  <2>9. CASE TimeChanged
    BY <2>9 DEF TimeChanged
  <2> QED
    BY <1>2, <2>3, <2>4, <2>5, <2>6, <2>7, <2>8, <2>9, Zenon DEF Next
<1>3. Init => TypeOK /\ OperationInv
  BY OperationInit
<1>4. TypeOK /\ OperationInv /\ [Next]_vars => (TypeOK /\ OperationInv)'
  BY TypeStep, OperationStep
<1> QED
  BY <1>1, <1>2, <1>3, <1>4, PTL DEF Spec

-----------------------------------------------------------------------------
(* A backup is at most an interval away                                    *)

(* The wall clock is not set, and no wake grace is longer than the         *)
(* interval.                                                               *)
SteadyClock ==
    /\ ClockChanges = {}
    /\ \A c \in Configurations : c.grace <= c.interval

(* How a step changes the history. *)
LEMMA HistoryChanges ==
    ASSUME SteadyClock, TypeOK, OperationInv, [Next]_vars
    PROVE  /\ now' \in Nat /\ now <= now'
           /\ last_success' \in {last_success, saved_success, now}
           /\ saved_success' \in {saved_success, now}
           /\ resumed_at' \in {resumed_at, None, now}
           /\ \/ waited' = 0
              \/ waited' = waited /\ last_success' = last_success
              \/ Tick /\ Ready /\ waited' = waited + 1
           /\ management' => management \/ waited' = 0
           /\ loop'.pc = "evaluate" =>
                \/ loop'.config = config'
                \/ loop' = loop /\ (config' = config \/ waited' = 0)
<1> USE DEF gateVars, timeVars
<1>0. now \in Nat /\ config \in Configurations /\ loop.busy \in BOOLEAN /\ management \in BOOLEAN
  BY DEF TypeOK, Loops
<1>1. CASE Evaluate
  <2>1. loop'.pc = "evaluated" /\ UNCHANGED <<now, management, last_success, saved_success>>
    BY <1>0, <1>1, AtType, EvaluateCases
  <2>2. /\ resumed_at' \in {resumed_at, None, now}
        /\ waited' = 0 \/ waited' = waited
    BY <1>1, EvaluateCases, Zenon DEF NothingDone, Started, NotDue, InGrace, Blocked
  <2> QED
    BY <1>0, <2>1, <2>2
<1>2. CASE FinishBackup
  <2>1. /\ loop'.pc = "handled" /\ UNCHANGED <<now, management>>
        /\ resumed_at' = None /\ waited' = 0
    BY <1>0, <1>2, AtType, FinishBackupCases, ZenonT(30)
  <2>2. last_success' \in {last_success, now} /\ saved_success' \in {saved_success, now}
    BY <1>2, FinishBackupCases DEF Succeeds, Fails
  <2> QED
    BY <1>0, <2>1, <2>2
<1>3. CASE CloneConfiguration
  <2>1. loop'.config = config
    BY <1>0, <1>3, AtType DEF CloneConfiguration
  <2> QED
    BY <1>0, <1>3, <2>1 DEF CloneConfiguration
<1>4. CASE Restart
  <2>1. loop'.pc = "woken"
    BY <1>0, <1>4, AtType, ZenonT(30) DEF Restart
  <2>2. /\ last_success' = saved_success /\ resumed_at' = None /\ management' = FALSE
        /\ waited' = 0 /\ UNCHANGED <<now, saved_success>>
    BY <1>4 DEF Restart
  <2> QED
    BY <1>0, <2>1, <2>2
<1>5. CASE Sleep \/ Wake \/ OperationRequested \/ OperationFinished
  <2>1. loop'.pc # "evaluate"
    BY <1>5, LoopPlaces, Zenon
  <2>2. /\ UNCHANGED <<now, last_success, saved_success, management, waited>>
        /\ resumed_at' \in {resumed_at, now}
    <3>1. CASE Sleep
      BY <3>1, Zenon DEF Sleep
    <3>2. CASE Wake
      BY <3>2, Zenon DEF Wake
    <3>3. CASE OperationRequested
      BY <3>3, Zenon DEF OperationRequested
    <3>4. CASE OperationFinished
      BY <3>4, ZenonT(30) DEF OperationFinished
    <3> QED
      BY <1>5, <3>1, <3>2, <3>3, <3>4, Zenon
  <2> QED
    BY <1>0, <2>1, <2>2
<1>6. CASE FinishRepositoryOperation
  <2>1. loop'.pc # "evaluate"
    BY <1>6, LoopPlaces, Zenon
  <2> QED
    BY <1>0, <1>6, <2>1 DEF FinishRepositoryOperation
<1>7. CASE RunBackupNow \/ DeferBackup \/ UpdateConfiguration \/ UpdateBackupSources
           \/ BeginRepositoryOperation
  <2>1. CASE RunBackupNow
    BY <1>0, <2>1 DEF RunBackupNow
  <2>2. CASE DeferBackup
    BY <1>0, <2>2 DEF DeferBackup
  <2>3. CASE UpdateConfiguration
    BY <1>0, <2>3 DEF UpdateConfiguration
  <2>4. CASE UpdateBackupSources
    BY <1>0, <2>4 DEF UpdateBackupSources
  <2>5. CASE BeginRepositoryOperation
    BY <1>0, <2>5 DEF BeginRepositoryOperation
  <2> QED
    BY <1>7, <2>1, <2>2, <2>3, <2>4, <2>5, Zenon
<1>8. CASE EnrollBegins \/ EnrollEnds \/ PowerStatusChanged \/ UNCHANGED vars
  <2>1. CASE EnrollBegins
    BY <1>0, <2>1 DEF EnrollBegins
  <2>2. CASE EnrollEnds
    BY <1>0, <2>2 DEF EnrollEnds
  <2>3. CASE PowerStatusChanged
    BY <1>0, <2>3 DEF PowerStatusChanged
  <2>4. CASE UNCHANGED vars
    BY <1>0, <2>4 DEF vars
  <2> QED
    BY <1>8, <2>1, <2>2, <2>3, <2>4, Zenon
<1>9. CASE Tick
  BY <1>0, <1>9 DEF Tick
<1>10. CASE TimeChanged
  BY <1>10 DEF TimeChanged, SteadyClock
<1>11. CASE Resume
  <2>1. now' \in Nat /\ now <= now'
    BY <1>0, <1>11, SchedulerAssumption DEF Resume
  <2> QED
    BY <1>0, <1>11, <2>1 DEF Resume
<1> QED
  BY <1>1, <1>2, <1>3, <1>4, <1>5, <1>6, <1>7, <1>8, <1>9, <1>10, <1>11, ZenonT(30) DEF Next

LEMMA HistoryStep ==
    ASSUME SteadyClock, TypeOK, OperationInv, HistoryInv, [Next]_vars
    PROVE  HistoryInv'
<1>1. /\ now \in Nat /\ now' \in Nat /\ now <= now' /\ waited \in Nat
      /\ last_success \in MaybeTime /\ saved_success \in MaybeTime /\ resumed_at \in MaybeTime
  BY HistoryChanges DEF TypeOK
<1>2. Past(last_success)' /\ Past(saved_success)' /\ Past(resumed_at)'
  BY <1>1, HistoryChanges, SchedulerAssumption DEF HistoryInv, Past, MaybeTime
<1>3. last_success' # None => waited' <= now' - last_success'
  <2>1. CASE waited' = 0
    <3>1. last_success' \in MaybeTime
      BY <1>1, HistoryChanges DEF MaybeTime
    <3>2. last_success' # None => last_success' \in Nat /\ last_success' <= now'
      BY <1>2, <3>1 DEF Past, MaybeTime
    <3> QED
      BY <1>1, <2>1, <3>2
  <2>2. CASE waited' = waited /\ last_success' = last_success
    <3>1. last_success # None => last_success \in Nat /\ waited <= now - last_success
      BY <1>1 DEF HistoryInv, MaybeTime
    <3> QED
      BY <1>1, <2>2, <3>1
  <2>3. CASE Tick /\ Ready /\ waited' = waited + 1
    <3>1. now' = now + 1 /\ last_success' = last_success
      BY <2>3 DEF Tick, timeVars
    <3> QED
      BY <1>1, <2>3, <3>1 DEF HistoryInv, MaybeTime
  <2> QED
    BY <2>1, <2>2, <2>3, HistoryChanges
<1>4. management' => waited' = 0
  <2>1. Tick /\ Ready => ~management'
    BY DEF Tick, Ready, gateVars
  <2> QED
    BY <2>1, HistoryChanges DEF HistoryInv
<1>5. loop'.pc = "evaluate" /\ loop'.config # config' => waited' = 0
  <2>1. Tick => loop'.pc = "sleep"
    BY DEF Tick
  <2> QED
    BY <2>1, HistoryChanges DEF HistoryInv
<1> QED
  BY <1>2, <1>3, <1>4, <1>5 DEF HistoryInv

(* The time waited when an evaluation ends, and the sleep that follows.    *)
LEMMA EvaluateInInterval ==
    ASSUME SteadyClock, TypeOK, OperationInv, SleepInv, HistoryInv, Evaluate,
           config.configured, operation = "Succeeded", status'.state # "Running",
           not_before' = None, ~loop'.busy
    PROVE  /\ waited' <= config.interval + ConditionRetry
           /\ pending = {} => waited' + Planned' <= config.interval + ConditionRetry
<1>1. /\ now \in Nat /\ now' = now /\ waited \in Nat
      /\ config \in Configurations /\ loop.config \in Configurations
      /\ last_success \in MaybeTime /\ resumed_at \in MaybeTime /\ management \in BOOLEAN
      /\ loop.pc = "evaluate"
      /\ ConditionRetry \in Nat
  BY EvaluateCases, SchedulerAssumption DEF TypeOK
<1>2. config.interval \in Nat /\ config.grace \in Nat /\ config.grace <= config.interval
  BY <1>1, ConfigurationType DEF SteadyClock
<1>3. ~management
  BY <1>1, EvaluateCases, AtType, ZenonT(30)
<1>4. pending = {} => loop.config = config
  BY <1>1 DEF SleepInv
<1>5. loop.config # config => waited = 0
  BY <1>1 DEF HistoryInv
<1>6. CASE NothingDone
  <2>1. ~loop.config.configured /\ waited' = waited
    BY <1>3, <1>6 DEF NothingDone, Evaluates
  <2>2. waited' = 0 /\ pending # {}
    BY <1>4, <1>5, <2>1
  <2> QED
    BY <1>1, <1>2, <2>2
<1>7. CASE Started
  BY <1>7 DEF Started, Status
<1>8. CASE NotDue
  <2>1. CASE loop.config # config
    BY <1>1, <1>2, <1>4, <1>5, <1>8, <2>1 DEF NotDue
  <2>2. CASE loop.config = config
    <3>1. /\ ~manual_requested /\ ~(now >= DueAt(config))
          /\ waited' = waited /\ not_before = None
          /\ status'.state # "Conditions" /\ status'.next_deadline = DueAt(config)
      BY <1>8, <2>2 DEF NotDue, Due, Status
    <3>2. DueAt(config) = ScheduledDeadline(config)
      BY <3>1 DEF DueAt, Latest
    <3>3. last_success \in Nat /\ last_success <= now /\ waited <= now - last_success
      BY <1>1, <3>1, <3>2 DEF ScheduledDeadline, CompletionDeadline, MaybeTime, HistoryInv, Past
    <3>4. DueAt(config) = last_success + config.interval
      BY <3>2, <3>3, SchedulerAssumption DEF ScheduledDeadline, CompletionDeadline
    <3>5. Planned' = last_success + config.interval - now
      BY <1>1, <1>2, <3>1, <3>3, <3>4, SchedulerAssumption DEF Planned, NextEvaluationDelay
    <3> QED
      BY <1>1, <1>2, <3>1, <3>3, <3>4, <3>5
  <2> QED
    BY <2>1, <2>2
<1>9. CASE InGrace
  <2>1. waited' = 0
    BY <1>9 DEF InGrace
  <2>2. ASSUME pending = {} PROVE Planned' <= config.interval
    <3>1. /\ resumed_at \in Nat /\ resumed_at <= now /\ now < resumed_at + config.grace
          /\ status'.state = "WakeGrace" /\ status'.next_deadline = resumed_at + config.grace
      BY <1>1, <1>2, <1>4, <1>9, <2>2
         DEF InGrace, InWakeGrace, Status, MaybeTime, HistoryInv, Past
    <3>2. Planned' = resumed_at + config.grace - now
      BY <1>1, <1>2, <3>1, SchedulerAssumption DEF Planned, NextEvaluationDelay
    <3> QED
      BY <1>1, <1>2, <3>1, <3>2
  <2>3. Planned' \in Nat
    <3>1. TypeOK'
      BY TypeStep DEF Next
    <3>2. status' \in Statuses /\ now' \in Nat
      BY <3>1 DEF TypeOK
    <3> QED
      BY <3>2, DelayType, ZenonT(30) DEF Planned
  <2> QED
    BY <1>1, <1>2, <2>1, <2>2, <2>3
<1>10. CASE Blocked
  <2>1. waited' = 0 /\ Planned' = ConditionRetry
    BY <1>10 DEF Blocked, Planned, NextEvaluationDelay, Status
  <2> QED
    BY <1>1, <1>2, <2>1
<1> QED
  BY <1>6, <1>7, <1>8, <1>9, <1>10, EvaluateCases

(* The sum of the time waited and the sleep that is left is bounded. *)
LEMMA IntervalStep ==
    ASSUME SteadyClock, TypeOK, OperationInv, SleepInv, HistoryInv, IntervalInv, [Next]_vars
    PROVE  IntervalInv'
<1> USE DEF gateVars, timeVars
<1>0. /\ config \in Configurations /\ config' \in Configurations
      /\ loop.busy \in BOOLEAN /\ management \in BOOLEAN
      /\ now \in Nat /\ delay \in Nat /\ waited \in Nat /\ ConditionRetry \in Nat
  BY TypeStep, SchedulerAssumption DEF TypeOK, Loops
<1>1. /\ config.interval \in Nat \ {0} /\ config'.interval \in Nat \ {0}
  BY <1>0, ConfigurationType
<1>2. waited' = 0 => DueWithinInterval'
  BY <1>0, <1>1 DEF DueWithinInterval
<1>3. CASE Restart
  <2>1. loop'.pc = "woken" /\ waited' = 0
    BY <1>0, <1>3, AtType, ZenonT(30) DEF Restart
  <2> QED
    BY <1>2, <2>1 DEF IntervalInv
<1>4. CASE Sleep
  <2>1. loop'.pc = "sleep"
    BY <1>4, SleepDelay
  <2>2. /\ loop.pc \in {"evaluated", "handled"}
        /\ UNCHANGED <<config, operation, management, status, not_before, pending, waited>>
    BY <1>4 DEF Sleep
  <2>3. (Quiet' <=> Quiet) /\ (Ready' <=> Ready)
    BY <2>2 DEF Quiet, Ready
  <2>4. ASSUME Quiet', ~loop'.busy, not_before' = None
        PROVE  waited' + delay' <= config'.interval + ConditionRetry
    <3>1. CASE management /\ delay' = ConditionRetry
      BY <1>0, <1>1, <2>2, <3>1 DEF HistoryInv
    <3>2. CASE ~loop.busy /\ delay' = Planned
      BY <2>2, <2>3, <2>4, <3>2 DEF IntervalInv
    <3> QED
      BY <1>4, <2>4, <3>1, <3>2, SleepDelay
  <2>5. DueWithinInterval'
    <3>1. ~loop'.busy /\ ~management => ~loop.busy
      BY <1>4, SleepDelay
    <3> QED
      BY <2>2, <2>3, <3>1 DEF DueWithinInterval, IntervalInv, Ready
  <2> QED
    BY <2>1, <2>4, <2>5 DEF IntervalInv
<1>5. CASE Wake
  <2>1. /\ loop'.pc \in {"handled", "woken"} /\ (loop'.pc = "handled" => status.state = "Running")
        /\ loop'.busy = loop.busy
    BY <1>0, <1>5, AtType DEF Wake
  <2>2. UNCHANGED <<config, operation, management, status, not_before, waited>>
    BY <1>5 DEF Wake
  <2>3. loop'.pc = "handled" => ~Quiet'
    BY <2>1, <2>2 DEF Quiet
  <2>4. DueWithinInterval'
    BY <2>1, <2>2 DEF DueWithinInterval, IntervalInv, Ready
  <2> QED
    BY <2>1, <2>3, <2>4 DEF IntervalInv
<1>6. CASE CloneConfiguration
  <2>1. /\ loop'.pc = "evaluate" /\ loop'.busy = loop.busy
        /\ UNCHANGED <<config, operation, management, status, not_before, waited>>
    BY <1>0, <1>6, AtType DEF CloneConfiguration
  <2>2. DueWithinInterval'
    BY <2>1 DEF DueWithinInterval, IntervalInv, Ready
  <2> QED
    BY <2>1, <2>2 DEF IntervalInv
<1>7. CASE Evaluate
  <2>1. loop'.pc = "evaluated" /\ UNCHANGED <<config, operation, pending>>
    BY <1>0, <1>7, AtType, EvaluateCases, ZenonT(30)
  <2>2. DueWithinInterval'
    BY <1>7, <2>1, EvaluateInInterval DEF DueWithinInterval, Ready
  <2>3. Quiet' /\ ~loop'.busy /\ not_before' = None =>
          waited' + Planned' <= config'.interval + ConditionRetry
    BY <1>7, <2>1, EvaluateInInterval DEF Quiet
  <2> QED
    BY <2>1, <2>2, <2>3 DEF IntervalInv
<1>8. CASE FinishBackup
  <2>1. loop'.pc = "handled" /\ waited' = 0 /\ UNCHANGED <<now, config>>
    BY <1>0, <1>8, AtType, FinishBackupCases, ZenonT(30)
  <2>2. ASSUME not_before' = None PROVE Planned' = config.interval
    <3>1. Succeeds
      BY <1>0, <1>8, <2>2, FinishBackupCases, SchedulerAssumption DEF Fails
    <3>2. status'.state = "Ended" /\ status'.next_deadline = now + config.interval
      BY <3>1 DEF Succeeds, Status
    <3> QED
      BY <1>0, <1>1, <2>1, <3>2, SchedulerAssumption DEF Planned, NextEvaluationDelay
  <2>3. not_before' = None => waited' + Planned' <= config'.interval + ConditionRetry
    BY <1>0, <1>1, <2>1, <2>2
  <2> QED
    BY <1>2, <2>1, <2>3 DEF IntervalInv
<1>9. CASE OperationRequested
  <2>1. loop'.pc \in {"handled", "notStarted"}
    BY <1>0, <1>9, AtType DEF OperationRequested
  <2>2. operation' = "Running"
    BY <1>9 DEF OperationRequested, OperationInv
  <2> QED
    BY <2>1, <2>2 DEF IntervalInv, Quiet, DueWithinInterval, Ready
<1>10. CASE OperationFinished
  <2>1. loop'.pc = "finished" /\ operation' = "Running"
    BY <1>0, <1>10, AtType DEF OperationFinished
  <2> QED
    BY <2>1 DEF IntervalInv, DueWithinInterval, Ready
<1>11. CASE FinishRepositoryOperation
  <2>1. \/ loop'.pc = "woken"
        \/ loop'.pc = "handled" /\ operation' = "Failed"
    BY <1>0, <1>11, AtType DEF FinishRepositoryOperation
  <2>2. waited' = 0
    BY <1>11 DEF FinishRepositoryOperation
  <2>3. loop'.pc = "handled" => ~Quiet'
    BY <2>1 DEF Quiet
  <2> QED
    BY <1>2, <2>1, <2>2, <2>3 DEF IntervalInv
<1>12. CASE RunBackupNow \/ DeferBackup \/ UpdateConfiguration \/ UpdateBackupSources \/ Resume
  <2>1. pending' # {} /\ waited' = 0
    BY <1>12 DEF RunBackupNow, DeferBackup, UpdateConfiguration, UpdateBackupSources, Resume
  <2>2. ~Quiet'
    BY <2>1 DEF Quiet
  <2> QED
    BY <1>2, <2>1, <2>2 DEF IntervalInv
<1>13. CASE BeginRepositoryOperation
  <2>1. operation' # "Succeeded" /\ waited' = 0
    BY <1>13 DEF BeginRepositoryOperation
  <2>2. ~Quiet'
    BY <2>1 DEF Quiet
  <2> QED
    BY <1>2, <2>1, <2>2 DEF IntervalInv
<1>14. CASE EnrollBegins \/ EnrollEnds
  <2>1. /\ UNCHANGED <<now, config, operation, status, not_before, pending, loop, delay>>
        /\ waited' = 0 \/ (management /\ waited' = waited)
    BY <1>14 DEF EnrollBegins, EnrollEnds
  <2>2. waited' = 0
    BY <2>1 DEF HistoryInv
  <2>3. (Quiet' <=> Quiet) /\ Planned' = Planned
    BY <2>1 DEF Quiet, Planned
  <2>4. Planned \in Nat
    BY <1>0, DelayType, ZenonT(30) DEF Planned, TypeOK
  <2>5. ASSUME NEW d \in Nat, waited + d <= config.interval + ConditionRetry
        PROVE  0 + d <= config.interval + ConditionRetry
    BY <1>0, <1>1, <2>5
  <2> QED
    BY <1>0, <1>2, <2>1, <2>2, <2>3, <2>4, <2>5 DEF IntervalInv
<1>15. CASE Tick
  <2>1. /\ loop.pc = "sleep" /\ pending = {} /\ delay > 0 /\ delay' = delay - 1
        /\ UNCHANGED <<config, operation, management, status, not_before, pending, loop>>
        /\ waited' = 0 \/ waited' = waited + 1
    BY <1>15 DEF Tick
  <2>2. (Quiet' <=> Quiet) /\ (Ready => Quiet) /\ (Ready' <=> Ready)
    BY <2>1 DEF Quiet, Ready
  <2>3. ASSUME Quiet', ~loop'.busy, not_before' = None
        PROVE  waited' + delay' <= config'.interval + ConditionRetry
    <3>1. waited + delay <= config.interval + ConditionRetry
      BY <2>1, <2>2, <2>3 DEF IntervalInv
    <3> QED
      BY <1>0, <1>1, <2>1, <3>1
  <2>4. ASSUME Ready', ~loop'.busy, not_before' = None
        PROVE  waited' <= config'.interval + ConditionRetry
    <3>1. waited' + delay' <= config'.interval + ConditionRetry
      BY <2>2, <2>3, <2>4
    <3> QED
      BY <1>0, <1>1, <2>1, <3>1
  <2>5. DueWithinInterval'
    BY <2>4 DEF DueWithinInterval
  <2> QED
    BY <2>1, <2>3, <2>5 DEF IntervalInv
<1>16. CASE PowerStatusChanged
  <2>1. ~Quiet' /\ UNCHANGED <<config, operation, management, status, not_before, loop, waited>>
    BY <1>16 DEF PowerStatusChanged, Quiet
  <2>2. DueWithinInterval'
    BY <2>1 DEF DueWithinInterval, IntervalInv, Ready
  <2> QED
    BY <2>1, <2>2 DEF IntervalInv
<1>17. CASE TimeChanged
  BY <1>17 DEF TimeChanged, SteadyClock
<1>18. CASE UNCHANGED vars
  <2>1. (Quiet' <=> Quiet) /\ Planned' = Planned /\ (DueWithinInterval' <=> DueWithinInterval)
    BY <1>18 DEF vars, Quiet, Planned, DueWithinInterval, Ready
  <2> QED
    BY <1>18, <2>1 DEF vars, IntervalInv
<1> QED
  BY <1>3, <1>4, <1>5, <1>6, <1>7, <1>8, <1>9, <1>10, <1>11, <1>12, <1>13, <1>14, <1>15,
     <1>16, <1>17, <1>18, ZenonT(30) DEF Next

(* A machine that is ready, and neither deferred nor backing off, waits at *)
(* most an interval and a poll for its backup to be started or refused by  *)
(* the conditions (completion_deadline), for every interval, provided the  *)
(* wall clock is not set and the wake grace is no longer than the interval.*)
THEOREM IntervalCorrect ==
    ASSUME SteadyClock
    PROVE  Spec => []DueWithinInterval
<1> DEFINE Inv == TypeOK /\ OperationInv /\ SleepInv /\ HistoryInv /\ IntervalInv
<1>1. Init => Inv
  <2> SUFFICES ASSUME Init PROVE SleepInv /\ HistoryInv /\ IntervalInv
    BY OperationInit
  <2>1. config \in Configurations /\ ConditionRetry \in Nat
    BY SchedulerAssumption DEF Init
  <2>2. loop.pc = "woken" /\ config.interval \in Nat
    BY <2>1, AtType, ConfigurationType, ZenonT(30) DEF Init
  <2>3. SleepInv
    BY <2>2, ZenonT(30) DEF SleepInv
  <2>4. HistoryInv
    BY <2>2 DEF Init, HistoryInv, Past
  <2>5. DueWithinInterval
    BY <2>1, <2>2 DEF Init, DueWithinInterval
  <2> QED
    BY <2>2, <2>3, <2>4, <2>5 DEF IntervalInv
<1>2. Inv /\ [Next]_vars => Inv'
  BY TypeStep, OperationStep, SleepStep, HistoryStep, IntervalStep
<1>3. Inv => DueWithinInterval
  BY DEF IntervalInv
<1> QED
  BY <1>1, <1>2, <1>3, PTL DEF Spec

=============================================================================
