---------------------------- MODULE HealthProofs ----------------------------
(***************************************************************************)
(* First about Scheduler.tla, for any list of tasks and periods, any width *)
(* of the counter and any delay of a pass below MaxGap; then about the     *)
(* sensor, its driver and the diagnosis that Health.tla puts on this       *)
(* schedule, for any limits of the diagnosis and any bus.                  *)
(***************************************************************************)
EXTENDS Health, TLAPS

-----------------------------------------------------------------------------
(* The inductive invariant.                                                *)

\* The counter and the stamps are the true times, wrapped once at most.
ClockIsTrue ==
  /\ tick = Wrap(now + gap)
  /\ \A i \in Tasks : now = Wrap(lastRun[i] + since[i])

\* A task the pass has gone by is not due, and none is a turn of the counter late.
Punctual ==
  \A i \in Tasks :
    /\ since[i] < Period[i] + MaxGap
    /\ pos = 0 \/ i < pos => since[i] < Period[i]

\* An earlier task that has not run since a later one is the older of the two.
InOrder ==
  \A i, j \in Tasks : i < j /\ i \notin ran[j] => since[i] >= since[j]

SchedInv == SchedTypeOK /\ ClockIsTrue /\ Punctual /\ InOrder

-----------------------------------------------------------------------------
LEMMA TaskIsNat ==
  ASSUME NEW i \in Tasks
  PROVE  i \in Nat /\ i >= 1
<1>1. Tasks = 1 .. Len(Period) /\ Len(Period) \in Nat
  BY SchedulerAssumption DEF Tasks
<1> QED BY <1>1

LEMMA PeriodType ==
  /\ \A i \in Tasks : Period[i] \in Nat \ {0} /\ Period[i] + MaxGap <= TICK_MOD
  /\ Tasks = 1 .. Len(Period) /\ Len(Period) \in Nat
  /\ MaxGap \in Nat \ {0} /\ TICK_MOD \in Nat /\ MaxGap < TICK_MOD
BY SchedulerAssumption DEF Tasks

\* The unsigned difference is the true age, as long as that is below a turn.
LEMMA ElapsedIsTrue ==
  ASSUME NEW last \in 0 .. (TICK_MOD - 1), NEW age \in Nat, age < TICK_MOD,
         NEW period \in Nat
  PROVE  Elapsed(Wrap(last + age), last, period) <=> age >= period
BY PeriodType DEF Elapsed, Wrap

LEMMA DueIsTrue ==
  ASSUME SchedInv, NEW i \in Tasks
  PROVE  Due(i) <=> since[i] >= Period[i]
<1>1. /\ lastRun[i] \in 0 .. (TICK_MOD - 1) /\ since[i] \in Nat
      /\ now = Wrap(lastRun[i] + since[i]) /\ since[i] < Period[i] + MaxGap
  BY DEF SchedInv, SchedTypeOK, ClockIsTrue, Punctual
<1>2. /\ Period[i] \in Nat /\ Period[i] + MaxGap <= TICK_MOD
      /\ MaxGap \in Nat /\ TICK_MOD \in Nat
  BY PeriodType
<1>3. since[i] < TICK_MOD
  BY <1>1, <1>2
<1>4. Elapsed(Wrap(lastRun[i] + since[i]), lastRun[i], Period[i]) <=> since[i] >= Period[i]
  BY <1>1, <1>2, <1>3, ElapsedIsTrue
<1> QED BY <1>1, <1>4 DEF Due

-----------------------------------------------------------------------------
LEMMA InvInit ==
  ASSUME SchedInit
  PROVE  SchedInv
<1>1. /\ tick \in 0 .. (TICK_MOD - 1) /\ now = tick /\ pos = 0 /\ gap = 0
      /\ since \in [Tasks -> {0, 1}]
      /\ \A i, j \in Tasks : i < j => since[i] >= since[j]
      /\ \A i \in Tasks : since[i] < Period[i]
      /\ lastRun = [i \in Tasks |-> IF tick >= since[i] THEN tick - since[i]
                                                       ELSE tick - since[i] + TICK_MOD]
      /\ ran = [i \in Tasks |-> {}]
  BY DEF SchedInit
<1>2. \A i \in Tasks : /\ since[i] \in {0, 1} /\ Period[i] \in Nat \ {0}
                       /\ Period[i] + MaxGap <= TICK_MOD
  BY <1>1, PeriodType
<1>3. \A i \in Tasks : lastRun[i] = IF tick >= since[i] THEN tick - since[i]
                                                       ELSE tick - since[i] + TICK_MOD
  BY <1>1
<1>4. \A i \in Tasks : /\ lastRun[i] \in 0 .. (TICK_MOD - 1)
                       /\ now = Wrap(lastRun[i] + since[i])
  <2>1. ASSUME NEW i \in Tasks
        PROVE  /\ lastRun[i] \in 0 .. (TICK_MOD - 1)
               /\ now = Wrap(lastRun[i] + since[i])
    <3>1. since[i] \in 0 .. 1 /\ TICK_MOD \in Nat /\ TICK_MOD > 1
      BY <1>2, PeriodType
    <3>2. lastRun[i] = IF tick >= since[i] THEN tick - since[i]
                                           ELSE tick - since[i] + TICK_MOD
      BY <1>3
    <3> QED BY <1>1, <3>1, <3>2 DEF Wrap
  <2> QED BY <2>1
<1>5. SchedTypeOK
  <2>1. since \in [Tasks -> Nat]
    BY <1>1
  <2>2. lastRun \in [Tasks -> 0 .. (TICK_MOD - 1)]
    BY <1>1, <1>4
  <2>3. ran \in [Tasks -> SUBSET Tasks]
    BY <1>1
  <2>4. pos \in 0 .. (Len(Period) + 1) /\ gap \in 0 .. MaxGap
    BY <1>1, PeriodType
  <2> QED BY <1>1, <2>1, <2>2, <2>3, <2>4 DEF SchedTypeOK
<1>6. ClockIsTrue
  <2>1. tick = Wrap(now + gap)
    BY <1>1, PeriodType DEF Wrap
  <2> QED BY <2>1, <1>4 DEF ClockIsTrue
<1>7. Punctual
  BY <1>1, <1>2, PeriodType DEF Punctual
<1>8. InOrder
  BY <1>1 DEF InOrder
<1> QED BY <1>5, <1>6, <1>7, <1>8 DEF SchedInv

LEMMA TimeStep ==
  ASSUME SchedInv, TimePasses
  PROVE  SchedInv'
<1>1. /\ gap < MaxGap /\ gap' = gap + 1 /\ tick' = Wrap(tick + 1)
      /\ UNCHANGED <<now, pos, lastRun, since, ran>>
  BY DEF TimePasses
<1>2. /\ now \in 0 .. (TICK_MOD - 1) /\ gap \in 0 .. MaxGap /\ tick = Wrap(now + gap)
  BY DEF SchedInv, SchedTypeOK, ClockIsTrue
<1>3. tick' = Wrap(now + gap') /\ tick' \in 0 .. (TICK_MOD - 1) /\ gap' \in 0 .. MaxGap
  BY <1>1, <1>2, PeriodType DEF Wrap
<1>4. SchedTypeOK' /\ ClockIsTrue'
  BY <1>1, <1>3 DEF SchedInv, SchedTypeOK, ClockIsTrue
<1>5. Punctual' /\ InOrder'
  BY <1>1 DEF SchedInv, Punctual, InOrder
<1> QED BY <1>4, <1>5 DEF SchedInv

LEMMA StartStep ==
  ASSUME SchedInv, StartPass
  PROVE  SchedInv'
<1>1. /\ pos = 0 /\ pos' = 1 /\ now' = tick /\ gap' = 0
      /\ since' = [i \in Tasks |-> since[i] + gap]
      /\ UNCHANGED <<tick, lastRun, ran>>
  BY DEF StartPass
<1>2. /\ now \in 0 .. (TICK_MOD - 1) /\ gap \in 0 .. MaxGap /\ tick = Wrap(now + gap)
      /\ tick \in 0 .. (TICK_MOD - 1)
  BY DEF SchedInv, SchedTypeOK, ClockIsTrue
<1>3. ASSUME NEW i \in Tasks
      PROVE  /\ since'[i] = since[i] + gap /\ since'[i] \in Nat
             /\ since'[i] < Period[i] + MaxGap
             /\ now' = Wrap(lastRun[i] + since'[i])
  <2>1. /\ since[i] \in Nat /\ since[i] < Period[i] /\ lastRun[i] \in 0 .. (TICK_MOD - 1)
        /\ now = Wrap(lastRun[i] + since[i])
    BY <1>1 DEF SchedInv, SchedTypeOK, ClockIsTrue, Punctual
  <2>2. since'[i] = since[i] + gap
    BY <1>1
  <2>3. /\ Period[i] \in Nat /\ Period[i] + MaxGap <= TICK_MOD
        /\ MaxGap \in Nat /\ TICK_MOD \in Nat
    BY PeriodType
  <2>4. since[i] + gap < Period[i] + MaxGap /\ since[i] + gap < TICK_MOD
    BY <1>2, <2>1, <2>3
  <2>5. Wrap(now + gap) = Wrap(lastRun[i] + (since[i] + gap))
    BY <1>2, <2>1, <2>3, <2>4 DEF Wrap
  <2> QED BY <1>1, <1>2, <2>1, <2>2, <2>4, <2>5
<1>4. SchedTypeOK'
  <2>1. since' \in [Tasks -> Nat]
    BY <1>1, <1>3
  <2>2. pos' \in 0 .. (Len(Period) + 1) /\ gap' \in 0 .. MaxGap
    BY <1>1, PeriodType
  <2> QED BY <1>1, <2>1, <2>2 DEF SchedInv, SchedTypeOK
<1>5. ClockIsTrue'
  <2>1. tick' = Wrap(now' + gap')
    BY <1>1, <1>2, PeriodType DEF Wrap
  <2> QED BY <1>1, <1>3, <2>1 DEF ClockIsTrue
<1>6. Punctual'
  <2>1. \A i \in Tasks : i \in Nat /\ i >= 1
    BY TaskIsNat
  <2> QED BY <1>1, <1>3, <2>1, PeriodType DEF Punctual
<1>7. InOrder'
  <2>1. \A i \in Tasks : since[i] \in Nat
    BY DEF SchedInv, SchedTypeOK
  <2> QED BY <1>1, <1>2, <1>3, <2>1 DEF SchedInv, InOrder
<1> QED BY <1>4, <1>5, <1>6, <1>7 DEF SchedInv

\* What a dispatch leaves of the tasks the pass has gone by.
LEMMA RunFacts ==
  ASSUME SchedInv, NEW t \in Tasks, RunTask(t)
  PROVE  /\ since[t] >= Period[t]
         /\ \A i \in Tasks : i < t => since[i] < Period[i]
<1>1. pos \in 1 .. t /\ Due(t) /\ \A j \in pos .. (t - 1) : ~Due(j)
  BY DEF RunTask, NextDue
<1>2. ASSUME NEW i \in Tasks, i < t
      PROVE  since[i] < Period[i]
  <2>1. i \in Nat /\ t \in Nat /\ Period[i] \in Nat /\ since[i] \in Nat
    BY TaskIsNat, PeriodType DEF SchedInv, SchedTypeOK
  <2>2. CASE i < pos
    BY <2>2 DEF SchedInv, Punctual
  <2>3. CASE i >= pos
    <3>1. ~Due(i)
      BY <1>1, <1>2, <2>1, <2>3
    <3> QED BY <2>1, <3>1, DueIsTrue
  <2> QED BY <1>1, <2>1, <2>2, <2>3
<1> QED BY <1>1, <1>2, DueIsTrue

LEMMA RunStep ==
  ASSUME SchedInv, NEW t \in Tasks, RunTask(t)
  PROVE  SchedInv'
<1>1. /\ pos \in 1 .. t /\ pos' = t + 1
      /\ lastRun' = [lastRun EXCEPT ![t] = now]
      /\ since' = [since EXCEPT ![t] = 0]
      /\ ran' = [j \in Tasks |-> IF j = t THEN {} ELSE ran[j] \cup {t}]
      /\ UNCHANGED <<tick, now, gap>>
  BY DEF RunTask
<1>2. /\ lastRun \in [Tasks -> 0 .. (TICK_MOD - 1)] /\ since \in [Tasks -> Nat]
      /\ now \in 0 .. (TICK_MOD - 1) /\ ran \in [Tasks -> SUBSET Tasks]
  BY DEF SchedInv, SchedTypeOK
<1>3. \A i \in Tasks : /\ since'[i] = IF i = t THEN 0 ELSE since[i]
                       /\ lastRun'[i] = IF i = t THEN now ELSE lastRun[i]
                       /\ ran'[i] = IF i = t THEN {} ELSE ran[i] \cup {t}
  BY <1>1, <1>2
<1>4. SchedTypeOK'
  <2>1. lastRun' \in [Tasks -> 0 .. (TICK_MOD - 1)] /\ since' \in [Tasks -> Nat]
    BY <1>1, <1>2
  <2>2. ran' \in [Tasks -> SUBSET Tasks]
    BY <1>1, <1>2
  <2>3. pos' \in 0 .. (Len(Period) + 1)
    BY <1>1, PeriodType
  <2> QED BY <1>1, <2>1, <2>2, <2>3 DEF SchedInv, SchedTypeOK
<1>5. ClockIsTrue'
  <2>1. now = Wrap(now + 0)
    BY <1>2, PeriodType DEF Wrap
  <2>2. \A i \in Tasks : now = Wrap(lastRun'[i] + since'[i])
    BY <1>3, <2>1 DEF SchedInv, ClockIsTrue
  <2> QED BY <1>1, <2>2 DEF SchedInv, ClockIsTrue
<1>6. Punctual'
  <2>1. ASSUME NEW i \in Tasks
        PROVE  /\ since'[i] < Period[i] + MaxGap
               /\ i < pos' => since'[i] < Period[i]
    <3>1. Period[i] \in Nat \ {0} /\ MaxGap \in Nat /\ i \in Nat /\ t \in Nat
      BY TaskIsNat, PeriodType
    <3>2. CASE i = t
      <4>1. since'[i] = 0
        BY <1>3, <3>2
      <4> QED BY <3>1, <4>1
    <3>3. CASE i # t
      <4>1. since'[i] = since[i] /\ since[i] < Period[i] + MaxGap
        BY <1>3, <3>3 DEF SchedInv, Punctual
      <4>2. i < pos' => i < t
        BY <1>1, <3>1, <3>3
      <4>3. i < t => since[i] < Period[i]
        BY RunFacts
      <4> QED BY <4>1, <4>2, <4>3
    <3> QED BY <3>2, <3>3
  <2> QED BY <1>1, <2>1, PeriodType DEF Punctual
<1>7. InOrder'
  <2>1. ASSUME NEW i \in Tasks, NEW j \in Tasks, i < j, i \notin ran'[j]
        PROVE  since'[i] >= since'[j]
    <3>1. since[i] \in Nat /\ since[j] \in Nat /\ i \in Nat /\ j \in Nat
      BY <1>2, TaskIsNat
    <3>2. CASE j = t
      <4>1. since'[j] = 0 /\ (since'[i] = 0 \/ since'[i] = since[i])
        BY <1>3, <3>2
      <4> QED BY <3>1, <4>1
    <3>3. CASE j # t
      <4>1. i # t /\ i \notin ran[j]
        BY <1>3, <2>1, <3>3
      <4>2. since[i] >= since[j]
        BY <2>1, <4>1 DEF SchedInv, InOrder
      <4>3. since'[i] = since[i] /\ since'[j] = since[j]
        BY <1>3, <3>3, <4>1
      <4> QED BY <4>2, <4>3
    <3> QED BY <3>2, <3>3
  <2> QED BY <2>1 DEF InOrder
<1> QED BY <1>4, <1>5, <1>6, <1>7 DEF SchedInv

LEMMA EndStep ==
  ASSUME SchedInv, EndPass
  PROVE  SchedInv'
<1>1. /\ pos > 0 /\ pos' = 0
      /\ \A j \in Tasks : j >= pos => ~Due(j)
      /\ UNCHANGED <<tick, now, lastRun, gap, since, ran>>
  BY DEF EndPass
<1>2. \A i \in Tasks : since[i] < Period[i]
  <2>1. ASSUME NEW i \in Tasks
        PROVE  since[i] < Period[i]
    <3>1. i \in Nat /\ pos \in Nat /\ Period[i] \in Nat /\ since[i] \in Nat
      BY TaskIsNat, PeriodType DEF SchedInv, SchedTypeOK
    <3>2. CASE i < pos
      BY <3>2 DEF SchedInv, Punctual
    <3>3. CASE i >= pos
      BY <1>1, <3>1, <3>3, DueIsTrue
    <3> QED BY <3>1, <3>2, <3>3
  <2> QED BY <2>1
<1>3. SchedTypeOK' /\ ClockIsTrue' /\ InOrder'
  BY <1>1, PeriodType DEF SchedInv, SchedTypeOK, ClockIsTrue, InOrder
<1>4. Punctual'
  BY <1>1, <1>2 DEF SchedInv, Punctual
<1> QED BY <1>3, <1>4 DEF SchedInv

LEMMA InvStep ==
  ASSUME SchedInv, [SchedNext]_schedVars
  PROVE  SchedInv'
<1>1. CASE SchedNext
  BY <1>1, TimeStep, StartStep, RunStep, EndStep DEF SchedNext
<1>2. CASE UNCHANGED schedVars
  BY <1>2 DEF schedVars, SchedInv, SchedTypeOK, ClockIsTrue, Punctual, InOrder
<1> QED BY <1>1, <1>2

-----------------------------------------------------------------------------
(* The theorems.                                                           *)

\* The inductive invariant holds of every schedule.
THEOREM Invariance == SchedSpec => []SchedInv
<1>1. SchedInit => SchedInv
  BY InvInit
<1>2. SchedInv /\ [SchedNext]_schedVars => SchedInv'
  BY InvStep
<1> QED BY <1>1, <1>2, PTL DEF SchedSpec

(* No task misses its release or is released early, whatever the counter   *)
(* stands at: for all periods, counter widths and delays that together do  *)
(* not reach a turn of the counter.                                        *)
THEOREM Release == SchedSpec => ReleasedOnTime
<1>1. ASSUME SchedInv, [SchedNext]_schedVars
      PROVE  \A i \in Tasks :
               RunTask(i) => since[i] >= Period[i] /\ since[i] < Period[i] + MaxGap
  BY <1>1, RunFacts DEF SchedInv, Punctual
<1>2. SchedInv /\ [SchedNext]_schedVars =>
        [\A i \in Tasks :
           RunTask(i) => since[i] >= Period[i] /\ since[i] < Period[i] + MaxGap]_schedVars
  BY <1>1
<1> QED BY <1>2, Invariance, PTL DEF SchedSpec, ReleasedOnTime

LEMMA RanBefore ==
  ASSUME SchedInv, NEW i \in Tasks, NEW j \in Tasks,
         i < j, Period[i] <= Period[j], RunTask(j)
  PROVE  i \in ran[j]
<1>1. since[j] >= Period[j] /\ since[i] < Period[i]
  BY RunFacts
<1>2. /\ since[i] \in Nat /\ since[j] \in Nat
      /\ Period[i] \in Nat /\ Period[j] \in Nat
  BY PeriodType DEF SchedInv, SchedTypeOK
<1>3. ~(since[i] >= since[j])
  BY <1>1, <1>2
<1> QED BY <1>3 DEF SchedInv, InOrder

(* Registration order is a guarantee, not a habit: between two dispatches  *)
(* of a task every earlier one of no longer period has run, for any number *)
(* of tasks and any stalls.                                                *)
THEOREM Sampling == SchedSpec => SampledBeforeUse
<1>1. SchedInv /\ [SchedNext]_schedVars =>
        [\A i, j \in Tasks :
           i < j /\ Period[i] <= Period[j] /\ RunTask(j) => i \in ran[j]]_schedVars
  BY RanBefore
<1> QED BY <1>1, Invariance, PTL DEF SchedSpec, SampledBeforeUse

-----------------------------------------------------------------------------
(* The composition: its scheduler is the scheduler.                        *)

(* Whatever the sensor, the bus and the other core do, the schedule of     *)
(* Health is one of Scheduler, so that what is proved of it holds here.    *)
THEOREM Schedules == Spec => SchedSpec
<1>1. Init => SchedInit
  BY DEF Init
<1>2. ASSUME [Next]_vars
      PROVE  [SchedNext]_schedVars
  <2>1. SENSOR \in Tasks /\ HOUSEKEEPING \in Tasks
    BY HealthAssumption
  <2>2. CASE Time \/ Pass
    BY <2>2 DEF Time, Pass, SchedNext
  <2>3. CASE SensorTask \/ Housekeeping_100ms
    BY <2>1, <2>3 DEF SensorTask, Housekeeping_100ms, SchedNext
  <2>4. CASE World \/ BringUp \/ NavTask_step \/ Cpu1Stops \/ UNCHANGED vars
    BY <2>4 DEF World, BringUp, NavTask_step, Cpu1Stops, vars
  <2> QED BY <1>2, <2>2, <2>3, <2>4 DEF Next
<1>3. [Next]_vars => [SchedNext]_schedVars
  BY <1>2
<1> QED BY <1>1, <1>3, PTL DEF Spec, SchedSpec

-----------------------------------------------------------------------------
(* The sensor and its diagnosis.                                           *)

EntryType ==
  [everOk : BOOLEAN, sawOk : BOOLEAN, sawImplausible : BOOLEAN,
   lastLive : {NoValue} \cup Samples, silentTicks : 0 .. COUNTER_MAX,
   frozenTicks : 0 .. COUNTER_MAX, implausibleTicks : 0 .. COUNTER_MAX]

PartType == [on : BOOLEAN, set : SUBSET Registers, frozen : BOOLEAN, sample : 1 .. 2]

TypeInv ==
  /\ part \in PartType /\ diag \in EntryType
  /\ present \in BOOLEAN /\ step \in 0 .. LAST_WRITE
  /\ nav \in [present : BOOLEAN, plausible : BOOLEAN, moved : 0 .. 2]
  /\ lastNav \in [present : BOOLEAN, plausible : BOOLEAN]
  /\ sdaTicks \in 0 .. COUNTER_MAX

\* A part that is present is not being brought up.
BringUpEnds == present => step = 0

\* The value reported last is the last sample, or one a good part does not give.
LastSeen ==
  device = "i2c" => diag.lastLive \in {NoValue, 0, part.sample, 0 - part.sample}

(* A window begins with a good sensor and nothing of the last one; once    *)
(* the sensor task has run in it, a good read has been reported.           *)
CleanWindow ==
  clean =>
    /\ device = "i2c" /\ present /\ Delivering /\ bus = FreeBus
    /\ ~diag.sawImplausible
    /\ SENSOR \in ran[HOUSEKEEPING] =>
         diag.sawOk /\ diag.everOk /\ diag.frozenTicks = 0

HealthInv == TypeInv /\ BringUpEnds /\ LastSeen /\ CleanWindow

LEMMA Limits ==
  /\ COUNTER_MAX \in Nat /\ COUNTER_MAX >= 1
  /\ \A n \in {PD_TIMEOUT_TICKS, PD_STUCK_TICKS, PD_IMPLAUSIBLE_TICKS, PD_BUS_STUCK_TICKS} :
       n \in Nat /\ n >= 1
  /\ CONFIG_WRITES \in Nat /\ CONFIG_WRITES >= 1 /\ CONFIG_WRITES \in Shown
  /\ LAST_READ \in 2 .. 3 /\ LAST_WRITE = LAST_READ + CONFIG_WRITES
  /\ RESET = 1 /\ IDENTITY = 2
  /\ I2C_RECOVERY_PULSES \in Nat /\ I2C_MAX_ATTEMPTS \in Nat /\ I2C_MAX_ATTEMPTS >= 1
  /\ SENSOR \in Tasks /\ HOUSEKEEPING \in Tasks /\ SENSOR # HOUSEKEEPING
  /\ NoValue \notin Samples
<1>1. PD_TIMEOUT_TICKS >= 1 /\ PD_TIMEOUT_TICKS <= COUNTER_MAX /\ PD_TIMEOUT_TICKS \in Int
  BY PeriphDiagAssumption
<1>2. \A n \in {PD_TIMEOUT_TICKS, PD_STUCK_TICKS, PD_IMPLAUSIBLE_TICKS, PD_BUS_STUCK_TICKS} :
        n \in Nat /\ n >= 1
  BY PeriphDiagAssumption
<1>3. COUNTER_MAX \in Nat /\ COUNTER_MAX >= 1
  BY <1>1, PeriphDiagAssumption
<1>4. /\ CONFIG_WRITES \in Nat /\ CONFIG_WRITES >= 1 /\ CONFIG_WRITES \in Shown
      /\ LAST_READ \in 2 .. 3 /\ LAST_WRITE = LAST_READ + CONFIG_WRITES
      /\ RESET = 1 /\ IDENTITY = 2
  BY SensorAssumption DEF RESET, IDENTITY, LAST_READ, LAST_WRITE
<1>5. I2C_RECOVERY_PULSES \in Nat /\ I2C_MAX_ATTEMPTS \in Nat /\ I2C_MAX_ATTEMPTS >= 1
  BY I2cAssumption
<1>6. SENSOR # HOUSEKEEPING
  BY DEF SENSOR, HOUSEKEEPING
<1> QED BY <1>2, <1>3, <1>4, <1>5, <1>6, HealthAssumption

\* A counter of the diagnosis saturates.
LEMMA Tracked ==
  ASSUME NEW ticks \in 0 .. COUNTER_MAX, NEW active \in BOOLEAN
  PROVE  /\ pd_track(ticks, active) \in 0 .. COUNTER_MAX
         /\ ~active => pd_track(ticks, active) = 0
BY Limits DEF pd_track, Counted

\* What a report and an update make of an entry.
LEMMA Reported ==
  ASSUME NEW st \in EntryType, NEW readOk \in BOOLEAN, NEW plausible \in BOOLEAN,
         NEW liveness \in Samples
  PROVE  LET r == PeriphDiag_report(st, readOk, plausible, liveness)
         IN  /\ r \in EntryType
             /\ ~readOk => r = st
             /\ readOk => /\ r.sawOk /\ r.everOk /\ r.lastLive = liveness
                          /\ (r.sawImplausible <=> st.sawImplausible \/ ~plausible)
                          /\ liveness # st.lastLive => r.frozenTicks = 0
<1> DEFINE f == pd_track(st.frozenTicks, liveness = st.lastLive)
<1>1. f \in 0 .. COUNTER_MAX /\ (liveness # st.lastLive => f = 0)
  <2>1. st.frozenTicks \in 0 .. COUNTER_MAX /\ (liveness = st.lastLive) \in BOOLEAN
    BY DEF EntryType
  <2> QED BY <2>1, Tracked
<1> HIDE DEF f
<1>2. CASE ~readOk
  BY <1>2 DEF PeriphDiag_report
<1>3. CASE readOk
  <2>1. PeriphDiag_report(st, readOk, plausible, liveness)
          = [st EXCEPT !.sawOk = TRUE, !.everOk = TRUE,
                       !.sawImplausible = st.sawImplausible \/ ~plausible,
                       !.frozenTicks = f, !.lastLive = liveness]
    BY <1>3 DEF PeriphDiag_report, f
  <2> QED BY <1>1, <1>3, <2>1 DEF EntryType
<1> QED BY <1>2, <1>3

LEMMA Updated ==
  ASSUME NEW st \in EntryType
  PROVE  LET u == PeriphDiag_update(st)
         IN  /\ u \in EntryType
             /\ ~u.sawImplausible
             /\ u.lastLive = st.lastLive /\ u.frozenTicks = st.frozenTicks
             /\ u.everOk = st.everOk
             /\ st.sawOk => u.silentTicks = 0
             /\ ~st.sawImplausible => u.implausibleTicks = 0
<1> DEFINE s == pd_track(st.silentTicks, ~st.sawOk)
           m == pd_track(st.implausibleTicks, st.sawImplausible)
<1>1. /\ s \in 0 .. COUNTER_MAX /\ (st.sawOk => s = 0)
      /\ m \in 0 .. COUNTER_MAX /\ (~st.sawImplausible => m = 0)
  <2>1. /\ st.silentTicks \in 0 .. COUNTER_MAX /\ st.implausibleTicks \in 0 .. COUNTER_MAX
        /\ st.sawOk \in BOOLEAN /\ st.sawImplausible \in BOOLEAN
    BY DEF EntryType
  <2>2. (~st.sawOk) \in BOOLEAN
    BY <2>1
  <2> QED BY <2>1, <2>2, Tracked
<1> HIDE DEF s, m
<1>2. PeriphDiag_update(st)
        = [st EXCEPT !.silentTicks = s, !.implausibleTicks = m,
                     !.sawOk = FALSE, !.sawImplausible = FALSE]
  BY DEF PeriphDiag_update, WindowConsumed, EntryType, s, m
<1> QED BY <1>1, <1>2 DEF EntryType

\* A window with a good read and nothing implausible raises no bit.
LEMMA QuietEntry ==
  ASSUME NEW st \in EntryType, st.everOk, st.silentTicks = 0, st.frozenTicks = 0,
         st.implausibleTicks = 0
  PROVE  StatusBits(st) = {}
BY Limits DEF StatusBits

\* A free bus stays free, whatever is called.
LEMMA FreeStays ==
  ASSUME NEW answers \in BOOLEAN
  PROVE  I2c_readReg(FreeBus, answers).bus = FreeBus
<1>1. i2c_busIdle(FreeBus) /\ i2c_ensureBusFree(FreeBus) = FreeBus
  BY DEF i2c_busIdle, i2c_ensureBusFree, FreeBus
<1>2. NakPhase(FreeBus, answers).bus = FreeBus
  BY Limits DEF NakPhase, FreeBus
<1>3. I2c_writeReg(FreeBus, answers) = NakPhase(FreeBus, answers)
  BY <1>1 DEF I2c_writeReg, i2c_writePhase
<1>4. i2c_readPhase(FreeBus, answers) = NakPhase(FreeBus, answers)
  BY DEF i2c_readPhase, FreeBus
<1> QED BY <1>2, <1>3, <1>4 DEF I2c_readReg

-----------------------------------------------------------------------------
(* Each step keeps the invariant.                                          *)

LEMMA InitInv == Init => HealthInv
<1> SUFFICES ASSUME Init PROVE HealthInv
  OBVIOUS
<1>1. part \in PartType
  <2>1. PICK b \in BOOLEAN :
          part = [on |-> b, set |-> IF b THEN Registers ELSE {}, frozen |-> FALSE, sample |-> 1]
    BY DEF Init
  <2> QED BY <2>1 DEF PartType
<1>2. diag \in EntryType /\ diag.lastLive = NoValue
  BY Limits DEF Init, PeriphDiag_init, EntryType
<1>3. /\ nav \in [present : BOOLEAN, plausible : BOOLEAN, moved : 0 .. 2]
      /\ lastNav \in [present : BOOLEAN, plausible : BOOLEAN]
  BY DEF Init
<1>4. present \in BOOLEAN /\ step = 0 /\ sdaTicks = 0 /\ clean = FALSE
  BY <1>1 DEF Init, PartType
<1>5. step \in 0 .. LAST_WRITE /\ sdaTicks \in 0 .. COUNTER_MAX
  BY <1>4, Limits
<1> QED
  BY <1>1, <1>2, <1>3, <1>4, <1>5 DEF HealthInv, TypeInv, BringUpEnds, LastSeen, CleanWindow

LEMMA SameInv ==
  ASSUME HealthInv, UNCHANGED <<device, sensorVars, diag, nav, lastNav, sdaTicks, ran, clean>>
  PROVE  HealthInv'
BY DEF HealthInv, TypeInv, BringUpEnds, LastSeen, CleanWindow, Delivering, Converting,
       sensorVars, busVars, driverVars

LEMMA WorldInv == ASSUME HealthInv, World PROVE HealthInv'
<1>1. part' \in PartType /\ part'.sample = part.sample
  BY DEF HealthInv, TypeInv, World, SensorWorld, PowerOff, PowerOn, BrownOut, Freeze,
         BusTrouble, Repaired, Reset, PartType
<1>2. /\ clean' = FALSE
      /\ UNCHANGED <<device, present, step, diag, nav, lastNav, sdaTicks>>
  BY DEF World, SensorWorld, driverVars, navVars, diagVars
<1> QED
  BY <1>1, <1>2 DEF HealthInv, TypeInv, BringUpEnds, LastSeen, CleanWindow

LEMMA BringUpInv == ASSUME HealthInv, BringUp PROVE HealthInv'
<1>1. /\ step > 0 /\ step \in 0 .. LAST_WRITE
      /\ part \in PartType /\ present \in BOOLEAN
      /\ UNCHANGED <<device, diag, nav, lastNav, sdaTicks, ran, clean>>
  BY DEF HealthInv, TypeInv, BringUp, Bmp581_initStep, navVars, diagVars, schedVars
<1>2. ~present /\ ~clean
  BY <1>1 DEF HealthInv, BringUpEnds, CleanWindow
<1> DEFINE reads == step \in IDENTITY .. LAST_READ
           r == IF reads THEN I2c_readReg(bus, part.on) ELSE I2c_writeReg(bus, part.on)
           ok(valid) == step = RESET \/ (r.ok /\ (reads => valid))
<1>3. PICK valid \in BOOLEAN :
        /\ part' = IF ~r.ok \/ reads THEN part
                   ELSE IF step = RESET THEN Reset(part)
                   ELSE [part EXCEPT !.set = @ \cup {step - LAST_READ}]
        /\ present' = InitResult(ok(valid))
        /\ step' = IF ok(valid) /\ step < LAST_WRITE THEN step + 1 ELSE 0
  BY DEF BringUp, Bmp581_initStep
<1>4. part' \in PartType /\ part'.sample = part.sample
  <2> HIDE DEF r
  <2>1. CASE ~r.ok \/ reads
    BY <1>1, <1>3, <2>1
  <2>2. CASE ~(~r.ok \/ reads) /\ step = RESET
    <3>1. part' = Reset(part)
      BY <1>3, <2>2
    <3> QED BY <1>1, <3>1 DEF Reset, PartType
  <2>3. CASE ~(~r.ok \/ reads) /\ step # RESET
    <3>1. step - LAST_READ \in Registers
      BY <1>1, <2>3, Limits DEF Registers
    <3>2. part' = [part EXCEPT !.set = @ \cup {step - LAST_READ}]
      BY <1>3, <2>3
    <3> QED BY <1>1, <3>1, <3>2 DEF PartType
  <2> QED BY <2>1, <2>2, <2>3
<1> DEFINE passed == ok(valid)
<1>5. /\ present' = (passed /\ step = LAST_WRITE)
      /\ step' = IF passed /\ step < LAST_WRITE THEN step + 1 ELSE 0
  BY <1>3 DEF InitResult
<1> HIDE DEF r, reads, ok, passed
<1>6. step' \in 0 .. LAST_WRITE /\ present' \in BOOLEAN /\ (present' => step' = 0)
  <2>1. present' \in BOOLEAN /\ (present' => step = LAST_WRITE)
    BY <1>5
  <2>2. LAST_WRITE \in Nat
    BY Limits
  <2>3. step' \in 0 .. LAST_WRITE /\ (step = LAST_WRITE => step' = 0)
    BY <1>1, <1>5, <2>2
  <2> QED BY <2>1, <2>3
<1> QED
  BY <1>1, <1>2, <1>4, <1>6 DEF HealthInv, TypeInv, BringUpEnds, LastSeen, CleanWindow

\* What a data read leaves of the part, and what it may return.
LEMMA ReadFacts ==
  ASSUME HealthInv, NEW ok \in BOOLEAN, NEW sample, ReadData(ok, sample)
  PROVE  /\ part' \in PartType /\ (Delivering => Delivering') /\ sample \in Samples
         /\ present' = ok /\ step' = 0
         /\ ~ok => part' = part
         /\ ok => sample \in {0, part'.sample, 0 - part'.sample}
         /\ ok /\ Delivering => sample = 3 - part.sample
         /\ bus = FreeBus => bus' = FreeBus
<1>1. part \in PartType
  BY DEF HealthInv, TypeInv
<1> DEFINE r == I2c_readReg(bus, part.on)
<1>2. /\ ok = r.ok /\ bus' = r.bus /\ sample = Sample(part)
      /\ part' = [part EXCEPT !.sample = IF ok /\ Converting(part) THEN Measured(part) ELSE @]
      /\ present' = ok /\ step' = 0
  BY DEF ReadData
<1>3. bus = FreeBus => bus' = FreeBus
  BY <1>1, <1>2, FreeStays DEF PartType
<1> HIDE DEF r
<1> DEFINE value == Measured(part)
<1>4. part.sample \in 1 .. 2 /\ value \in 1 .. 2 /\ (~part.frozen => value = 3 - part.sample)
  BY <1>1 DEF PartType, Measured
<1>5. /\ sample = IF ~Converting(part) THEN 0 ELSE IF Shown \subseteq part.set THEN value ELSE 0 - value
      /\ part' = [part EXCEPT !.sample = IF ok /\ Converting(part) THEN value ELSE @]
  BY <1>2 DEF Sample
<1> HIDE DEF value
<1>6. part' \in PartType /\ part'.sample = IF ok /\ Converting(part) THEN value ELSE part.sample
  BY <1>1, <1>4, <1>5 DEF PartType
<1>7. part'.on = part.on /\ part'.set = part.set /\ part'.frozen = part.frozen
  BY <1>1, <1>5 DEF PartType
<1>8. Delivering => Delivering'
  BY <1>7 DEF Delivering
<1>9. ~ok => part' = part
  BY <1>1, <1>2 DEF PartType
<1>10. ok => sample \in {0, part'.sample, 0 - part'.sample}
  BY <1>5, <1>6
<1>11. Delivering => sample = 3 - part.sample
  BY <1>4, <1>5, Limits DEF Delivering, Converting
<1>12. sample \in Samples
  <2>1. 0 - value \in Samples /\ value \in Samples /\ 0 \in Samples
    BY <1>4 DEF Samples
  <2> QED BY <1>5, <2>1
<1> QED BY <1>2, <1>3, <1>6, <1>8, <1>9, <1>10, <1>11, <1>12

LEMMA SensorInv ==
  ASSUME SchedTypeOK, HealthInv, SensorTask
  PROVE  HealthInv'
<1>1. /\ step = 0 /\ RunTask(SENSOR)
      /\ UNCHANGED <<device, nav, lastNav, sdaTicks>>
  BY DEF SensorTask, navVars
<1>2. diag \in EntryType /\ part \in PartType /\ part.sample \in 1 .. 2 /\ step = 0
  BY <1>1 DEF HealthInv, TypeInv, PartType
<1>3. CASE device = "imu"
  <2>1. /\ ~clean /\ UNCHANGED <<part, present, step, diag, clean>>
    BY <1>3 DEF SensorTask, HealthInv, CleanWindow, sensorVars, busVars, driverVars
  <2> QED
    BY <1>1, <1>3, <2>1 DEF HealthInv, TypeInv, BringUpEnds, LastSeen, CleanWindow
<1>4. CASE device = "i2c" /\ (\E valid \in BOOLEAN : Absent(valid)) /\ Report(FALSE, 0)
  <2>1. ~present /\ UNCHANGED <<part, present>> /\ step' \in {0, 1}
    BY <1>4, Limits DEF Absent
  <2>2. diag' = diag /\ clean' = FALSE
    BY <1>4 DEF Report, PeriphDiag_report
  <2>3. step' \in 0 .. LAST_WRITE
    BY <2>1, Limits
  <2> QED
    BY <1>1, <1>4, <2>1, <2>2, <2>3 DEF HealthInv, TypeInv, BringUpEnds, LastSeen, CleanWindow
<1>5. ASSUME device = "i2c", NEW ok \in BOOLEAN, NEW sample \in Samples,
             ReadData(ok, sample), Report(ok, sample)
      PROVE  HealthInv'
  <2>1. /\ part' \in PartType /\ (Delivering => Delivering')
        /\ present' = ok /\ step' = 0
        /\ ~ok => part' = part
        /\ ok => sample \in {0, part'.sample, 0 - part'.sample}
        /\ ok /\ Delivering => sample = 3 - part.sample
        /\ bus = FreeBus => bus' = FreeBus
    BY <1>5, ReadFacts
  <2> DEFINE plausible == Bmp581_plausible(sample)
  <2>2. plausible \in BOOLEAN /\ (plausible <=> sample > 0)
    BY DEF Bmp581_plausible
  <2>3. diag' = PeriphDiag_report(diag, ok, plausible, sample) /\ clean' = (clean /\ ok)
    BY <1>5 DEF Report
  <2> HIDE DEF plausible
  <2>4. /\ diag' \in EntryType
        /\ ~ok => diag' = diag
        /\ ok => /\ diag'.sawOk /\ diag'.everOk /\ diag'.lastLive = sample
                 /\ (diag'.sawImplausible <=> diag.sawImplausible \/ ~plausible)
                 /\ sample # diag.lastLive => diag'.frozenTicks = 0
    <3> DEFINE r == PeriphDiag_report(diag, ok, plausible, sample)
    <3>1. /\ r \in EntryType
          /\ ~ok => r = diag
          /\ ok => /\ r.sawOk /\ r.everOk /\ r.lastLive = sample
                   /\ (r.sawImplausible <=> diag.sawImplausible \/ ~plausible)
                   /\ sample # diag.lastLive => r.frozenTicks = 0
      BY <1>2, <1>5, <2>2, Reported
    <3> HIDE DEF r
    <3>2. diag' = r
      BY <2>3 DEF r
    <3> QED BY <3>1, <3>2
  <2>5. TypeInv'
    <3>1. step' \in 0 .. LAST_WRITE /\ present' \in BOOLEAN
      BY <2>1, Limits
    <3> QED BY <1>1, <2>1, <2>4, <3>1 DEF HealthInv, TypeInv
  <2>6. BringUpEnds'
    BY <2>1 DEF BringUpEnds
  <2>7. LastSeen'
    <3>1. diag.lastLive \in {NoValue, 0, part.sample, 0 - part.sample}
      BY <1>5 DEF HealthInv, LastSeen
    <3>2. diag'.lastLive \in {NoValue, 0, part'.sample, 0 - part'.sample}
      BY <2>1, <2>4, <3>1
    <3> QED BY <3>2 DEF LastSeen
  <2>8. CleanWindow'
    <3> SUFFICES ASSUME clean'
                 PROVE  CleanWindow'
      BY DEF CleanWindow
    <3>1. clean /\ ok
      BY <2>3
    <3>2. present /\ Delivering /\ bus = FreeBus /\ ~diag.sawImplausible
      BY <3>1 DEF HealthInv, CleanWindow
    <3>3. sample = 3 - part.sample /\ diag.lastLive \in {NoValue, 0, part.sample, 0 - part.sample}
      BY <1>5, <2>1, <3>1, <3>2 DEF HealthInv, LastSeen
    <3>4. sample > 0 /\ sample # diag.lastLive
      BY <1>2, <1>5, <3>3, Limits
    <3>5. ~diag'.sawImplausible /\ diag'.sawOk /\ diag'.everOk /\ diag'.frozenTicks = 0
      BY <2>2, <2>4, <3>1, <3>2, <3>4
    <3> QED BY <1>1, <1>5, <2>1, <3>1, <3>2, <3>5 DEF CleanWindow
  <2> QED BY <2>5, <2>6, <2>7, <2>8 DEF HealthInv
<1> QED BY <1>3, <1>4, <1>5 DEF SensorTask

LEMMA HousekeepingInv ==
  ASSUME SchedTypeOK, HealthInv, Housekeeping_100ms
  PROVE  HealthInv'
<1>1. /\ RunTask(HOUSEKEEPING) /\ UNCHANGED <<device, part, bus, present, step>>
      /\ clean' = (device = "i2c" /\ present /\ Delivering /\ bus = FreeBus)
      /\ sdaTicks' = pd_track(sdaTicks, ~i2c_busIdle(bus))
  BY DEF Housekeeping_100ms, sensorVars, busVars, driverVars
<1>2. /\ diag \in EntryType /\ sdaTicks \in 0 .. COUNTER_MAX
      /\ nav \in [present : BOOLEAN, plausible : BOOLEAN, moved : 0 .. 2]
      /\ lastNav \in [present : BOOLEAN, plausible : BOOLEAN]
  BY DEF HealthInv, TypeInv
<1>3. sdaTicks' \in 0 .. COUNTER_MAX
  <2>1. (~i2c_busIdle(bus)) \in BOOLEAN
    BY DEF i2c_busIdle
  <2> QED BY <1>1, <1>2, <2>1, Tracked
<1>4. SENSOR \notin ran'[HOUSEKEEPING]
  BY <1>1, Limits DEF RunTask
<1>5. CASE device = "imu"
  <2>1. PICK got \in BOOLEAN : ReportImu(got)
    BY <1>5 DEF Housekeeping_100ms
  <2>2. /\ nav' \in [present : BOOLEAN, plausible : BOOLEAN, moved : 0 .. 2]
        /\ lastNav' \in [present : BOOLEAN, plausible : BOOLEAN]
    BY <1>2, <2>1 DEF ReportImu
  <2>3. LivenessDelta(got) \in Samples
    BY <1>2 DEF LivenessDelta, Samples
  <2> DEFINE st == PeriphDiag_report(diag, lastNav'.present, lastNav'.plausible,
                                     LivenessDelta(got))
  <2>4. diag' = PeriphDiag_update(st)
    BY <2>1 DEF ReportImu
  <2>5. st \in EntryType
    BY <1>2, <2>2, <2>3, Reported
  <2> HIDE DEF st
  <2>6. diag' \in EntryType
    BY <2>4, <2>5, Updated
  <2>7. ~clean'
    BY <1>1, <1>5
  <2> QED
    BY <1>1, <1>3, <1>5, <2>2, <2>6, <2>7
    DEF HealthInv, TypeInv, BringUpEnds, LastSeen, CleanWindow
<1>6. CASE device = "i2c"
  <2>1. diag' = PeriphDiag_update(diag) /\ UNCHANGED <<nav, lastNav>>
    BY <1>6 DEF Housekeeping_100ms
  <2>2. diag' \in EntryType /\ ~diag'.sawImplausible /\ diag'.lastLive = diag.lastLive
    BY <1>2, <2>1, Updated
  <2>3. TypeInv' /\ BringUpEnds'
    BY <1>1, <1>3, <2>1, <2>2 DEF HealthInv, TypeInv, BringUpEnds
  <2>4. LastSeen'
    BY <1>1, <2>2 DEF HealthInv, LastSeen
  <2>5. CleanWindow'
    BY <1>1, <1>4, <2>2 DEF CleanWindow, Delivering, Converting
  <2> QED BY <2>3, <2>4, <2>5 DEF HealthInv
<1> QED BY <1>5, <1>6 DEF Housekeeping_100ms

LEMMA HealthStep ==
  ASSUME SchedTypeOK, HealthInv, [Next]_vars
  PROVE  HealthInv'
<1>1. CASE Time \/ Pass \/ Cpu1Stops \/ UNCHANGED vars
  <2>1. UNCHANGED <<device, sensorVars, diag, nav, lastNav, sdaTicks, ran, clean>>
    BY <1>1 DEF Time, Pass, Cpu1Stops, TimePasses, StartPass, EndPass, vars, schedVars,
                navVars, diagVars
  <2> QED BY <2>1, SameInv
<1>2. CASE NavTask_step
  <2>1. /\ UNCHANGED <<device, sensorVars, diag, lastNav, sdaTicks, ran, clean>>
        /\ \E p, q \in BOOLEAN, d \in 1 .. 2 :
             nav' = [present |-> p, plausible |-> q, moved |-> d]
    BY <1>2 DEF NavTask_step, schedVars, diagVars
  <2>2. nav' \in [present : BOOLEAN, plausible : BOOLEAN, moved : 0 .. 2]
    BY <2>1
  <2> QED
    BY <2>1, <2>2 DEF HealthInv, TypeInv, BringUpEnds, LastSeen, CleanWindow, Delivering,
                      Converting, sensorVars, busVars, driverVars
<1> QED
  BY <1>1, <1>2, WorldInv, BringUpInv, SensorInv, HousekeepingInv DEF Next

(* The state of sensor, driver and diagnosis is consistent: what is known  *)
(* of a window in which nothing went wrong, for every schedule, driver     *)
(* state and trouble before it.                                            *)
THEOREM DiagnosisConsistent == Spec => []HealthInv
<1>1. Spec => []SchedInv
  BY Schedules, Invariance, PTL
<1>2. SchedInv /\ HealthInv /\ [Next]_vars => HealthInv'
  BY HealthStep DEF SchedInv
<1> QED BY <1>1, <1>2, InitInv, PTL DEF Spec

(* No false alarm: a good sensor on a free bus raises no bit of the        *)
(* diagnosis, however the tasks are delayed, since the housekeeping never  *)
(* judges a window the sensor task has not run in, and a value reported    *)
(* before the trouble cannot make a live sensor look frozen.               *)
THEOREM NoFalseAlarm == Spec => HealthyIsQuiet
<1>1. ASSUME SchedInv, HealthInv, Housekeeping_100ms, clean
      PROVE  status' = {}
  <2>1. RunTask(HOUSEKEEPING) /\ device = "i2c" /\ bus = FreeBus
    BY <1>1 DEF Housekeeping_100ms, HealthInv, CleanWindow
  <2>2. SENSOR \in ran[HOUSEKEEPING]
    <3>1. SENSOR < HOUSEKEEPING
      BY DEF SENSOR, HOUSEKEEPING
    <3> QED BY <1>1, <2>1, <3>1, RanBefore, Limits, HealthAssumption
  <2>3. diag \in EntryType /\ sdaTicks \in 0 .. COUNTER_MAX
    BY <1>1 DEF HealthInv, TypeInv
  <2>4. diag.sawOk /\ diag.everOk /\ diag.frozenTicks = 0 /\ ~diag.sawImplausible
    BY <1>1, <2>2 DEF HealthInv, CleanWindow
  <2>5. diag' = PeriphDiag_update(diag)
    BY <1>1, <2>1 DEF Housekeeping_100ms
  <2>6. StatusBits(diag') = {}
    BY <2>3, <2>4, <2>5, Updated, QuietEntry
  <2>7. sdaTicks' = 0
    BY <1>1, <2>1, <2>3, Tracked DEF Housekeeping_100ms, i2c_busIdle, FreeBus
  <2>8. ~(sdaTicks' >= PD_BUS_STUCK_TICKS)
    <3>1. PD_BUS_STUCK_TICKS \in Nat /\ PD_BUS_STUCK_TICKS >= 1
      BY Limits
    <3> QED BY <2>7, <3>1
  <2> QED BY <1>1, <2>6, <2>8 DEF Housekeeping_100ms
<1>2. Spec => []SchedInv
  BY Schedules, Invariance, PTL
<1>3. SchedInv /\ HealthInv => [Housekeeping_100ms /\ clean => status' = {}]_vars
  BY <1>1
<1> QED BY <1>2, <1>3, DiagnosisConsistent, PTL DEF HealthyIsQuiet
=============================================================================
