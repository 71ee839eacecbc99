------------------------------ MODULE Scheduler ------------------------------
(***************************************************************************)
(* The cooperative scheduler of one core (scheduler.c).  Scheduler_run is  *)
(* called for ever; a pass reads the free-running 32-bit STM counter once, *)
(* walks the task array in order of registration and dispatches every task *)
(* whose period has elapsed since the tick it was last stamped with.  A    *)
(* task runs to its end, so time may pass anywhere in a pass.              *)
(*                                                                         *)
(* The load statistics at the end of a pass are left out: no task reads    *)
(* them.                                                                   *)
(***************************************************************************)
EXTENDS Integers, Sequences

CONSTANTS
  Period,    \* ticks, in order of registration
  TICK_MOD,  \* modulus of the counter (2^32)
  MaxGap     \* bound: most ticks from one pass's reading to the next one's

Tasks == DOMAIN Period

ASSUME SchedulerAssumption ==
  /\ Period \in Seq(Nat \ {0})
  /\ MaxGap \in Nat \ {0} /\ TICK_MOD \in Nat /\ MaxGap < TICK_MOD
  /\ \A i \in Tasks : Period[i] + MaxGap <= TICK_MOD

VARIABLES
  tick,     \* the counter
  now,      \* its value at the start of this pass, or of the last one
  pos,      \* the array index the pass has come to; 0 between passes
  lastRun,  \* per task
  \* history variables
  gap,      \* ticks that have really passed since now was read
  since,    \* per task, ticks from its last stamp to now
  ran       \* per task, the tasks dispatched since its own last dispatch

schedVars == <<tick, now, pos, lastRun, gap, since, ran>>

Wrap(t) == IF t >= TICK_MOD THEN t - TICK_MOD ELSE t

\* Mutant: the deadline is computed and compared, not the difference.
Elapsed_Deadline(t, last, period) == t >= last + period

\* (uint32)(now - lastRun) >= period
Elapsed(t, last, period) ==
  (IF t >= last THEN t - last ELSE t - last + TICK_MOD) >= period

(* Scheduler_addTask stamps each task in turn, all well within a period.   *)
SchedInit ==
  /\ tick \in 0 .. (TICK_MOD - 1) /\ now = tick /\ pos = 0 /\ gap = 0
  /\ since \in [Tasks -> {0, 1}]
  /\ \A i, j \in Tasks : i < j => since[i] >= since[j]
  /\ \A i \in Tasks : since[i] < Period[i]
  /\ lastRun = [i \in Tasks |-> IF tick >= since[i] THEN tick - since[i]
                                                   ELSE tick - since[i] + TICK_MOD]
  /\ ran = [i \in Tasks |-> {}]

TimePasses ==
  /\ gap < MaxGap
  /\ gap' = gap + 1 /\ tick' = Wrap(tick + 1)
  /\ UNCHANGED <<now, pos, lastRun, since, ran>>

StartPass ==
  /\ pos = 0
  /\ pos' = 1 /\ now' = tick /\ gap' = 0
  /\ since' = [i \in Tasks |-> since[i] + gap]
  /\ UNCHANGED <<tick, lastRun, ran>>

Due(i) == Elapsed(now, lastRun[i], Period[i])

\* Mutant: the array is walked from its end.
NextDue_FromEnd(i) == Due(i) /\ \A j \in Tasks : j > i => ~Due(j)

\* The pass skips to the next task that is due.
NextDue(i) == Due(i) /\ \A j \in pos .. (i - 1) : ~Due(j)

RunTask(i) ==
  /\ pos \in 1 .. i /\ NextDue(i)
  /\ pos' = i + 1
  /\ lastRun' = [lastRun EXCEPT ![i] = now]
  /\ since' = [since EXCEPT ![i] = 0]
  /\ ran' = [j \in Tasks |-> IF j = i THEN {} ELSE ran[j] \cup {i}]
  /\ UNCHANGED <<tick, now, gap>>

EndPass ==
  /\ pos > 0
  /\ \A j \in Tasks : j >= pos => ~Due(j)
  /\ pos' = 0
  /\ UNCHANGED <<tick, now, lastRun, gap, since, ran>>

SchedNext ==
  TimePasses \/ StartPass \/ EndPass \/ \E i \in Tasks : RunTask(i)

SchedSpec == SchedInit /\ [][SchedNext]_schedVars

-----------------------------------------------------------------------------
SchedTypeOK ==
  /\ tick \in 0 .. (TICK_MOD - 1) /\ now \in 0 .. (TICK_MOD - 1)
  /\ pos \in 0 .. (Len(Period) + 1) /\ gap \in 0 .. MaxGap
  /\ lastRun \in [Tasks -> 0 .. (TICK_MOD - 1)]
  /\ since \in [Tasks -> Nat]
  /\ ran \in [Tasks -> SUBSET Tasks]

(* Cpu0_Main.c:170-175 and Housekeeping.c:50-53 rely on the order of       *)
(* registration: a task registered earlier, with a period not longer, has  *)
(* run between any two dispatches of the later one, and before its first,  *)
(* however long other tasks stall the core.  So no window of the           *)
(* diagnosis is ever without the sensor read it judges.                    *)
SampledBeforeUse ==
  [][\A i, j \in Tasks :
       i < j /\ Period[i] <= Period[j] /\ RunTask(j) => i \in ran[j]]_schedVars

(* A task is dispatched neither before its period has really passed nor    *)
(* later than one gap after it, also when the counter turns over.          *)
ReleasedOnTime ==
  [][\A i \in Tasks :
       RunTask(i) => since[i] >= Period[i] /\ since[i] < Period[i] + MaxGap]_schedVars
=============================================================================
