--------------------------- MODULE ImuPathProofs ---------------------------
(***************************************************************************)
(* RUNNING is given up within FedBound periods of the last usable input,   *)
(* and while it lasts the tick counter cannot go round unnoticed: each of  *)
(* the two facts needs the other.  What holds of the clocks is stated for  *)
(* RUNNING only; out of it the tick ages may be anything.                  *)
(***************************************************************************)
EXTENDS ImuPath, TLAPS

ClockTypes ==
  /\ stale \in 0 .. TICK_MOD - 1
  /\ lastAge \in 0 .. TICK_MOD - 1
  /\ lastTrue \in 0 .. TICK_MOD
  /\ gap \in 0 .. TICK_MOD
  /\ lag \in 0 .. MaxGap
  /\ newEdge \in BOOLEAN

StatusTypes ==
  /\ s_ahrsState \in {"CALIBRATING", "ALIGNING", "RUNNING", "NO_SENSOR"}
  /\ s_faultHoldS \in 0 .. AHRS_FAULT_HOLD
  /\ sinceUsable \in 0 .. FedBound + 1

\* An edge not yet consumed came after the last dispatch.
EdgeIsFresh == newEdge => stale <= lag

\* The tick ages are the true ones, with an edge taken or a duplicate dropped.
TrueAges ==
  /\ lastAge = lastTrue
  /\ IF newEdge THEN gap + stale = lastTrue /\ gap >= 1
     ELSE stale <= lastTrue /\ lastTrue <= stale + NAVTASK_DT_MIN - 1

\* What the fault hold says of the time since the last usable input.
HoldCounts ==
  /\ s_faultHoldS < AHRS_FAULT_HOLD
  /\ sinceUsable <= MaxGap * s_faultHoldS + lastTrue
  /\ sinceUsable <= MaxGap * s_faultHoldS + NAVTASK_NO_EDGE_TIMEOUT
                      + NAVTASK_DT_MIN - 1 + lag
  /\ lastTrue <= sinceUsable + MaxGap

IInv ==
  /\ ClockTypes
  /\ StatusTypes
  /\ EdgeIsFresh
  /\ s_ahrsState = "RUNNING" => TrueAges /\ HoldCounts

-----------------------------------------------------------------------------
(* The constants as numbers, and the arithmetic the steps rest on.         *)
LEMMA Numbers ==
  /\ TICK_MOD \in Nat /\ TICK_MOD > 0
  /\ NAVTASK_DT_MIN \in Nat /\ NAVTASK_DT_MIN > 0
  /\ NAVTASK_DT_MAX \in Nat
  /\ NAVTASK_NO_EDGE_TIMEOUT \in Nat
  /\ AHRS_FAULT_HOLD \in Nat /\ AHRS_FAULT_HOLD > 0
  /\ MaxGap \in Nat /\ MaxGap > 0 /\ MaxGap <= NAVTASK_NO_EDGE_TIMEOUT
  /\ MaxGap * AHRS_FAULT_HOLD \in Nat
  /\ FedBound \in Nat
  /\ FedBound = NAVTASK_NO_EDGE_TIMEOUT + NAVTASK_DT_MIN - 1 + MaxGap * AHRS_FAULT_HOLD
  /\ FedBound + MaxGap < TICK_MOD
<1>1. \A x \in {TICK_MOD, NAVTASK_DT_MIN, NAVTASK_DT_MAX, NAVTASK_NO_EDGE_TIMEOUT,
                AHRS_FAULT_HOLD, MaxGap} : x \in Nat /\ x > 0
  BY ImuAssumption
<1>2. MaxGap * AHRS_FAULT_HOLD \in Nat
  BY <1>1
<1>3. FedBound \in Nat
  BY <1>1, <1>2 DEF FedBound
<1>4. QED
  BY <1>1, <1>2, <1>3, WrapAssumption DEF FedBound

(* A fault of e periods fills the hold by e, and pays for MaxGap times as  *)
(* many; below its limit the hold pays for one dispatch more.              *)
LEMMA HoldPays ==
  ASSUME NEW f \in Nat, NEW e \in Nat
  PROVE  /\ MaxGap * f \in Nat
         /\ MaxGap * (f + e) = MaxGap * f + MaxGap * e
         /\ MaxGap * e >= e
         /\ f < AHRS_FAULT_HOLD => MaxGap * f + MaxGap <= MaxGap * AHRS_FAULT_HOLD
<1> USE Numbers
<1>1. MaxGap * f \in Nat
  OBVIOUS
<1>2. MaxGap * (f + e) = MaxGap * f + MaxGap * e
  OBVIOUS
<1>3. MaxGap * e >= e
  OBVIOUS
<1>4. ASSUME f < AHRS_FAULT_HOLD
      PROVE  MaxGap * f + MaxGap <= MaxGap * AHRS_FAULT_HOLD
  <2> DEFINE rest == AHRS_FAULT_HOLD - (f + 1)
  <2>1. rest \in Nat /\ AHRS_FAULT_HOLD = f + 1 + rest
    BY <1>4
  <2>2. MaxGap * rest \in Nat
    BY <2>1
  <2>3. MaxGap * AHRS_FAULT_HOLD = MaxGap * f + MaxGap + MaxGap * rest
    BY <2>1
  <2>4. QED
    BY <1>1, <2>2, <2>3
<1>5. QED
  BY <1>1, <1>2, <1>3, <1>4

LEMMA TickAges ==
  ASSUME NEW a \in 0 .. TICK_MOD - 1
  PROVE  /\ Later(a) \in 0 .. TICK_MOD - 1
         /\ Later(a) <= a + 1
         /\ a + 1 < TICK_MOD => Later(a) = a + 1
<1>1. CASE a + 1 < TICK_MOD
  BY <1>1, Numbers DEF Later
<1>2. CASE a + 1 = TICK_MOD
  <2>1. Later(a) = 0
    BY <1>2, Numbers DEF Later
  <2>2. QED
    BY <1>2, <2>1, Numbers
<1>3. QED
  BY <1>1, <1>2, Numbers

LEMMA SinceIsDifference ==
  ASSUME NEW a \in 0 .. TICK_MOD - 1, NEW b \in 0 .. TICK_MOD - 1, b <= a
  PROVE  Since(a, b) = a - b
<1> DEFINE d == a - b
<1>1. d \in 0 .. TICK_MOD - 1 /\ TICK_MOD \in Nat /\ TICK_MOD > 0
  BY Numbers
<1>2. (d + TICK_MOD) % TICK_MOD = d
  <2> HIDE DEF d
  <2>1. QED
    BY <1>1
<1>3. QED
  BY <1>2 DEF Since

LEMMA SinceIsAge ==
  ASSUME NEW a \in 0 .. TICK_MOD - 1, NEW b \in 0 .. TICK_MOD - 1
  PROVE  Since(a, b) \in 0 .. TICK_MOD - 1
<1> DEFINE d == a - b + TICK_MOD
<1>1. d \in Int /\ TICK_MOD \in Nat /\ TICK_MOD > 0
  BY Numbers
<1>2. d % TICK_MOD \in 0 .. TICK_MOD - 1
  <2> HIDE DEF d
  <2>1. QED
    BY <1>1
<1>3. QED
  BY <1>2 DEF Since

-----------------------------------------------------------------------------
(* An edge consumed while RUNNING is no longer ago than the tick ages say. *)
LEMMA ElapsedIsGap ==
  ASSUME IInv, s_ahrsState = "RUNNING", newEdge
  PROVE  elapsedTime = gap /\ gap \in Nat /\ gap >= 1
<1>1. /\ stale \in 0 .. TICK_MOD - 1 /\ lastAge \in 0 .. TICK_MOD - 1 /\ gap \in Nat
      /\ stale <= lastAge /\ lastAge - stale = gap /\ gap >= 1
  BY Numbers DEF IInv, ClockTypes, TrueAges
<1>2. Since(lastAge, stale) = gap
  BY <1>1, SinceIsDifference
<1>3. QED
  BY <1>1, <1>2 DEF elapsedTime

LEMMA InitInv == Init => IInv
<1> SUFFICES ASSUME Init PROVE IInv
  OBVIOUS
<1>1. /\ stale \in 0 .. TICK_MOD - 1 /\ lastAge = stale
      /\ gap = 0 /\ lastTrue = TICK_MOD /\ lag = 0
      /\ s_ahrsState = "CALIBRATING" /\ s_faultHoldS = 0 /\ sinceUsable = 0
  BY Zenon DEF Init
<1>2. newEdge = FALSE
  BY Zenon DEF Init
<1>3. newEdge \in BOOLEAN
  BY <1>2
<1>4. ClockTypes
  BY <1>1, <1>3, Numbers DEF ClockTypes
<1>5. StatusTypes
  BY <1>1, Numbers DEF StatusTypes
<1>6. QED
  BY <1>1, <1>2, <1>4, <1>5 DEF IInv, EdgeIsFresh

(* Time passes.  While RUNNING no age comes near the end of the counter.   *)
LEMMA TickInv == ASSUME IInv, Tick PROVE IInv'
<1> USE Numbers
<1>1. /\ stale' = Later(stale) /\ lastAge' = Later(lastAge) /\ lag' = lag + 1 /\ lag < MaxGap
      /\ lastTrue' = AtMost(lastTrue + 1, TICK_MOD)
      /\ UNCHANGED <<newEdge, gap, s_ahrsState, s_faultHoldS>>
  BY DEF Tick, ahrs
<1>2. /\ stale' \in 0 .. TICK_MOD - 1 /\ stale' <= stale + 1
      /\ lastAge' \in 0 .. TICK_MOD - 1
  BY <1>1, TickAges DEF IInv, ClockTypes
<1>3. ClockTypes'
  BY <1>1, <1>2 DEF IInv, ClockTypes, AtMost
<1>4. StatusTypes'
  BY <1>1 DEF IInv, StatusTypes, Tick, AtMost
<1>5. EdgeIsFresh'
  BY <1>1, <1>2 DEF IInv, ClockTypes, EdgeIsFresh
<1>6. ASSUME s_ahrsState' = "RUNNING"
      PROVE  TrueAges' /\ HoldCounts'
  <2> DEFINE paid == MaxGap * s_faultHoldS
  <2>1. /\ s_ahrsState = "RUNNING" /\ TrueAges /\ HoldCounts
        /\ s_faultHoldS \in Nat /\ s_faultHoldS' = s_faultHoldS
        /\ sinceUsable \in Nat /\ lag \in Nat /\ stale \in Nat /\ gap \in Nat
        /\ lastTrue \in Nat
    BY <1>6, <1>1 DEF IInv, StatusTypes, ClockTypes
  <2>2. paid \in Nat /\ paid + MaxGap <= MaxGap * AHRS_FAULT_HOLD
    BY <2>1, HoldPays DEF HoldCounts
  <2>3. /\ sinceUsable <= paid + lastTrue
        /\ sinceUsable <= paid + NAVTASK_NO_EDGE_TIMEOUT + NAVTASK_DT_MIN - 1 + lag
        /\ lastTrue <= sinceUsable + MaxGap
    BY <2>1 DEF HoldCounts
  <2> HIDE DEF paid
  <2>4. sinceUsable + 1 <= FedBound
    BY <1>1, <2>1, <2>2, <2>3
  <2>5. lastTrue + 1 < TICK_MOD
    BY <2>1, <2>3, <2>4
  <2>6. lastTrue' = lastTrue + 1
    BY <1>1, <2>1, <2>5 DEF AtMost
  <2>7. sinceUsable' = sinceUsable + 1
    BY <2>1, <2>4 DEF Tick, AtMost
  <2>8. lastAge = lastTrue /\ stale <= lastTrue
    BY <2>1 DEF TrueAges
  <2>9. lastAge' = lastAge + 1 /\ stale' = stale + 1
    BY <1>1, <2>1, <2>5, <2>8, TickAges DEF IInv, ClockTypes
  <2>10. TrueAges'
    BY <1>1, <2>1, <2>6, <2>8, <2>9 DEF TrueAges
  <2>11. HoldCounts'
    <3>1. (MaxGap * s_faultHoldS)' = paid
      BY <1>1 DEF paid
    <3>2. /\ sinceUsable' <= paid + lastTrue'
          /\ sinceUsable' <= paid + NAVTASK_NO_EDGE_TIMEOUT + NAVTASK_DT_MIN - 1 + lag'
          /\ lastTrue' <= sinceUsable' + MaxGap
      BY <1>1, <2>1, <2>2, <2>3, <2>6, <2>7
    <3>3. QED
      BY <1>1, <2>1, <3>1, <3>2 DEF HoldCounts
  <2>12. QED
    BY <2>10, <2>11
<1>7. QED
  BY <1>3, <1>4, <1>5, <1>6 DEF IInv

(* An edge: what the gate will find is the true time since the last.       *)
LEMMA IsrInv == ASSUME IInv, imuDrdyIsr PROVE IInv'
<1> USE Numbers
<1>1. /\ stale' = 0 /\ newEdge' = TRUE /\ gap' = lastTrue /\ stale # 0
      /\ UNCHANGED <<lastAge, lastTrue, lag, s_ahrsState, s_faultHoldS, sinceUsable>>
  BY DEF imuDrdyIsr, ahrs
<1>2. ClockTypes' /\ StatusTypes' /\ EdgeIsFresh'
  BY <1>1 DEF IInv, ClockTypes, StatusTypes, EdgeIsFresh
<1>3. ASSUME s_ahrsState' = "RUNNING"
      PROVE  TrueAges' /\ HoldCounts'
  <2>1. TrueAges /\ HoldCounts
    BY <1>1, <1>3 DEF IInv
  <2>2. lastTrue >= 1
    BY <1>1, <2>1 DEF IInv, ClockTypes, TrueAges
  <2>3. TrueAges'
    BY <1>1, <2>1, <2>2 DEF IInv, ClockTypes, TrueAges
  <2>4. HoldCounts'
    BY <1>1, <2>1 DEF HoldCounts
  <2>5. QED
    BY <2>3, <2>4
<1>4. QED
  BY <1>2, <1>3 DEF IInv

(* A dispatch with nothing to do: the last edge is within the timeout.     *)
LEMMA QuietInv == ASSUME IInv, Quiet, lag' = 0 PROVE IInv'
<1> USE Numbers
<1>1. /\ ~newEdge /\ stale <= NAVTASK_NO_EDGE_TIMEOUT
      /\ UNCHANGED <<stale, newEdge, lastAge, gap, lastTrue, s_ahrsState, s_faultHoldS,
                     sinceUsable>>
  BY DEF Quiet, TimedOut, edge, ahrs, IInv, ClockTypes
<1>2. ClockTypes' /\ StatusTypes' /\ EdgeIsFresh'
  BY <1>1 DEF IInv, ClockTypes, StatusTypes, EdgeIsFresh
<1>3. ASSUME s_ahrsState' = "RUNNING"
      PROVE  TrueAges' /\ HoldCounts'
  <2> DEFINE paid == MaxGap * s_faultHoldS
  <2>1. TrueAges /\ HoldCounts
    BY <1>1, <1>3 DEF IInv
  <2>2. TrueAges'
    BY <1>1, <2>1 DEF TrueAges
  <2>3. paid \in Nat
    BY HoldPays DEF IInv, StatusTypes
  <2>4. sinceUsable <= paid + lastTrue /\ lastTrue <= stale + NAVTASK_DT_MIN - 1
    BY <1>1, <2>1 DEF HoldCounts, TrueAges
  <2> HIDE DEF paid
  <2>5. sinceUsable <= paid + NAVTASK_NO_EDGE_TIMEOUT + NAVTASK_DT_MIN - 1 + lag'
    BY <1>1, <2>3, <2>4 DEF IInv, ClockTypes, StatusTypes
  <2>6. (MaxGap * s_faultHoldS)' = paid
    BY <1>1 DEF paid
  <2>7. HoldCounts'
    BY <1>1, <2>1, <2>5, <2>6 DEF HoldCounts, paid
  <2>8. QED
    BY <2>2, <2>7
<1>4. QED
  BY <1>2, <1>3 DEF IInv

(* A duplicate moves no clock: the next interval is counted from the edge  *)
(* before it.                                                              *)
LEMMA DuplicateInv == ASSUME IInv, Duplicate, lag' = 0 PROVE IInv'
<1> USE Numbers
<1>1. /\ newEdge /\ newEdge' = FALSE /\ gap' = 0
      /\ UNCHANGED <<stale, lastAge, lastTrue, s_ahrsState, s_faultHoldS, sinceUsable>>
  BY DEF Duplicate, ahrs
<1>2. ClockTypes' /\ StatusTypes' /\ EdgeIsFresh'
  <2>1. newEdge' \in BOOLEAN
    BY <1>1
  <2>2. ClockTypes'
    BY <1>1, <2>1 DEF IInv, ClockTypes
  <2>3. StatusTypes'
    BY <1>1 DEF IInv, StatusTypes
  <2>4. EdgeIsFresh'
    BY <1>1 DEF EdgeIsFresh
  <2>5. QED
    BY <2>2, <2>3, <2>4
<1>3. ASSUME s_ahrsState' = "RUNNING"
      PROVE  TrueAges' /\ HoldCounts'
  <2> DEFINE paid == MaxGap * s_faultHoldS
  <2>1. s_ahrsState = "RUNNING" /\ TrueAges /\ HoldCounts
    BY <1>1, <1>3 DEF IInv
  <2>2. gap < NAVTASK_DT_MIN
    <3>1. elapsedTime = gap
      BY <1>1, <2>1, ElapsedIsGap
    <3>2. QED
      BY <3>1 DEF Duplicate, DtShort
  <2>3. gap \in Nat /\ stale \in Nat /\ lastTrue \in Nat /\ gap + stale = lastTrue
    BY <1>1, <2>1 DEF IInv, ClockTypes, TrueAges
  <2>4. TrueAges'
    BY <1>1, <2>1, <2>2, <2>3 DEF TrueAges
  <2>5. paid \in Nat
    BY HoldPays DEF IInv, StatusTypes
  <2>6. sinceUsable <= paid + lastTrue /\ stale <= MaxGap
    BY <1>1, <2>1 DEF HoldCounts, IInv, ClockTypes, EdgeIsFresh
  <2> HIDE DEF paid
  <2>7. sinceUsable <= paid + NAVTASK_NO_EDGE_TIMEOUT + NAVTASK_DT_MIN - 1 + lag'
    BY <1>1, <2>2, <2>3, <2>5, <2>6 DEF IInv, ClockTypes, StatusTypes
  <2>8. (MaxGap * s_faultHoldS)' = paid
    BY <1>1 DEF paid
  <2>9. HoldCounts'
    BY <1>1, <2>1, <2>7, <2>8 DEF HoldCounts, paid
  <2>10. QED
    BY <2>4, <2>9
<1>4. QED
  BY <1>2, <1>3 DEF IInv

-----------------------------------------------------------------------------
(* Work: the status after the dispatch, and what the estimator was given.  *)

\* elapsedTime is a number whatever the state of the clocks.
LEMMA ElapsedType == ASSUME IInv PROVE elapsedTime \in Nat /\ CallDt \in Nat
<1>1. stale \in 0 .. TICK_MOD - 1 /\ lastAge \in 0 .. TICK_MOD - 1
  BY DEF IInv, ClockTypes
<1>2. Since(lastAge, stale) \in 0 .. TICK_MOD - 1
  BY <1>1, SinceIsAge
<1>3. elapsedTime \in Nat
  BY <1>2, Numbers DEF elapsedTime
<1>4. QED
  BY <1>3 DEF CallDt, NAVTASK_TIMEDOUT_FAULT_DT

(* A usable sample comes with an edge, and empties the fault hold.         *)
LEMMA UsableSample ==
  ASSUME IInv, ahrsInputOk, Work
  PROVE  /\ newEdge /\ s_faultHoldS' = 0
         /\ s_ahrsState' \in {"CALIBRATING", "ALIGNING", "RUNNING", "NO_SENSOR"}
<1>1. newEdge
  <2>1. elapsedTime >= NAVTASK_DT_MIN
    BY Numbers DEF ahrsInputOk, DtValid
  <2>2. QED
    BY <2>1, Numbers DEF elapsedTime
<1>2. \/ Ahrs_sample(CallDt)
      \/ s_faultHoldS' = 0 /\ s_ahrsState' = s_ahrsState
  BY DEF Work, Ahrs_update
<1>3. CASE Ahrs_sample(CallDt)
  BY <1>1, <1>3 DEF Ahrs_sample, Calibrate, Align
<1>4. CASE s_faultHoldS' = 0 /\ s_ahrsState' = s_ahrsState
  BY <1>1, <1>4 DEF IInv, StatusTypes
<1>5. QED
  BY <1>2, <1>3, <1>4

(* Anything else fills it, and a full hold ends RUNNING.                   *)
LEMMA UnusableSample ==
  ASSUME IInv, ~ahrsInputOk, Work
  PROVE  /\ s_faultHoldS' = AtMost(s_faultHoldS + CallDt, AHRS_FAULT_HOLD)
         /\ s_ahrsState' = IF s_faultHoldS' = AHRS_FAULT_HOLD THEN "NO_SENSOR"
                           ELSE s_ahrsState
BY DEF Work, Ahrs_update, Ahrs_fault

LEMMA WorkTypes ==
  ASSUME IInv, Work, lag' = 0
  PROVE  ClockTypes' /\ StatusTypes' /\ EdgeIsFresh'
<1> USE Numbers
<1>1. /\ newEdge' = FALSE /\ gap' = 0 /\ stale' = stale
      /\ lastAge' = IF newEdge THEN stale ELSE lastAge
      /\ lastTrue' = IF newEdge THEN stale ELSE lastTrue
      /\ sinceUsable' = IF ahrsInputOk \/ s_ahrsState' # "RUNNING" THEN 0 ELSE sinceUsable
  BY DEF Work
<1>2. newEdge' \in BOOLEAN
  BY <1>1
<1>3. lastAge' \in 0 .. TICK_MOD - 1 /\ lastTrue' \in 0 .. TICK_MOD
  BY <1>1 DEF IInv, ClockTypes
<1>4. ClockTypes'
  BY <1>1, <1>2, <1>3 DEF IInv, ClockTypes
<1>5. sinceUsable' \in 0 .. FedBound + 1
  BY <1>1 DEF IInv, StatusTypes
<1>6. StatusTypes'
  <2>1. CASE ahrsInputOk
    BY <1>5, <2>1, UsableSample DEF StatusTypes
  <2>2. CASE ~ahrsInputOk
    <3>1. CallDt \in Nat /\ s_faultHoldS \in 0 .. AHRS_FAULT_HOLD
      BY ElapsedType DEF IInv, StatusTypes
    <3>2. s_faultHoldS' \in 0 .. AHRS_FAULT_HOLD
      BY <2>2, <3>1, UnusableSample DEF AtMost
    <3>3. s_ahrsState' \in {"CALIBRATING", "ALIGNING", "RUNNING", "NO_SENSOR"}
      BY <2>2, UnusableSample DEF IInv, StatusTypes
    <3>4. QED
      BY <1>5, <3>2, <3>3 DEF StatusTypes
  <2>3. QED
    BY <2>1, <2>2
<1>7. EdgeIsFresh'
  BY <1>1 DEF EdgeIsFresh
<1>8. QED
  BY <1>4, <1>6, <1>7

(* With usable input all counts start again at the edge consumed.          *)
LEMMA WorkUsable ==
  ASSUME IInv, Work, lag' = 0, ahrsInputOk
  PROVE  TrueAges' /\ HoldCounts'
<1> USE Numbers
<1>1. /\ ~newEdge' /\ gap' = 0 /\ stale' = stale /\ lastAge' = stale /\ lastTrue' = stale
      /\ sinceUsable' = 0 /\ s_faultHoldS' = 0
  BY UsableSample DEF Work
<1>2. stale \in Nat /\ stale <= MaxGap
  BY UsableSample DEF IInv, ClockTypes, EdgeIsFresh
<1>3. TrueAges'
  BY <1>1, <1>2 DEF TrueAges
<1>4. MaxGap * s_faultHoldS' = 0
  BY <1>1
<1>5. QED
  BY <1>1, <1>2, <1>3, <1>4 DEF HoldCounts

(* An edge with unusable input: the hold takes the whole interval.         *)
LEMMA WorkFaulty ==
  ASSUME IInv, Work, lag' = 0, ~ahrsInputOk, newEdge, s_ahrsState' = "RUNNING"
  PROVE  TrueAges' /\ HoldCounts'
<1> USE Numbers
<1>1. /\ ~newEdge' /\ gap' = 0 /\ stale' = stale /\ lastAge' = stale /\ lastTrue' = stale
      /\ sinceUsable' = sinceUsable
  BY DEF Work
<1>2. s_ahrsState = "RUNNING" /\ s_faultHoldS' # AHRS_FAULT_HOLD
  BY UnusableSample
<1>3. TrueAges /\ HoldCounts /\ elapsedTime = gap /\ gap \in Nat
  BY <1>2, ElapsedIsGap DEF IInv
<1>4. /\ s_faultHoldS \in Nat /\ sinceUsable \in Nat /\ stale \in Nat /\ lastTrue \in Nat
      /\ stale <= MaxGap
  BY DEF IInv, ClockTypes, StatusTypes, EdgeIsFresh
<1>5. s_faultHoldS' = s_faultHoldS + gap /\ s_faultHoldS' < AHRS_FAULT_HOLD
  <2>1. s_faultHoldS' = AtMost(s_faultHoldS + gap, AHRS_FAULT_HOLD)
    BY <1>3, UnusableSample DEF CallDt
  <2>2. QED
    BY <1>2, <1>3, <1>4, <2>1 DEF AtMost
<1>6. TrueAges'
  BY <1>1, <1>4 DEF TrueAges
<1>7. HoldCounts'
  <2> DEFINE paid == MaxGap * s_faultHoldS
  <2> DEFINE more == MaxGap * gap
  <2>1. paid \in Nat /\ more \in Nat /\ more >= gap
    BY <1>3, <1>4, HoldPays
  <2>2. MaxGap * s_faultHoldS' = paid + more
    BY <1>3, <1>4, <1>5, HoldPays
  <2>3. sinceUsable <= paid + lastTrue /\ lastTrue = gap + stale
    BY <1>3 DEF HoldCounts, TrueAges
  <2> HIDE DEF paid, more
  <2>4. sinceUsable <= paid + more + stale
    BY <1>3, <1>4, <2>1, <2>3
  <2>5. /\ sinceUsable' <= MaxGap * s_faultHoldS' + lastTrue'
        /\ sinceUsable' <= MaxGap * s_faultHoldS' + NAVTASK_NO_EDGE_TIMEOUT
                             + NAVTASK_DT_MIN - 1 + lag'
        /\ lastTrue' <= sinceUsable' + MaxGap
    BY <1>1, <1>4, <2>1, <2>2, <2>4
  <2>6. QED
    BY <1>5, <2>5 DEF HoldCounts
<1>8. QED
  BY <1>6, <1>7

(* No edge for longer than the timeout: the hold takes one period for at   *)
(* most MaxGap that have passed.                                           *)
LEMMA WorkTimedOut ==
  ASSUME IInv, Work, lag' = 0, ~ahrsInputOk, ~newEdge, s_ahrsState' = "RUNNING"
  PROVE  TrueAges' /\ HoldCounts'
<1> USE Numbers
<1>1. /\ ~newEdge' /\ stale' = stale /\ lastAge' = lastAge /\ lastTrue' = lastTrue
      /\ sinceUsable' = sinceUsable
  BY DEF Work
<1>2. s_ahrsState = "RUNNING" /\ s_faultHoldS' # AHRS_FAULT_HOLD
  BY UnusableSample
<1>3. TrueAges /\ HoldCounts
  BY <1>2 DEF IInv
<1>4. /\ s_faultHoldS \in Nat /\ sinceUsable \in Nat /\ lastTrue \in Nat
      /\ lag \in Nat /\ lag <= MaxGap
  BY DEF IInv, ClockTypes, StatusTypes
<1>5. s_faultHoldS' = s_faultHoldS + 1 /\ s_faultHoldS' < AHRS_FAULT_HOLD
  <2>1. s_faultHoldS' = AtMost(s_faultHoldS + 1, AHRS_FAULT_HOLD)
    BY UnusableSample DEF CallDt, NAVTASK_TIMEDOUT_FAULT_DT
  <2>2. QED
    BY <1>2, <1>4, <2>1 DEF AtMost
<1>6. TrueAges'
  BY <1>1, <1>3 DEF TrueAges
<1>7. HoldCounts'
  <2> DEFINE paid == MaxGap * s_faultHoldS
  <2>1. paid \in Nat
    BY <1>4, HoldPays
  <2>2. MaxGap * s_faultHoldS' = paid + MaxGap
    <3>1. MaxGap * (s_faultHoldS + 1) = paid + MaxGap * 1
      BY <1>4, HoldPays
    <3>2. QED
      BY <1>5, <3>1
  <2>3. /\ sinceUsable <= paid + lastTrue
        /\ sinceUsable <= paid + NAVTASK_NO_EDGE_TIMEOUT + NAVTASK_DT_MIN - 1 + lag
        /\ lastTrue <= sinceUsable + MaxGap
    BY <1>3 DEF HoldCounts
  <2> HIDE DEF paid
  <2>4. /\ sinceUsable' <= MaxGap * s_faultHoldS' + lastTrue'
        /\ sinceUsable' <= MaxGap * s_faultHoldS' + NAVTASK_NO_EDGE_TIMEOUT
                             + NAVTASK_DT_MIN - 1 + lag'
        /\ lastTrue' <= sinceUsable' + MaxGap
    BY <1>1, <1>4, <2>1, <2>2, <2>3
  <2>5. QED
    BY <1>5, <2>4 DEF HoldCounts
<1>8. QED
  BY <1>6, <1>7

LEMMA WorkInv == ASSUME IInv, Work, lag' = 0 PROVE IInv'
BY WorkTypes, WorkUsable, WorkFaulty, WorkTimedOut DEF IInv

(* What befalls the sensor touches no clock and no status.                 *)
LEMMA OtherInv ==
  ASSUME IInv, UNCHANGED <<edge, lag, ahrs, sinceUsable>>
  PROVE  IInv'
<1>1. UNCHANGED <<stale, newEdge, lastAge, gap, lastTrue, lag, s_ahrsState, s_faultHoldS,
                  sinceUsable>>
  BY DEF edge, ahrs
<1>2. ClockTypes' /\ StatusTypes' /\ EdgeIsFresh'
  BY <1>1 DEF IInv, ClockTypes, StatusTypes, EdgeIsFresh
<1>3. QED
  BY <1>1, <1>2 DEF IInv, TrueAges, HoldCounts

(* IInv is inductive.                                                      *)
LEMMA Inductive == IInv /\ [Next]_vars => IInv'
<1> SUFFICES ASSUME IInv, [Next]_vars PROVE IInv'
  OBVIOUS
<1>1. CASE NavTask_step
  <2>1. lag' = 0 /\ (Quiet \/ Duplicate \/ Work)
    BY <1>1 DEF NavTask_step
  <2>2. QED
    BY <2>1, QuietInv, DuplicateInv, WorkInv
<1>2. CASE Tick
  BY <1>2, TickInv
<1>3. CASE imuDrdyIsr
  BY <1>3, IsrInv
<1>4. CASE Disturbance
  <2>1. UNCHANGED <<edge, lag, ahrs, sinceUsable>>
    BY <1>4 DEF Disturbance
  <2>2. QED
    BY <2>1, OtherInv
<1>5. CASE UNCHANGED vars
  <2>1. UNCHANGED <<edge, lag, ahrs, sinceUsable>>
    BY <1>5 DEF vars
  <2>2. QED
    BY <2>1, OtherInv
<1>6. QED
  BY <1>1, <1>2, <1>3, <1>4, <1>5 DEF Next

(* The clocks, the status and the fault hold agree in every reachable      *)
(* state: NavTask.c's edge gate and Ahrs.c's fault hold together.          *)
THEOREM ClocksAgree == Spec => []IInv
<1>1. QED
  BY InitInv, Inductive, PTL DEF Spec

(* The status RUNNING of Ahrs_getStatus is given up within the edge        *)
(* timeout and the fault hold of the last usable input, however it failed  *)
(* and whatever the wires and the driver did in between.                   *)
THEOREM FedWhileRunning == Spec => []RunningMeansFed
<1>1. IInv => RunningMeansFed
  <2> SUFFICES ASSUME IInv, s_ahrsState = "RUNNING" PROVE sinceUsable <= FedBound
    BY DEF RunningMeansFed
  <2> USE Numbers
  <2> DEFINE paid == MaxGap * s_faultHoldS
  <2>1. HoldCounts /\ s_faultHoldS \in Nat /\ sinceUsable \in Nat /\ lag \in 0 .. MaxGap
    BY DEF IInv, StatusTypes, ClockTypes
  <2>2. paid \in Nat /\ paid + MaxGap <= MaxGap * AHRS_FAULT_HOLD
    BY <2>1, HoldPays DEF HoldCounts
  <2>3. sinceUsable <= paid + NAVTASK_NO_EDGE_TIMEOUT + NAVTASK_DT_MIN - 1 + lag
    BY <2>1 DEF HoldCounts
  <2> HIDE DEF paid
  <2>4. QED
    BY <2>1, <2>2, <2>3
<1>2. QED
  BY <1>1, ClocksAgree, PTL

(* The interval NavTask_step hands to Ahrs_update while it runs is the     *)
(* true time between the edge before and this one: no duplicate shortens   *)
(* it, and no turn of the STM counter passes for a short one.              *)
THEOREM TrueIntervals == Spec => IntegratesTrueInterval
<1>1. IInv /\ [Next]_vars
        => [Work /\ s_ahrsState = "RUNNING" /\ ahrsInputOk => elapsedTime = gap]_vars
  BY UsableSample, ElapsedIsGap
<1>2. QED
  BY <1>1, ClocksAgree, PTL DEF Spec, IntegratesTrueInterval
=============================================================================
