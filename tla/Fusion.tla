------------------------------- MODULE Fusion -------------------------------
(***************************************************************************)
(* The outlier gates of fusion.c and the two ways out of a lasting         *)
(* disagreement: every rejection inflates the covariance, so the gate      *)
(* opens, and FUSION_REJECT_MAX rejections in a row re-acquire the state   *)
(* from the sensor.                                                        *)
(*                                                                         *)
(* A quantity is its error against the good samples, in steps of a gate; a *)
(* covariance is the level of the gate it gives, one more per inflation.   *)
(* Level 0 is the floor, and where an accepted sample leaves the gate (the *)
(* variance is then below that of the sample); FUSION_P_MAX holds it at    *)
(* GATE_MAX, and FAR lies beyond.  How much of a residual an accepted      *)
(* sample takes away is open; the velocity that comes with it is right.    *)
(* A behaviour follows the down channel or the two horizontal ones,        *)
(* neither of which reads the other.                                       *)
(***************************************************************************)
EXTENDS Integers

CONSTANTS
  FUSION_REJECT_MAX,
  FUSION_MEASB_MAX,
  GATE_MAX,         \* the gate at FUSION_P_MAX
  FAR,              \* bound: the largest error, standing for all larger ones
  VEL_MAX           \* bound: the largest error of a velocity

ASSUME FusionAssumption ==
  /\ {FUSION_MEASB_MAX, GATE_MAX, FAR, VEL_MAX} \subseteq Nat \ {0}
  /\ FUSION_REJECT_MAX \in Nat /\ GATE_MAX < FUSION_REJECT_MAX
  /\ FUSION_MEASB_MAX <= GATE_MAX /\ GATE_MAX + FUSION_MEASB_MAX < FAR

VARIABLES
  axis,            \* "down" or "horizontal": what the behaviour follows
  chD, chN, chE,   \* s_chD, s_chN, s_chE
  calm             \* the environment: from here on every sample is good

fusionVars == <<axis, chD, chN, chE, calm>>

Abs(x) == IF x < 0 THEN -x ELSE x
Lesser(a, b) == IF a < b THEN a ELSE b
Bounded(x, b) == IF x > b THEN b ELSE IF x < -b THEN -b ELSE x

\* What an accepted sample z may leave of an estimate x: nearer, on the same side.
Nearer(x, z) == IF x = z THEN {z} ELSE IF x < z THEN (x + 1) .. z ELSE z .. (x - 1)

-----------------------------------------------------------------------------
(* One channel.  gate has a level for each combination of the state a      *)
(* sensor sees: "pos", "vel", and "sum", the position with its measurement *)
(* bias.  The horizontal channels have no such sensor, and a bias of 0.    *)

Level0(ch) == [h \in DOMAIN ch.gate |-> 0]

Seen(ch, h) ==
  CASE h = "pos" -> ch.pos [] h = "vel" -> ch.vel [] h = "sum" -> ch.pos + ch.bias

Accepts(ch, h, z) == Abs(z - Seen(ch, h)) <= ch.gate[h]

(* What becomes of an estimate that accepts z.  A correction of the        *)
(* position takes the wrong velocity with it.  The barometer sees the sum  *)
(* only: any split of it may come out.  A fix corrects the position at the *)
(* expense of the bias; it moves the sum too, by no more, when the         *)
(* barometer has been refused since it last fixed the sum.                 *)
SumsAfter(ch, x, z) ==
  LET sum == Seen(ch, "sum")
  IN  IF ch.gate["sum"] = 0 \/ x = ch.pos THEN {sum}
      ELSE {s \in Nearer(sum, z) : Abs(s - sum) <= Abs(x - ch.pos)}

Corrected(ch, h, z) ==
  CASE h = "vel" -> {[ch EXCEPT !.vel = z]}
    [] h = "sum" -> {[ch EXCEPT !.pos = s - b, !.bias = b, !.vel = 0] :
                       s \in Nearer(Seen(ch, h), z), b \in (-FAR) .. FAR}
    [] h = "pos" /\ "sum" \notin DOMAIN ch.gate ->
         {[ch EXCEPT !.pos = x, !.vel = 0] : x \in Nearer(ch.pos, z)}
    [] h = "pos" /\ "sum" \in DOMAIN ch.gate ->
         UNION {{[ch EXCEPT !.pos = x, !.bias = s - x, !.vel = 0] :
                   s \in SumsAfter(ch, x, z)} : x \in Nearer(ch.pos, z)}

fusion_chanUpdate(ch, h, z) ==
  IF Accepts(ch, h, z)
    THEN {[c EXCEPT !.gate[h] = 0, !.rejectRun = 0] : c \in Corrected(ch, h, z)}
    ELSE {[ch EXCEPT !.rejectRun = Lesser(@ + 1, FUSION_REJECT_MAX)]}

\* Mutant: a refused sample changes nothing.
fusion_chanInflate_Off(ch) == ch

\* Widen the covariance after a rejection.
fusion_chanInflate(ch) == [ch EXCEPT !.gate = [h \in DOMAIN @ |-> @[h] + 1]]

\* The whole matrix is scaled by the factor that brings the worst variance to FUSION_P_MAX;
\* no step raises a gate by more than one level.
fusion_chanClampCov(ch) ==
  IF \A h \in DOMAIN ch.gate : ch.gate[h] <= GATE_MAX THEN ch
  ELSE [ch EXCEPT !.gate = [h \in DOMAIN @ |-> IF @[h] > 0 THEN @[h] - 1 ELSE 0]]

\* The predictions until the next sample.
fusion_chanPredict(ch) ==
  fusion_chanClampCov([ch EXCEPT !.pos = Bounded(@ + ch.vel, FAR)])

\* The state and the covariance go back to their priors, at the sensor's position.
Reacquired(ch, z) ==
  [ch EXCEPT !.pos = z, !.vel = 0, !.bias = 0, !.gate = Level0(ch), !.rejectRun = 0]

\* Mutant: the excess is thrown away.
fusion_boundMeasBias_Off(ch) == ch

\* What the bias has too much goes into the position, which leaves the sum.
fusion_boundMeasBias(ch) ==
  LET b == Bounded(ch.bias, FUSION_MEASB_MAX)
  IN  [ch EXCEPT !.pos = @ + ch.bias - b, !.bias = b]

-----------------------------------------------------------------------------
(* Fusion_update with a new barometer sample.                              *)

fusion_correctBaro(z) ==
  \E c \in fusion_chanUpdate(chD, "sum", z) :
    LET corrected ==
          IF Accepts(chD, "sum", z) THEN c
          ELSE IF c.rejectRun >= FUSION_REJECT_MAX THEN Reacquired(c, z)
          ELSE fusion_chanInflate(c)
    IN  chD' = fusion_chanPredict(fusion_boundMeasBias(corrected))

(* With a new fix: the part of fusion_correctGnss for each axis.  The run  *)
(* of chE is kept, but only that of chN is tested.                         *)

fusion_correctAltitude(z) ==
  \E c \in fusion_chanUpdate(chD, "pos", z) : chD' = fusion_chanPredict(c)

Fused(ch, z, v, ok, lost) ==
  LET AfterPositions(c) ==
        IF ok THEN c ELSE IF lost THEN Reacquired(c, z) ELSE fusion_chanInflate(c)
  IN  {fusion_chanPredict(c) :
         c \in UNION {fusion_chanUpdate(AfterPositions(p), "vel", v) :
                        p \in fusion_chanUpdate(ch, "pos", z)}}

fusion_correctGnss(zN, zE, vN, vE) ==
  LET ok   == Accepts(chN, "pos", zN) /\ Accepts(chE, "pos", zE)
      lost == \E c \in fusion_chanUpdate(chN, "pos", zN) : c.rejectRun >= FUSION_REJECT_MAX
  IN  /\ chN' \in Fused(chN, zN, vN, ok, lost)
      /\ chE' \in Fused(chE, zE, vE, ok, lost)

-----------------------------------------------------------------------------
(* The samples, and the world.                                             *)

Chan(hs) == [pos |-> 0, vel |-> 0, bias |-> 0, gate |-> [h \in hs |-> 0], rejectRun |-> 0]

Fusion_init ==
  /\ axis \in {"down", "horizontal"}
  /\ chD = Chan({"pos", "sum"}) /\ chN = Chan({"pos", "vel"}) /\ chE = Chan({"pos", "vel"})
  /\ calm = FALSE

\* A corrupt sample may say anything; the good ones say 0.
Samples(all) == IF calm THEN {0} ELSE all

Baro ==
  /\ axis = "down"
  /\ \E z \in Samples({0, GATE_MAX, FAR}) : fusion_correctBaro(z)
  /\ UNCHANGED <<axis, chN, chE, calm>>

Altitude ==
  /\ axis = "down"
  /\ \E z \in Samples({0, FAR}) : fusion_correctAltitude(z)
  /\ UNCHANGED <<axis, chN, chE, calm>>

Fix ==
  /\ axis = "horizontal"
  /\ \E zN, zE \in Samples({0, FAR}), vN, vE \in Samples({0, VEL_MAX}) :
       fusion_correctGnss(zN, zE, vN, vE)
  /\ UNCHANGED <<axis, chD, calm>>

\* A while without accepted samples: a wrong attitude accelerates the channel, or a knock does,
\* and its covariance grows.
Coasted(ch, vs) ==
  {fusion_chanPredict([ch EXCEPT !.vel = v, !.gate = [h \in DOMAIN ch.gate |-> @[h] + d]]) :
     v \in vs, d \in {0, 1}}

Coast ==
  /\ ~calm
  /\ \/ /\ axis = "down" /\ chD' \in Coasted(chD, (-VEL_MAX) .. VEL_MAX)
        /\ UNCHANGED <<chN, chE>>
     \/ /\ axis = "horizontal" /\ chN' \in Coasted(chN, {0, 1, VEL_MAX})
        /\ UNCHANGED <<chD, chE>>
     \/ /\ axis = "horizontal" /\ chE' \in Coasted(chE, {0, 1, VEL_MAX})
        /\ UNCHANGED <<chD, chN>>
  /\ UNCHANGED <<axis, calm>>

CalmsDown == ~calm /\ calm' = TRUE /\ UNCHANGED <<axis, chD, chN, chE>>

FusionNext == Baro \/ Altitude \/ Fix \/ Coast \/ CalmsDown

\* The barometer task runs at 50 Hz and the receiver delivers fixes at 10 Hz for ever.
FusionSpec == /\ Fusion_init /\ [][FusionNext]_fusionVars
              /\ WF_fusionVars(calm /\ Baro) /\ WF_fusionVars(calm /\ Fix)

-----------------------------------------------------------------------------
(* A diverged filter must recover (docs/FUSION_SPEC.md, 2.3): whatever the  *)
(* samples and the accelerations have been, once every sample is good the  *)
(* altitude ends within what the weather may move the barometer, and       *)
(* agrees with it.  A drift that outruns the opening gate needs the        *)
(* re-acquisition, the unobservable split of the sum needs the bound, and  *)
(* fixes that are accepted in between must not keep either away.           *)
VerticalRecovers ==
  <>(axis = "down" /\ calm) =>
    <>[](Abs(chD.pos) <= FUSION_MEASB_MAX /\ chD.pos + chD.bias = 0)

Tracking == chN.pos = 0 /\ chE.pos = 0

(* The horizontal filter recovers from an error its widest gate admits,    *)
(* when the gate opens, and from a north channel so wrong in its velocity  *)
(* too that no velocity sample ever ends the run of rejections.            *)
WithinReach   == \A ch \in {chN, chE} : ch.pos <= GATE_MAX /\ ch.vel = 0
NorthRunsAway == chN.pos > GATE_MAX /\ chN.vel > GATE_MAX + 1

HorizontalRecovers ==
  [](axis = "horizontal" /\ calm /\ (WithinReach \/ NorthRunsAway) => <>[]Tracking)

(* The same requirement without those conditions: the estimator must not   *)
(* reach a state where it rejects every subsequent measurement for ever    *)
(* (docs/FUSION_SPEC.md, 2.3).  The code does: the velocity sample that    *)
(* follows every position in fusion_correctGnss ends the run it began, and *)
(* the run of chE is never tested.                                         *)
DivergedFilterRecovers ==
  <>(axis = "horizontal" /\ calm) => <>[]Tracking
=============================================================================
