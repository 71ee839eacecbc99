------------------------------ MODULE I2cSensor ------------------------------
(***************************************************************************)
(* A sensor on the I2C bus and its driver: Bmp581.c and Mmc5983.c, which   *)
(* are the same machine over different registers.  The driver owns the     *)
(* presence of the part: a failed read drops it, a probe every             *)
(* RECOVERY_PERIOD calls brings it back through a reset, the reads that    *)
(* judge the part (its identity; the BMP581's status as well) and the      *)
(* configuration writes, of which the last one starts the conversions.     *)
(*                                                                         *)
(* One I2C transaction per step: while a bring-up is under way the part    *)
(* may lose power, come back with its registers at their defaults, freeze, *)
(* hold SDA or be busy between any two of them.                            *)
(***************************************************************************)
EXTENDS I2c, FiniteSets

CONSTANTS
  RECOVERY_PERIOD,  \* calls between two probes of an absent part
  STATUS_READS,     \* status reads of the bring-up: 1 BMP581, 0 MMC5983MA
  CONFIG_WRITES,    \* configuration registers, written in order
  Shown             \* those whose absence the data show; see Sample

ASSUME SensorAssumption ==
  /\ {RECOVERY_PERIOD, CONFIG_WRITES} \subseteq Nat \ {0} /\ STATUS_READS \in {0, 1}
  /\ Shown \subseteq 1 .. CONFIG_WRITES /\ CONFIG_WRITES \in Shown

Registers == 1 .. CONFIG_WRITES

\* The steps of a bring-up: the reset, the reads, the writes.
RESET      == 1
IDENTITY   == 2
LAST_READ  == IDENTITY + STATUS_READS
LAST_WRITE == LAST_READ + CONFIG_WRITES

VARIABLES
  bus,
  part,      \* the sensor: powered, the registers set, frozen, its last measurement
  present,   \* s_bmp581Present
  recovery,  \* s_bmp581Recovery
  step       \* of the bring-up; 0 when none is under way

busVars    == <<bus, part>>
driverVars == <<present, recovery, step>>
sensorVars == <<busVars, driverVars>>

Reset(p) == [p EXCEPT !.on = TRUE, !.set = {}, !.frozen = FALSE]

Converting(p) == p.on /\ CONFIG_WRITES \in p.set

\* The low bits carry noise, so that a live part gives another value each
\* time (1 and 2 stand for any two).
Measured(p) == IF p.frozen THEN p.sample ELSE 3 - p.sample

(* What a data read returns.  A part that does not convert gives its reset *)
(* value, 0 here, which lies outside the plausible band (127.5 degC of the *)
(* BMP581, 8 G on each axis of the MMC5983MA).  Without one of the other   *)
(* registers of Shown it is implausible too, but moves: with press_en      *)
(* clear the pressure stays at its reset value and the temperature does    *)
(* not.  Without one outside Shown (the filters, Auto_SR) the data look    *)
(* like any other.                                                         *)
Sample(p) ==
  IF ~Converting(p) THEN 0
  ELSE IF Shown \subseteq p.set THEN Measured(p) ELSE 0 - Measured(p)

Bmp581_plausible(sample) == sample > 0

-----------------------------------------------------------------------------
(* The world.                                                              *)

PowerOff == part.on /\ part' = [Reset(part) EXCEPT !.on = FALSE] /\ UNCHANGED bus
PowerOn  == ~part.on /\ part' = Reset(part) /\ UNCHANGED bus

\* A brown-out too short for any transaction to fail.
BrownOut == part.on /\ part' = Reset(part) /\ UNCHANGED bus

\* Bound: a part that is wrong already does not freeze as well.
Freeze ==
  /\ part.on /\ Shown \subseteq part.set /\ ~part.frozen
  /\ part' = [part EXCEPT !.frozen = TRUE]
  /\ UNCHANGED bus

BusTrouble ==
  /\ bus = FreeBus
  /\ bus' \in Buses \ {FreeBus}
  /\ UNCHANGED part

Repaired == Shorted(bus) /\ bus' = FreeBus /\ UNCHANGED part

SensorWorld ==
  /\ PowerOff \/ PowerOn \/ BrownOut \/ Freeze \/ BusTrouble \/ Repaired
  /\ UNCHANGED driverVars

-----------------------------------------------------------------------------
(* The driver.                                                             *)

ProbeDue == recovery + 1 >= RECOVERY_PERIOD

(* A data read, when the part is taken to be there.  ok and the sample     *)
(* are what Bmp581_read returns.                                           *)
ReadData(ok, sample) ==
  /\ present
  /\ LET r == I2c_readReg(bus, part.on)
     IN  /\ ok = r.ok /\ bus' = r.bus
         /\ sample = Sample(part)
         /\ part' = [part EXCEPT !.sample =
                       IF r.ok /\ Converting(part) THEN Measured(part) ELSE @]
         /\ present' = r.ok
         /\ recovery' = IF r.ok THEN recovery ELSE 0
  /\ step' = 0

(* A call while the part is absent: count, or read its identity; a valid   *)
(* one begins the bring-up.  Another part may sit at the address.          *)
Absent(valid) ==
  /\ ~present
  /\ \/ /\ ~ProbeDue
        /\ recovery' = recovery + 1 /\ step' = 0
        /\ UNCHANGED bus
     \/ /\ ProbeDue
        /\ recovery' = 0
        /\ LET r == I2c_readReg(bus, part.on)
           IN  bus' = r.bus /\ step' = IF r.ok /\ valid THEN RESET ELSE 0
  /\ UNCHANGED <<part, present>>

InitResult(ok) == ok /\ step = LAST_WRITE

(* One transaction of Bmp581_init.  The result of the reset is ignored;    *)
(* the first later failure ends it without presence, and so does a value   *)
(* that is not valid: of the identity, or of the status, which shows       *)
(* whether the part has loaded its trim without error.                     *)
Bmp581_initStep(valid) ==
  /\ step > 0
  /\ LET reads == step \in IDENTITY .. LAST_READ
         r  == IF reads THEN I2c_readReg(bus, part.on) ELSE I2c_writeReg(bus, part.on)
         ok == step = RESET \/ (r.ok /\ (reads => valid))
     IN  /\ bus' = r.bus
         /\ part' = IF ~r.ok \/ reads THEN part
                    ELSE IF step = RESET THEN Reset(part)
                    ELSE [part EXCEPT !.set = @ \cup {step - LAST_READ}]
         /\ present' = InitResult(ok)
         /\ step' = IF ok /\ step < LAST_WRITE THEN step + 1 ELSE 0
  /\ UNCHANGED recovery
=============================================================================
