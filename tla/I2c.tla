--------------------------------- MODULE I2c ---------------------------------
(***************************************************************************)
(* What one call of I2c_readReg or I2c_writeReg does to the bus (I2c.c):   *)
(* the check for a released bus, the retries on NAK, the recovery after a  *)
(* hard failure.  A bus is a record                                        *)
(*   held    clocks a slave still holds SDA low for; more than             *)
(*           I2C_RECOVERY_PULSES is a short                                *)
(*   wedged  the receive path of the module fails until its kernel is      *)
(*           reset                                                         *)
(*   busy    NAKs the slave will give before it answers again              *)
(* SCL and SDA are the only things the module sees of the slaves.          *)
(***************************************************************************)
EXTENDS Integers

CONSTANTS I2C_RECOVERY_PULSES, I2C_MAX_ATTEMPTS

ASSUME I2cAssumption == {I2C_RECOVERY_PULSES, I2C_MAX_ATTEMPTS} \subseteq Nat \ {0}

FreeBus == [held |-> 0, wedged |-> FALSE, busy |-> 0]

\* All states of a bus with at most one trouble.
Buses ==
  {FreeBus, [FreeBus EXCEPT !.wedged = TRUE]}
    \cup {[FreeBus EXCEPT !.held = h] : h \in 1 .. (I2C_RECOVERY_PULSES + 1)}
    \cup {[FreeBus EXCEPT !.busy = n] : n \in 1 .. (I2C_MAX_ATTEMPTS + 1)}

Shorted(bus) == bus.held > I2C_RECOVERY_PULSES

i2c_busRecovery(bus) == IF Shorted(bus) THEN bus ELSE [bus EXCEPT !.held = 0]

i2c_busIdle(bus) == bus.held = 0

i2c_ensureBusFree(bus) == IF i2c_busIdle(bus) THEN bus ELSE i2c_busRecovery(bus)

\* Mutant: the module is configured anew, but its kernel is not reset.
i2c_recoverAfterFailure_NoReset(bus) == i2c_busRecovery(bus)

i2c_recoverAfterFailure(bus) == i2c_busRecovery([bus EXCEPT !.wedged = FALSE])

(* A phase ends with the bus it leaves and whether it went through; the    *)
(* retries use up the NAKs of a busy slave, and a hard failure of the      *)
(* receive path costs the call.                                            *)
NakPhase(bus, answers) ==
  [bus |-> IF bus.busy > I2C_MAX_ATTEMPTS
             THEN [bus EXCEPT !.busy = @ - I2C_MAX_ATTEMPTS] ELSE [bus EXCEPT !.busy = 0],
   ok  |-> answers /\ bus.busy < I2C_MAX_ATTEMPTS]

i2c_writePhase(bus, answers) == NakPhase(bus, answers)

i2c_readPhase(bus, answers) ==
  IF bus.wedged THEN [bus |-> i2c_recoverAfterFailure(bus), ok |-> FALSE]
                ELSE NakPhase(bus, answers)

\* answers: the slave is powered and acknowledges its address.
I2c_writeReg(bus, answers) ==
  LET b == i2c_ensureBusFree(bus)
  IN  IF i2c_busIdle(b) THEN i2c_writePhase(b, answers) ELSE [bus |-> b, ok |-> FALSE]

I2c_readReg(bus, answers) ==
  LET w == I2c_writeReg(bus, answers)
  IN  IF w.ok THEN i2c_readPhase(w.bus, answers) ELSE w
=============================================================================
