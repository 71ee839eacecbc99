------------------------------- MODULE Dshot -------------------------------
(***************************************************************************)
(* The KISS telemetry side of the DShot driver (Dshot.c).  Every 8th frame *)
(* sets the telemetry bit of one motor; its ESC answers with ten bytes on  *)
(* the one UART wire all four share, asclin6IsrReceive collects them, and  *)
(* Dshot_task decodes them, all on CPU0.  The interrupt can come between   *)
(* the three parts of a Dshot_task; frames go out with interrupts off.     *)
(* Within a part its position makes no difference: while a packet is       *)
(* complete the interrupt drops what arrives.                              *)
(*                                                                         *)
(* Bytes carry the ESC they come from and their position in its answer;    *)
(* the CRC accepts one ESC's whole answer and nothing else.  The answer    *)
(* frames of bidirectional DShot are DshotReply's subject.                 *)
(***************************************************************************)
EXTENDS Integers, Sequences

CONSTANTS
  DSHOT_MEND,           \* number of motors (4)
  ESC_T_MESSAGE_LENGTH, \* bytes of an answer (10)
  TLM_SLOT,             \* frames from one request to the next (8)
  MISS_LIMIT,           \* consecutive misses of a dead ESC (3)
  STREAK_MAX,           \* where the miss streak saturates (255)
  MaxAnswer             \* calls of Dshot_task within which an answer has ended

ASSUME DshotAssumption ==
  /\ DSHOT_MEND \in Nat \ {0} /\ ESC_T_MESSAGE_LENGTH \in Nat \ {0}
  /\ MISS_LIMIT \in Nat \ {0} /\ STREAK_MAX \in Nat /\ MISS_LIMIT <= STREAK_MAX
  /\ MaxAnswer \in Nat /\ TLM_SLOT \in Nat /\ MaxAnswer + 2 <= TLM_SLOT

Motors == 0 .. (DSHOT_MEND - 1)
NoEsc  == DSHOT_MEND

Byte(m, k)   == [esc |-> m, pos |-> k]
StrayByte    == Byte(NoEsc, 0)
Answer(m)    == [k \in 1 .. ESC_T_MESSAGE_LENGTH |-> Byte(m, k)]

VARIABLES
  frame,                  \* g_dshotFrames, modulo TLM_SLOT
  telem_requested,
  dshot_motor,
  dshot_tlm_miss_streak,
  alive, packet,          \* g_esc_Tlm; packet[m] is the ESC it came from
  g_escTlmRaw,            \* the bytes below g_escTlmIndex
  g_escTlmComplete,
  dshot_stream_allowed,   \* argument of the last Dshot_task
  pc,                     \* which part of Dshot_task comes next
  \* the ESCs
  mute,                   \* those that do not answer
  toCome,                 \* bytes of m's answer still to come
  age,                    \* calls of Dshot_task since it was asked
  \* history variables
  slot,                   \* fate of the last request: none, asked, broken, whole, stored
  unanswered,             \* requests m received since it last answered, on a quiet wire
  noisy                   \* a stray byte has come

driver  == <<frame, telem_requested, dshot_motor, dshot_tlm_miss_streak, alive, packet,
             dshot_stream_allowed, pc>>
buffer  == <<g_escTlmRaw, g_escTlmComplete>>
escs    == <<mute, toCome, age>>
history == <<slot, unanswered, noisy>>
vars    == <<driver, buffer, escs, history>>

PerMotor(v) == [m \in Motors |-> v]

Init ==
  /\ frame = 0 /\ telem_requested = FALSE /\ dshot_motor = 0
  /\ dshot_tlm_miss_streak = PerMotor(0)
  /\ alive = PerMotor(FALSE) /\ packet = PerMotor(NoEsc)
  /\ g_escTlmRaw = <<>> /\ g_escTlmComplete = FALSE
  /\ dshot_stream_allowed = FALSE /\ pc = "request"
  /\ mute \in SUBSET Motors /\ toCome = PerMotor(0) /\ age = PerMotor(0)
  /\ slot = "none" /\ unanswered = PerMotor(0) /\ noisy = FALSE

-----------------------------------------------------------------------------
(* The receive interrupt.                                                  *)

asclin6IsrReceive(byte) ==
  IF ~g_escTlmComplete /\ Len(g_escTlmRaw) < ESC_T_MESSAGE_LENGTH
  THEN /\ g_escTlmRaw' = Append(g_escTlmRaw, byte)
       /\ g_escTlmComplete' = (Len(g_escTlmRaw) + 1 = ESC_T_MESSAGE_LENGTH)
  ELSE UNCHANGED buffer

AtMost(n, limit) == IF n < limit THEN n ELSE limit

(* The next byte of an answer arrives, or is lost.                         *)
EscByte ==
  /\ \E m \in Motors :
       /\ toCome[m] > 0
       /\ toCome' = [toCome EXCEPT ![m] = @ - 1]
       /\ unanswered' = IF toCome[m] = 1 THEN [unanswered EXCEPT ![m] = 0] ELSE unanswered
       /\ \/ /\ asclin6IsrReceive(Byte(m, ESC_T_MESSAGE_LENGTH - toCome[m] + 1))
             /\ slot' = IF toCome[m] = 1 /\ slot = "asked" THEN "whole" ELSE slot
          \/ /\ slot' = IF slot = "asked" THEN "broken" ELSE slot
             /\ UNCHANGED buffer
  /\ UNCHANGED <<driver, mute, age, noisy>>

(* The wire floats while no ESC drives it (docs/ESC_AM32.md:367).          *)
Stray ==
  /\ noisy' = TRUE
  /\ asclin6IsrReceive(StrayByte)
  /\ unanswered' = PerMotor(0)
  /\ UNCHANGED <<driver, escs, slot>>

EscDies ==
  /\ \E m \in Motors \ mute : mute' = mute \cup {m} /\ toCome' = [toCome EXCEPT ![m] = 0]
  /\ UNCHANGED <<driver, buffer, age, history>>

EscComesBack ==
  /\ \E m \in mute : mute' = mute \ {m}
  /\ UNCHANGED <<driver, buffer, toCome, age, history>>

-----------------------------------------------------------------------------
(* Dshot_task, in its three parts.                                         *)

\* Mutant: every frame asks.
TelemDue_EveryFrame == TRUE

TelemDue == frame = 0

NextMotor(m) == IF m < DSHOT_MEND - 1 THEN m + 1 ELSE 0

\* Mutant: one miss too many is forgiven.
Dead_Late(streak) == streak > MISS_LIMIT

Dead(streak) == streak >= MISS_LIMIT

\* Mutant: the uint8 wraps.
OneMore_Wraps(streak) == (streak + 1) % (STREAK_MAX + 1)

OneMore(streak) == AtMost(streak + 1, STREAK_MAX)

\* Mutant: the bytes of a broken answer stay in the buffer.
CountMiss_KeepsBytes ==
  LET streak == OneMore(dshot_tlm_miss_streak[dshot_motor])
  IN  /\ dshot_tlm_miss_streak' = [dshot_tlm_miss_streak EXCEPT ![dshot_motor] = streak]
      /\ alive' = [alive EXCEPT ![dshot_motor] = ~Dead(streak)]
      /\ UNCHANGED buffer

CountMiss ==
  LET streak == OneMore(dshot_tlm_miss_streak[dshot_motor])
  IN  /\ dshot_tlm_miss_streak' = [dshot_tlm_miss_streak EXCEPT ![dshot_motor] = streak]
      /\ alive' = [alive EXCEPT ![dshot_motor] = ~Dead(streak)]
      /\ g_escTlmRaw' = <<>> /\ g_escTlmComplete' = FALSE

(* MaxAnswer is what is assumed of the ESCs: an answer is over by then.    *)
Dshot_telem_request ==
  /\ pc = "request"
  /\ \A m \in Motors : toCome[m] > 0 => age[m] < MaxAnswer
  /\ \/ /\ TelemDue
        /\ IF telem_requested THEN CountMiss
           ELSE UNCHANGED <<dshot_tlm_miss_streak, alive, buffer>>
        /\ dshot_motor' = NextMotor(dshot_motor)
        /\ telem_requested' = TRUE
        /\ slot' = "none"
     \/ /\ ~TelemDue
        /\ UNCHANGED <<dshot_tlm_miss_streak, alive, buffer, dshot_motor,
                       telem_requested, slot>>
  /\ pc' = "send"
  /\ UNCHANGED <<frame, packet, dshot_stream_allowed, escs, unanswered, noisy>>

(* The request bit of dshot_motor reaches its ESC only with a frame.       *)
AskEsc ==
  /\ slot' = "asked"
  /\ unanswered' = [unanswered EXCEPT ![dshot_motor] =
                        IF noisy THEN 0 ELSE AtMost(@ + 1, MISS_LIMIT + 1)]
  /\ toCome' = IF dshot_motor \in mute THEN toCome
               ELSE [toCome EXCEPT ![dshot_motor] = ESC_T_MESSAGE_LENGTH]
  /\ age' = [m \in Motors |-> IF m = dshot_motor THEN 0 ELSE AtMost(age[m] + 1, MaxAnswer)]

NoRequest ==
  /\ age' = [m \in Motors |-> AtMost(age[m] + 1, MaxAnswer)]
  /\ UNCHANGED <<slot, unanswered, toCome>>

Dshot_sending ==
  /\ pc = "send"
  /\ dshot_stream_allowed' \in BOOLEAN
  /\ frame' = IF dshot_stream_allowed' THEN (frame + 1) % TLM_SLOT ELSE frame
  /\ IF dshot_stream_allowed' /\ TelemDue THEN AskEsc ELSE NoRequest
  /\ pc' = "decode"
  /\ UNCHANGED <<telem_requested, dshot_motor, dshot_tlm_miss_streak, alive, packet,
                 buffer, mute, noisy>>

CrcOk(raw) == \E m \in Motors : raw = Answer(m)

Dshot_interpret_ESC_Tlm ==
  IF CrcOk(g_escTlmRaw)
  THEN /\ packet' = [packet EXCEPT ![dshot_motor] = g_escTlmRaw[1].esc]
       /\ alive' = [alive EXCEPT ![dshot_motor] = TRUE]
       /\ dshot_tlm_miss_streak' = [dshot_tlm_miss_streak EXCEPT ![dshot_motor] = 0]
       /\ slot' = "stored"
  ELSE UNCHANGED <<packet, alive, dshot_tlm_miss_streak, slot>>

Dshot_telem_decode ==
  /\ pc = "decode"
  /\ \/ /\ telem_requested /\ g_escTlmComplete
        /\ Dshot_interpret_ESC_Tlm
        /\ g_escTlmRaw' = <<>> /\ g_escTlmComplete' = FALSE
        /\ telem_requested' = FALSE
     \/ /\ ~(telem_requested /\ g_escTlmComplete)
        /\ UNCHANGED <<packet, alive, dshot_tlm_miss_streak, slot, buffer, telem_requested>>
  /\ pc' = "request"
  /\ UNCHANGED <<frame, dshot_motor, dshot_stream_allowed, escs, unanswered, noisy>>

Dshot_task == Dshot_telem_request \/ Dshot_sending \/ Dshot_telem_decode

Next == EscByte \/ Stray \/ EscDies \/ EscComesBack \/ Dshot_task

(* Task_Dshot comes round for ever, and an ESC finishes its answer.        *)
Fairness == WF_vars(Dshot_task) /\ WF_vars(EscByte)

Spec     == Init /\ [][Next]_vars
FairSpec == Spec /\ Fairness

-----------------------------------------------------------------------------
Bytes == {StrayByte} \cup {Byte(m, k) : m \in Motors, k \in 1 .. ESC_T_MESSAGE_LENGTH}

(* The wire names no sender.  While nothing but the ESCs drives it, what   *)
(* is filed under a motor is the answer of that motor's ESC, also after    *)
(* lost bytes, missed slots and pauses of the stream.                      *)
PacketOfItsMotor == ~noisy => \A m \in Motors : packet[m] \in {m, NoEsc}

(* On a quiet wire a slot's outcome is the right one, whatever the slots   *)
(* before it left behind: a whole answer is stored by the end of its slot, *)
(* and the next request counts a miss exactly when it was not whole.       *)
SlotOutcome ==
  [][Dshot_telem_request /\ TelemDue /\ slot # "none" /\ ~noisy =>
       /\ slot # "whole"
       /\ telem_requested = (slot # "stored")]_vars

(* Measurements.h:375, alive is "the ESC answered its recent telemetry     *)
(* requests": on a quiet wire no ESC is reported alive that let more than  *)
(* MISS_LIMIT requests pass.                                               *)
AliveMeansAnswered == ~noisy => \A m \in Motors : alive[m] => unanswered[m] <= MISS_LIMIT

(* An ESC that stays silent is reported dead and stays so, as long as      *)
(* frames are sent and once the noise on the wire has ended, whatever the  *)
(* buffer held by then and however long the streak grows.                  *)
DeadEscIsReported ==
  \A m \in Motors :
    <>[](dshot_stream_allowed /\ m \in mute) /\ <>[][~Stray]_vars => <>[]~alive[m]

-----------------------------------------------------------------------------
(* What the repository says of the program and the code does not do.       *)

(* Dshot.h:30, "last CRC-valid packet from this motor", with no condition  *)
(* on the wire: a burst of stray bytes after a packet was stored leaves    *)
(* the buffer complete, the next request does not clear it because no      *)
(* request stands, and from then on each answer is filed under the motor   *)
(* after its own.                                                          *)
PacketAlwaysOfItsMotor == \A m \in Motors : packet[m] \in {m, NoEsc}
=============================================================================
