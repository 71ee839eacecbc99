---------------------------- MODULE DshotProofs ----------------------------
(***************************************************************************)
(* First what Dshot promises on a quiet wire, for every number of motors,  *)
(* length of an answer and distance of the requests.  The wire names no    *)
(* sender; that an answer is filed under its motor rests on time: an       *)
(* answer has ended, by DshotAssumption, before the frame counter comes    *)
(* round to the next request (Answering), and until then all bytes in the  *)
(* buffer are of that answer and in their order (Buffered).                *)
(*                                                                         *)
(* Then what DshotReply promises of the bidirectional answer, for all that *)
(* an ESC may send, any ticks per bit and any jitter below half a bit.     *)
(* A capture that has lost no edge is the gaps between the first edges of  *)
(* the answer (Capture); of these the decoder makes the ones up to the     *)
(* last edge taken, and that word is taken for nothing but what was sent.  *)
(***************************************************************************)
EXTENDS Dshot, DshotReply, FiniteSetTheorems, WellFoundedInduction, NaturalsInduction,
        TLAPS

Senders == Motors \cup {NoEsc}
Wire    == [esc : Senders, pos : Nat]

TypeInv ==
  /\ frame \in 0 .. (TLM_SLOT - 1) /\ telem_requested \in BOOLEAN /\ dshot_motor \in Motors
  /\ dshot_tlm_miss_streak \in [Motors -> Nat]
  /\ alive \in [Motors -> BOOLEAN] /\ packet \in [Motors -> Senders]
  /\ g_escTlmRaw \in Seq(Wire) /\ g_escTlmComplete \in BOOLEAN
  /\ dshot_stream_allowed \in BOOLEAN /\ pc \in {"request", "send", "decode"}
  /\ mute \in SUBSET Motors
  /\ toCome \in [Motors -> 0 .. ESC_T_MESSAGE_LENGTH] /\ age \in [Motors -> 0 .. MaxAnswer]
  /\ slot \in {"none", "asked", "broken", "whole", "stored"}
  /\ unanswered \in [Motors -> Nat] /\ noisy \in BOOLEAN

\* Only the ESC asked last may be answering, and not when the next one is due.
Answering ==
  \A m \in Motors : toCome[m] > 0 =>
    /\ m = dshot_motor /\ telem_requested /\ frame # 0
    /\ pc = "send" => age[m] < MaxAnswer
    /\ age[m] < frame - 1 => age[m] = MaxAnswer

\* The buffer holds bytes of its answer, each once and in their order.
Buffered ==
  /\ Len(g_escTlmRaw) + toCome[dshot_motor] <= ESC_T_MESSAGE_LENGTH
  /\ g_escTlmRaw # <<>> => telem_requested
  /\ g_escTlmComplete <=> Len(g_escTlmRaw) = ESC_T_MESSAGE_LENGTH
  /\ \A i \in 1 .. Len(g_escTlmRaw) :
       /\ g_escTlmRaw[i].esc = dshot_motor
       /\ i <= g_escTlmRaw[i].pos
       /\ g_escTlmRaw[i].pos + Len(g_escTlmRaw) - i + toCome[dshot_motor]
            <= ESC_T_MESSAGE_LENGTH

\* What the history knows of the slot is what the driver has.
SlotKnown ==
  /\ slot = "none" => g_escTlmRaw = <<>> /\ \A m \in Motors : toCome[m] = 0
  /\ slot = "asked" =>
       /\ telem_requested /\ Len(g_escTlmRaw) < ESC_T_MESSAGE_LENGTH
       /\ toCome[dshot_motor] > 0
            => Len(g_escTlmRaw) + toCome[dshot_motor] = ESC_T_MESSAGE_LENGTH
  /\ slot = "broken" =>
       /\ telem_requested
       /\ Len(g_escTlmRaw) + toCome[dshot_motor] < ESC_T_MESSAGE_LENGTH
  /\ slot = "whole" =>
       /\ telem_requested /\ Len(g_escTlmRaw) = ESC_T_MESSAGE_LENGTH
       /\ frame = 0 => pc = "decode"
  /\ slot = "stored" => ~telem_requested
  /\ pc = "send" /\ frame = 0 => slot = "none" /\ telem_requested

Pending(m) == IF m = dshot_motor /\ telem_requested /\ slot # "none" THEN 1 ELSE 0

\* A streak below the limit counts every request not answered, but for the open one.
Streaks ==
  /\ Len(g_escTlmRaw) = ESC_T_MESSAGE_LENGTH => unanswered[dshot_motor] = 0
  /\ \A m \in Motors :
       /\ alive[m] => dshot_tlm_miss_streak[m] < MISS_LIMIT
       /\ dshot_tlm_miss_streak[m] < MISS_LIMIT
            => unanswered[m] <= dshot_tlm_miss_streak[m] + Pending(m)

Filed == \A m \in Motors : packet[m] \in {m, NoEsc}

Quiet == Answering /\ Buffered /\ SlotKnown /\ Streaks /\ Filed

Inv == TypeInv /\ (~noisy => Quiet)

-----------------------------------------------------------------------------
(* The constants as numbers, for the provers.                              *)
LEMMA Numbers ==
  /\ DSHOT_MEND \in Nat /\ DSHOT_MEND > 0
  /\ ESC_T_MESSAGE_LENGTH \in Nat /\ ESC_T_MESSAGE_LENGTH > 0
  /\ MISS_LIMIT \in Nat /\ MISS_LIMIT > 0 /\ STREAK_MAX \in Nat /\ MISS_LIMIT <= STREAK_MAX
  /\ MaxAnswer \in Nat /\ TLM_SLOT \in Nat /\ MaxAnswer + 2 <= TLM_SLOT
  BY DshotAssumption

(* The round robin of the requests stays among the motors.                 *)
LEMMA NextMotorInside == \A m \in Motors : NextMotor(m) \in Motors
  BY Numbers DEF Motors, NextMotor

(* The frame counter counts up and turns over at the slot's end.           *)
LEMMA FrameTurns ==
  ASSUME NEW f \in 0 .. (TLM_SLOT - 1)
  PROVE  /\ (f + 1) % TLM_SLOT \in 0 .. (TLM_SLOT - 1)
         /\ f + 1 < TLM_SLOT => (f + 1) % TLM_SLOT = f + 1
         /\ f + 1 = TLM_SLOT => (f + 1) % TLM_SLOT = 0
  <1>1. CASE f + 1 < TLM_SLOT
    BY <1>1, Numbers
  <1>2. CASE f + 1 = TLM_SLOT
    BY <1>2, Numbers
  <1> QED
    BY <1>1, <1>2, Numbers

(* What the buffer holds after one more byte.                              *)
LEMMA AppendFacts ==
  ASSUME NEW s \in Seq(Wire), NEW b \in Wire
  PROVE  /\ Append(s, b) \in Seq(Wire)
         /\ Len(Append(s, b)) = Len(s) + 1
         /\ \A i \in 1 .. Len(s) : Append(s, b)[i] = s[i]
         /\ Append(s, b)[Len(s) + 1] = b
  OBVIOUS

(* A cleared buffer holds no byte.                                         *)
LEMMA EmptyFits == <<>> \in Seq(Wire) /\ Len(<<>>) = 0
  OBVIOUS

(* Each byte of an answer, and a stray one, fits the buffer.               *)
LEMMA ByteFits ==
  /\ \A m \in Motors, k \in Nat : Byte(m, k) \in Wire
  /\ StrayByte \in Wire
  BY DEF Byte, StrayByte, Wire, Senders

(* The receive interrupt keeps the buffer a sequence of bytes.             *)
LEMMA ReceiveTypes ==
  ASSUME TypeInv, NEW b \in Wire, asclin6IsrReceive(b)
  PROVE  g_escTlmRaw' \in Seq(Wire) /\ g_escTlmComplete' \in BOOLEAN
  <1>1. g_escTlmRaw \in Seq(Wire) /\ g_escTlmComplete \in BOOLEAN
    BY DEF TypeInv
  <1>2. CASE ~g_escTlmComplete /\ Len(g_escTlmRaw) < ESC_T_MESSAGE_LENGTH
    BY <1>1, <1>2, AppendFacts DEF asclin6IsrReceive
  <1>3. CASE ~(~g_escTlmComplete /\ Len(g_escTlmRaw) < ESC_T_MESSAGE_LENGTH)
    BY <1>1, <1>3 DEF asclin6IsrReceive, buffer
  <1> QED
    BY <1>2, <1>3

-----------------------------------------------------------------------------
(* The reset values have their types.                                      *)
LEMMA TypesAtReset == Init => TypeInv
  <1> SUFFICES ASSUME Init PROVE TypeInv
    OBVIOUS
  <1>1. 0 \in 0 .. (TLM_SLOT - 1) /\ 0 \in Motors
        /\ 0 \in 0 .. ESC_T_MESSAGE_LENGTH /\ 0 \in 0 .. MaxAnswer
    BY Numbers DEF Motors
  <1>3. NoEsc \in Senders
    BY DEF Senders
  <1>4. /\ PerMotor(0) \in [Motors -> Nat] /\ PerMotor(FALSE) \in [Motors -> BOOLEAN]
        /\ PerMotor(NoEsc) \in [Motors -> Senders]
        /\ PerMotor(0) \in [Motors -> 0 .. ESC_T_MESSAGE_LENGTH]
        /\ PerMotor(0) \in [Motors -> 0 .. MaxAnswer]
    BY <1>1, <1>3, Numbers DEF PerMotor
  <1> QED
    BY <1>1, <1>4, EmptyFits DEF Init, TypeInv

(* A byte of an answer, come or lost, keeps the types.                     *)
LEMMA TypesEscByte == TypeInv /\ EscByte => TypeInv'
  <1> SUFFICES ASSUME TypeInv, EscByte PROVE TypeInv'
    OBVIOUS
  <1>1. PICK m \in Motors :
          /\ toCome[m] > 0
          /\ toCome' = [toCome EXCEPT ![m] = @ - 1]
          /\ unanswered' = IF toCome[m] = 1 THEN [unanswered EXCEPT ![m] = 0] ELSE unanswered
          /\ \/ /\ asclin6IsrReceive(Byte(m, ESC_T_MESSAGE_LENGTH - toCome[m] + 1))
                /\ slot' = IF toCome[m] = 1 /\ slot = "asked" THEN "whole" ELSE slot
             \/ /\ slot' = IF slot = "asked" THEN "broken" ELSE slot
                /\ UNCHANGED buffer
    BY DEF EscByte
  <1>2. toCome \in [Motors -> 0 .. ESC_T_MESSAGE_LENGTH] /\ unanswered \in [Motors -> Nat]
        /\ slot \in {"none", "asked", "broken", "whole", "stored"}
    BY DEF TypeInv
  <1>3. toCome[m] \in 0 .. ESC_T_MESSAGE_LENGTH
    BY <1>2
  <1>4. toCome' \in [Motors -> 0 .. ESC_T_MESSAGE_LENGTH]
    <2>1. toCome[m] - 1 \in 0 .. ESC_T_MESSAGE_LENGTH
      BY <1>1, <1>3, Numbers
    <2> QED
      BY <1>1, <1>2, <2>1
  <1>5. unanswered' \in [Motors -> Nat]
    BY <1>1, <1>2
  <1>6. slot' \in {"none", "asked", "broken", "whole", "stored"}
    BY <1>1, <1>2
  <1>7. g_escTlmRaw' \in Seq(Wire) /\ g_escTlmComplete' \in BOOLEAN
    <2>1. ESC_T_MESSAGE_LENGTH - toCome[m] + 1 \in Nat
      BY <1>3, Numbers
    <2>2. Byte(m, ESC_T_MESSAGE_LENGTH - toCome[m] + 1) \in Wire
      BY <2>1, ByteFits
    <2>3. CASE asclin6IsrReceive(Byte(m, ESC_T_MESSAGE_LENGTH - toCome[m] + 1))
      BY <2>2, <2>3, ReceiveTypes
    <2>4. CASE UNCHANGED buffer
      BY <2>4 DEF TypeInv, buffer
    <2> QED
      BY <1>1, <2>3, <2>4
  <1> QED
    BY <1>4, <1>5, <1>6, <1>7 DEF TypeInv, EscByte, driver

(* A stray byte keeps the types.                                           *)
LEMMA TypesStray == TypeInv /\ Stray => TypeInv'
  <1> SUFFICES ASSUME TypeInv, Stray PROVE TypeInv'
    OBVIOUS
  <1>1. g_escTlmRaw' \in Seq(Wire) /\ g_escTlmComplete' \in BOOLEAN
    BY ByteFits, ReceiveTypes DEF Stray
  <1> QED
    BY <1>1 DEF TypeInv, Stray, PerMotor, driver, escs

(* An ESC that dies or comes back keeps the types.                         *)
LEMMA TypesEscLife == TypeInv /\ (EscDies \/ EscComesBack) => TypeInv'
  <1> SUFFICES ASSUME TypeInv, EscDies \/ EscComesBack PROVE TypeInv'
    OBVIOUS
  <1>1. CASE EscDies
    <2>1. 0 \in 0 .. ESC_T_MESSAGE_LENGTH
      BY Numbers
    <2>2. mute' \in SUBSET Motors /\ toCome' \in [Motors -> 0 .. ESC_T_MESSAGE_LENGTH]
      BY <1>1, <2>1 DEF EscDies, TypeInv
    <2> QED
      BY <1>1, <2>2 DEF TypeInv, EscDies, driver, buffer, history
  <1>2. CASE EscComesBack
    <2>1. mute' \in SUBSET Motors
      BY <1>2 DEF EscComesBack, TypeInv
    <2> QED
      BY <1>2, <2>1 DEF TypeInv, EscComesBack, driver, buffer, history
  <1> QED
    BY <1>1, <1>2

(* The miss count of a request, and what a request leaves alone.           *)
LEMMA TypesRequest == TypeInv /\ Dshot_telem_request => TypeInv'
  <1> SUFFICES ASSUME TypeInv, Dshot_telem_request PROVE TypeInv'
    OBVIOUS
  <1>1. CASE TelemDue /\ telem_requested
    <2>1. CountMiss /\ dshot_motor' = NextMotor(dshot_motor) /\ telem_requested' = TRUE
          /\ slot' = "none"
      BY <1>1 DEF Dshot_telem_request
    <2>2. OneMore(dshot_tlm_miss_streak[dshot_motor]) \in Nat
      BY Numbers DEF TypeInv, OneMore, AtMost
    <2>3. dshot_tlm_miss_streak' \in [Motors -> Nat]
      BY <2>1, <2>2 DEF CountMiss, TypeInv
    <2>4. alive' \in [Motors -> BOOLEAN]
      BY <2>1 DEF CountMiss, TypeInv, Dead
    <2>5. g_escTlmRaw' \in Seq(Wire) /\ g_escTlmComplete' \in BOOLEAN
      BY <2>1, EmptyFits DEF CountMiss
    <2>6. dshot_motor' \in Motors
      BY <2>1, NextMotorInside DEF TypeInv
    <2> QED
      BY <2>1, <2>3, <2>4, <2>5, <2>6 DEF TypeInv, Dshot_telem_request, escs
  <1>2. CASE TelemDue /\ ~telem_requested
    <2>1. dshot_motor' \in Motors
      BY <1>2, NextMotorInside DEF TypeInv, Dshot_telem_request
    <2> QED
      BY <1>2, <2>1 DEF TypeInv, Dshot_telem_request, escs, buffer
  <1>3. CASE ~TelemDue
    BY <1>3 DEF TypeInv, Dshot_telem_request, escs, buffer
  <1> QED
    BY <1>1, <1>2, <1>3

(* A frame, with or without a request in it, keeps the types.              *)
LEMMA TypesSending == TypeInv /\ Dshot_sending => TypeInv'
  <1> SUFFICES ASSUME TypeInv, Dshot_sending PROVE TypeInv'
    OBVIOUS
  <1>1. frame' \in 0 .. (TLM_SLOT - 1)
    BY FrameTurns DEF TypeInv, Dshot_sending
  <1>2. \A m \in Motors : AtMost(age[m] + 1, MaxAnswer) \in 0 .. MaxAnswer
    BY Numbers DEF TypeInv, AtMost
  <1>3. 0 \in 0 .. MaxAnswer /\ ESC_T_MESSAGE_LENGTH \in 0 .. ESC_T_MESSAGE_LENGTH
    BY Numbers
  <1>4. /\ age' \in [Motors -> 0 .. MaxAnswer]
        /\ slot' \in {"none", "asked", "broken", "whole", "stored"}
        /\ unanswered' \in [Motors -> Nat]
        /\ toCome' \in [Motors -> 0 .. ESC_T_MESSAGE_LENGTH]
    <2>1. CASE AskEsc
      <3>1. AtMost(unanswered[dshot_motor] + 1, MISS_LIMIT + 1) \in Nat
        BY Numbers DEF TypeInv, AtMost
      <3>2. unanswered' \in [Motors -> Nat]
        BY <2>1, <3>1 DEF AskEsc, TypeInv
      <3>3. toCome' \in [Motors -> 0 .. ESC_T_MESSAGE_LENGTH]
        BY <2>1, <1>3 DEF AskEsc, TypeInv
      <3>4. age' \in [Motors -> 0 .. MaxAnswer]
        BY <2>1, <1>2, <1>3 DEF AskEsc
      <3> QED
        BY <2>1, <3>2, <3>3, <3>4 DEF AskEsc
    <2>2. CASE NoRequest
      BY <2>2, <1>2 DEF NoRequest, TypeInv
    <2> QED
      BY <2>1, <2>2 DEF Dshot_sending
  <1> QED
    BY <1>1, <1>4 DEF TypeInv, Dshot_sending, buffer

(* An answer that is stored, or refused, keeps the types.                  *)
LEMMA TypesDecode == TypeInv /\ Dshot_telem_decode => TypeInv'
  <1> SUFFICES ASSUME TypeInv, Dshot_telem_decode PROVE TypeInv'
    OBVIOUS
  <1>1. CASE telem_requested /\ g_escTlmComplete /\ CrcOk(g_escTlmRaw)
    <2>1. PICK m \in Motors : g_escTlmRaw = Answer(m)
      BY <1>1 DEF CrcOk
    <2>2. g_escTlmRaw[1].esc \in Senders
      BY <2>1, Numbers DEF Answer, Byte, Senders
    <2>3. packet' = [packet EXCEPT ![dshot_motor] = g_escTlmRaw[1].esc]
          /\ alive' = [alive EXCEPT ![dshot_motor] = TRUE]
          /\ dshot_tlm_miss_streak' = [dshot_tlm_miss_streak EXCEPT ![dshot_motor] = 0]
          /\ slot' = "stored" /\ g_escTlmRaw' = <<>> /\ g_escTlmComplete' = FALSE
          /\ telem_requested' = FALSE
      BY <1>1 DEF Dshot_telem_decode, Dshot_interpret_ESC_Tlm
    <2>4. /\ packet' \in [Motors -> Senders] /\ alive' \in [Motors -> BOOLEAN]
          /\ dshot_tlm_miss_streak' \in [Motors -> Nat]
      BY <2>2, <2>3 DEF TypeInv
    <2> QED
      BY <2>3, <2>4, EmptyFits DEF TypeInv, Dshot_telem_decode, escs
  <1>2. CASE telem_requested /\ g_escTlmComplete /\ ~CrcOk(g_escTlmRaw)
    <2>1. g_escTlmRaw' = <<>> /\ g_escTlmComplete' = FALSE /\ telem_requested' = FALSE
          /\ UNCHANGED <<packet, alive, dshot_tlm_miss_streak, slot>>
      BY <1>2 DEF Dshot_telem_decode, Dshot_interpret_ESC_Tlm
    <2> QED
      BY <2>1, EmptyFits DEF TypeInv, Dshot_telem_decode, escs
  <1>3. CASE ~(telem_requested /\ g_escTlmComplete)
    BY <1>3 DEF TypeInv, Dshot_telem_decode, escs, buffer
  <1> QED
    BY <1>1, <1>2, <1>3

(* The types are kept by every step.                                       *)
LEMMA TypesStep == TypeInv /\ [Next]_vars => TypeInv'
  <1> SUFFICES ASSUME TypeInv, [Next]_vars PROVE TypeInv'
    OBVIOUS
  <1>1. CASE UNCHANGED vars
    BY <1>1 DEF TypeInv, vars, driver, buffer, escs, history
  <1> QED
    BY <1>1, TypesEscByte, TypesStray, TypesEscLife, TypesRequest, TypesSending, TypesDecode
       DEF Next, Dshot_task

-----------------------------------------------------------------------------
(* On a quiet wire nothing is open at reset.                               *)
LEMMA QuietAtReset == Init => Quiet
  <1> SUFFICES ASSUME Init PROVE Quiet
    OBVIOUS
  <1>1. dshot_motor \in Motors
    BY Numbers DEF Init, Motors
  <1>2. \A m \in Motors : toCome[m] = 0 /\ unanswered[m] = 0 /\ dshot_tlm_miss_streak[m] = 0
          /\ ~alive[m] /\ packet[m] = NoEsc
    BY DEF Init, PerMotor
  <1>3. g_escTlmRaw = <<>> /\ Len(g_escTlmRaw) = 0 /\ ~g_escTlmComplete /\ slot = "none"
        /\ pc = "request"
    BY EmptyFits DEF Init
  <1>4. Answering
    BY <1>2 DEF Answering
  <1>5. Buffered
    BY <1>1, <1>2, <1>3, Numbers DEF Buffered
  <1>6. SlotKnown
    BY <1>2, <1>3 DEF SlotKnown
  <1>7. Streaks
    BY <1>2, <1>3, Numbers DEF Streaks, Pending
  <1> QED
    BY <1>2, <1>4, <1>5, <1>6, <1>7 DEF Quiet, Filed

(* What stands in the buffer are bytes with a position.                    *)
LEMMA BytesHavePositions ==
  ASSUME TypeInv
  PROVE  \A i \in 1 .. Len(g_escTlmRaw) : g_escTlmRaw[i].pos \in Nat
  <1> SUFFICES ASSUME NEW i \in 1 .. Len(g_escTlmRaw) PROVE g_escTlmRaw[i].pos \in Nat
    OBVIOUS
  <1>1. g_escTlmRaw \in Seq(Wire)
    BY DEF TypeInv
  <1>2. g_escTlmRaw[i] \in Wire
    BY <1>1
  <1> QED
    BY <1>2 DEF Wire

(* The next byte of an answer is taken in its place, or is missed.         *)
LEMMA QuietEscByte == TypeInv /\ Quiet /\ EscByte => Quiet'
  <1> SUFFICES ASSUME TypeInv, Quiet, EscByte PROVE Quiet'
    OBVIOUS
  <1> DEFINE L == ESC_T_MESSAGE_LENGTH
             n == Len(g_escTlmRaw)
             t == toCome[dshot_motor]
  <1>1. PICK m \in Motors :
          /\ toCome[m] > 0
          /\ toCome' = [toCome EXCEPT ![m] = @ - 1]
          /\ unanswered' = IF toCome[m] = 1 THEN [unanswered EXCEPT ![m] = 0] ELSE unanswered
          /\ \/ /\ asclin6IsrReceive(Byte(m, ESC_T_MESSAGE_LENGTH - toCome[m] + 1))
                /\ slot' = IF toCome[m] = 1 /\ slot = "asked" THEN "whole" ELSE slot
             \/ /\ slot' = IF slot = "asked" THEN "broken" ELSE slot
                /\ UNCHANGED buffer
    BY DEF EscByte
  <1>2. m = dshot_motor /\ telem_requested /\ frame # 0
    BY <1>1 DEF Quiet, Answering
  <1>3. n \in Nat /\ t \in Nat /\ t > 0 /\ n + t <= L /\ n < L /\ ~g_escTlmComplete
    <2>1. n \in Nat /\ t \in Nat /\ t > 0 /\ n + t <= L
      BY <1>1, <1>2 DEF TypeInv, Quiet, Buffered
    <2> QED
      BY <2>1, Numbers DEF Quiet, Buffered
  <1>4. \A p \in Motors : toCome'[p] = IF p = dshot_motor THEN t - 1 ELSE toCome[p]
    BY <1>1, <1>2 DEF TypeInv
  <1>5. UNCHANGED <<frame, telem_requested, dshot_motor, dshot_tlm_miss_streak, alive, packet,
                    pc, age>>
    BY DEF EscByte, driver
  <1>6. slot \in {"asked", "broken"}
    BY <1>1, <1>2, <1>3 DEF TypeInv, Quiet, SlotKnown
  <1>7. \A p \in Motors : unanswered'[p] =
          IF p = dshot_motor /\ t = 1 THEN 0 ELSE unanswered[p]
    BY <1>1, <1>2 DEF TypeInv
  <1>8. Answering'
    <2> SUFFICES ASSUME NEW p \in Motors, toCome'[p] > 0
                 PROVE  /\ p = dshot_motor /\ telem_requested /\ frame # 0
                        /\ pc = "send" => age[p] < MaxAnswer
                        /\ age[p] < frame - 1 => age[p] = MaxAnswer
      BY <1>5 DEF Answering
    <2>1. toCome[p] > 0
      BY <1>3, <1>4
    <2> QED
      BY <2>1 DEF Quiet, Answering
  <1>9. CASE /\ asclin6IsrReceive(Byte(m, ESC_T_MESSAGE_LENGTH - toCome[m] + 1))
             /\ slot' = IF toCome[m] = 1 /\ slot = "asked" THEN "whole" ELSE slot
    <2> DEFINE b == Byte(dshot_motor, L - t + 1)
    <2>1. g_escTlmRaw' = Append(g_escTlmRaw, b) /\ g_escTlmComplete' = (n + 1 = L)
      BY <1>2, <1>3, <1>9 DEF asclin6IsrReceive
    <2>2. L - t + 1 \in Nat /\ b \in Wire /\ b.esc = dshot_motor /\ b.pos = L - t + 1
      <3>1. L - t + 1 \in Nat
        BY <1>3, Numbers
      <3>2. b \in Wire
        BY <3>1, <1>2, ByteFits
      <3> QED
        BY <3>1, <3>2 DEF Byte
    <2>3. g_escTlmRaw \in Seq(Wire)
      BY DEF TypeInv
    <2>4. Len(g_escTlmRaw') = n + 1 /\ g_escTlmRaw'[n + 1] = b
          /\ \A i \in 1 .. n : g_escTlmRaw'[i] = g_escTlmRaw[i]
      BY <2>1, <2>2, <2>3, AppendFacts
    <2>5. toCome'[dshot_motor] = t - 1
      BY <1>2, <1>4
    <2>6. Buffered'
      <3>1. n + 1 + (t - 1) <= L /\ ((n + 1 = L) <=> Len(g_escTlmRaw') = L)
        BY <1>3, <2>4, Numbers
      <3>2. ASSUME NEW i \in 1 .. (n + 1)
            PROVE  /\ g_escTlmRaw'[i].esc = dshot_motor
                   /\ i <= g_escTlmRaw'[i].pos
                   /\ g_escTlmRaw'[i].pos + (n + 1) - i + (t - 1) <= L
        <4>1. CASE i = n + 1
          <5>1. g_escTlmRaw'[i].esc = dshot_motor /\ g_escTlmRaw'[i].pos = L - t + 1
            BY <4>1, <2>2, <2>4
          <5> QED
            BY <4>1, <5>1, <1>3, Numbers
        <4>2. CASE i # n + 1
          <5>1. i \in 1 .. n
            BY <4>2, <1>3
          <5>2. g_escTlmRaw[i].pos \in Nat
            BY <5>1, BytesHavePositions
          <5>3. /\ g_escTlmRaw[i].esc = dshot_motor /\ i <= g_escTlmRaw[i].pos
                /\ g_escTlmRaw[i].pos + n - i + t <= L
            BY <5>1 DEF Quiet, Buffered
          <5>4. g_escTlmRaw'[i] = g_escTlmRaw[i]
            BY <5>1, <2>4
          <5>5. g_escTlmRaw[i].pos + (n + 1) - i + (t - 1) <= L
            <6> DEFINE x == g_escTlmRaw[i].pos
            <6>1. x \in Int /\ x + n - i + t <= L
              BY <5>2, <5>3
            <6>2. i \in Int /\ n \in Int /\ t \in Int /\ L \in Int
              BY <5>1, <1>3, Numbers
            <6> HIDE DEF x, n, t, L
            <6>3. x + (n + 1) - i + (t - 1) <= L
              BY <6>1, <6>2
            <6> QED
              BY <6>3 DEF x
          <5> QED
            BY <5>3, <5>4, <5>5
        <4> QED
          BY <4>1, <4>2
      <3> QED
        BY <3>1, <3>2, <1>2, <1>5, <2>1, <2>4, <2>5 DEF Buffered
    <2>7. SlotKnown'
      <3>1. slot' = IF t = 1 /\ slot = "asked" THEN "whole" ELSE slot
        BY <1>2, <1>9
      <3>2. CASE slot = "asked" /\ t = 1
        <4>1. n + t = L
          BY <3>2, <1>3 DEF Quiet, SlotKnown
        <4>2. Len(g_escTlmRaw') = L
          BY <4>1, <3>2, <2>4, <1>3, Numbers
        <4> QED
          BY <4>2, <3>1, <3>2, <1>2, <1>5 DEF SlotKnown
      <3>3. CASE slot = "asked" /\ t # 1
        <4>1. n + t = L
          BY <3>3, <1>3 DEF Quiet, SlotKnown
        <4>2. n + 1 < L /\ (n + 1) + (t - 1) = L
          BY <4>1, <3>3, <1>3, Numbers
        <4> QED
          BY <4>2, <3>1, <3>3, <1>2, <1>5, <2>4, <2>5 DEF SlotKnown
      <3>4. CASE slot = "broken"
        <4>1. n + t < L
          BY <3>4 DEF Quiet, SlotKnown
        <4>2. (n + 1) + (t - 1) < L
          BY <4>1, <1>3, Numbers
        <4> QED
          BY <4>2, <3>1, <3>4, <1>2, <1>5, <2>4, <2>5 DEF SlotKnown
      <3> QED
        BY <1>6, <3>2, <3>3, <3>4
    <2>8. Streaks'
      <3>1. n + 1 = L => t = 1
        BY <1>3, Numbers
      <3>2. Len(g_escTlmRaw') = L => unanswered'[dshot_motor] = 0
        BY <3>1, <2>4, <1>2, <1>7
      <3>3. slot' # "none" /\ slot # "none"
        BY <1>6, <1>9
      <3>4. \A p \in Motors : Pending(p)' = Pending(p)
        BY <3>3, <1>5 DEF Pending
      <3>5. ASSUME NEW p \in Motors
            PROVE  unanswered'[p] \in Nat /\ unanswered'[p] <= unanswered[p]
        <4>1. unanswered[p] \in Nat
          BY DEF TypeInv
        <4>2. CASE p = dshot_motor /\ t = 1
          BY <4>1, <4>2, <1>7
        <4>3. CASE ~(p = dshot_motor /\ t = 1)
          BY <4>1, <4>3, <1>7
        <4> QED
          BY <4>2, <4>3
      <3>6. ASSUME NEW p \in Motors, dshot_tlm_miss_streak[p] < MISS_LIMIT
            PROVE  unanswered'[p] <= dshot_tlm_miss_streak[p] + Pending(p)
        <4>1. unanswered[p] <= dshot_tlm_miss_streak[p] + Pending(p)
          BY <3>6 DEF Quiet, Streaks
        <4>2. unanswered[p] \in Nat /\ dshot_tlm_miss_streak[p] \in Nat /\ Pending(p) \in Nat
          BY DEF TypeInv, Pending
        <4> QED
          BY <4>1, <4>2, <3>5
      <3>7. \A p \in Motors : alive[p] => dshot_tlm_miss_streak[p] < MISS_LIMIT
        BY DEF Quiet, Streaks
      <3> QED
        BY <3>2, <3>4, <3>6, <3>7, <1>5 DEF Streaks
    <2> QED
      BY <1>8, <2>6, <2>7, <2>8, <1>5 DEF Quiet, Filed
  <1>10. CASE /\ slot' = IF slot = "asked" THEN "broken" ELSE slot
              /\ UNCHANGED buffer
    <2>1. g_escTlmRaw' = g_escTlmRaw /\ g_escTlmComplete' = g_escTlmComplete
      BY <1>10 DEF buffer
    <2>2. toCome'[dshot_motor] = t - 1 /\ n + (t - 1) < L
      BY <1>2, <1>3, <1>4, Numbers
    <2>3. slot' = "broken"
      BY <1>6, <1>10
    <2>4. Buffered'
      <3>1. ASSUME NEW i \in 1 .. n
            PROVE  g_escTlmRaw[i].pos + n - i + (t - 1) <= L
        <4>1. g_escTlmRaw[i].pos \in Nat
          BY BytesHavePositions
        <4>2. g_escTlmRaw[i].pos + n - i + t <= L
          BY DEF Quiet, Buffered
        <4> QED
          BY <4>1, <4>2, <1>3, Numbers
      <3>2. \A i \in 1 .. n : g_escTlmRaw[i].esc = dshot_motor /\ i <= g_escTlmRaw[i].pos
        BY DEF Quiet, Buffered
      <3>3. ~g_escTlmComplete /\ n # L /\ n + (t - 1) <= L
        BY <1>3, <2>2, Numbers
      <3> QED
        BY <3>1, <3>2, <3>3, <1>2, <1>5, <2>1, <2>2 DEF Buffered
    <2>5. SlotKnown'
      BY <1>2, <1>5, <2>1, <2>2, <2>3 DEF SlotKnown
    <2>6. Streaks'
      <3>1. n # L
        BY <1>3, Numbers
      <3>2. \A p \in Motors : Pending(p)' = Pending(p)
        BY <2>3, <1>5, <1>6 DEF Pending
      <3>3. ASSUME NEW p \in Motors
            PROVE  unanswered'[p] \in Nat /\ unanswered'[p] <= unanswered[p]
        <4>1. unanswered[p] \in Nat
          BY DEF TypeInv
        <4>2. CASE p = dshot_motor /\ t = 1
          BY <4>1, <4>2, <1>7
        <4>3. CASE ~(p = dshot_motor /\ t = 1)
          BY <4>1, <4>3, <1>7
        <4> QED
          BY <4>2, <4>3
      <3>4. ASSUME NEW p \in Motors, dshot_tlm_miss_streak[p] < MISS_LIMIT
            PROVE  unanswered'[p] <= dshot_tlm_miss_streak[p] + Pending(p)
        <4>1. unanswered[p] <= dshot_tlm_miss_streak[p] + Pending(p)
          BY <3>4 DEF Quiet, Streaks
        <4>2. unanswered[p] \in Nat /\ dshot_tlm_miss_streak[p] \in Nat /\ Pending(p) \in Nat
          BY DEF TypeInv, Pending
        <4> QED
          BY <4>1, <4>2, <3>3
      <3>5. \A p \in Motors : alive[p] => dshot_tlm_miss_streak[p] < MISS_LIMIT
        BY DEF Quiet, Streaks
      <3> QED
        BY <3>1, <3>2, <3>4, <3>5, <1>5, <2>1 DEF Streaks
    <2> QED
      BY <1>8, <2>4, <2>5, <2>6, <1>5 DEF Quiet, Filed
  <1> QED
    BY <1>1, <1>9, <1>10

(* An ESC that dies ends its answer; one that comes back answers later.    *)
LEMMA QuietEscLife == TypeInv /\ Quiet /\ (EscDies \/ EscComesBack) => Quiet'
  <1> SUFFICES ASSUME TypeInv, Quiet, EscDies \/ EscComesBack PROVE Quiet'
    OBVIOUS
  <1>1. /\ UNCHANGED <<frame, telem_requested, dshot_motor, dshot_tlm_miss_streak, alive, packet,
                       pc, age, g_escTlmRaw, g_escTlmComplete, slot, unanswered>>
    BY DEF EscDies, EscComesBack, driver, buffer, history
  <1>2. \A p \in Motors : toCome'[p] = 0 \/ toCome'[p] = toCome[p]
    BY DEF EscDies, EscComesBack, TypeInv
  <1>3. \A p \in Motors : toCome[p] \in Nat /\ toCome'[p] \in Nat /\ toCome'[p] <= toCome[p]
    <2> SUFFICES ASSUME NEW p \in Motors
                 PROVE  toCome[p] \in Nat /\ toCome'[p] \in Nat /\ toCome'[p] <= toCome[p]
      OBVIOUS
    <2>1. toCome[p] \in Nat
      BY Numbers DEF TypeInv
    <2> QED
      BY <2>1, <1>2
  <1>4. dshot_motor \in Motors /\ Len(g_escTlmRaw) \in Nat
    BY DEF TypeInv
  <1>5. Answering'
    BY <1>1, <1>2 DEF Quiet, Answering
  <1>6. Buffered'
    <2> DEFINE n  == Len(g_escTlmRaw)
               t  == toCome[dshot_motor]
               t2 == toCome'[dshot_motor]
    <2>1. n + t2 <= ESC_T_MESSAGE_LENGTH
      BY <1>3, <1>4, Numbers DEF Quiet, Buffered
    <2>2. ASSUME NEW i \in 1 .. n
          PROVE  g_escTlmRaw[i].pos + n - i + t2 <= ESC_T_MESSAGE_LENGTH
      <3>1. g_escTlmRaw[i].pos + n - i + t <= ESC_T_MESSAGE_LENGTH
        BY DEF Quiet, Buffered
      <3> QED
        BY <3>1, <1>3, <1>4, BytesHavePositions, Numbers
    <2> QED
      BY <2>1, <2>2, <1>1 DEF Quiet, Buffered
  <1>7. SlotKnown'
    <2>1. slot = "none" => \A m \in Motors : toCome'[m] = 0
      BY <1>2 DEF Quiet, SlotKnown
    <2>2. slot = "asked" /\ toCome'[dshot_motor] > 0
            => Len(g_escTlmRaw) + toCome'[dshot_motor] = ESC_T_MESSAGE_LENGTH
      BY <1>2, <1>4 DEF Quiet, SlotKnown
    <2>3. slot = "broken" => Len(g_escTlmRaw) + toCome'[dshot_motor] < ESC_T_MESSAGE_LENGTH
      BY <1>3, <1>4, Numbers DEF Quiet, SlotKnown
    <2> QED
      BY <2>1, <2>2, <2>3, <1>1 DEF Quiet, SlotKnown
  <1>8. Streaks' /\ Filed'
    BY <1>1 DEF Quiet, Streaks, Pending, Filed
  <1> QED
    BY <1>5, <1>6, <1>7, <1>8 DEF Quiet

(* When the frame counter is back at 0 no answer is under way.             *)
LEMMA NoAnswerAtRequest ==
  ASSUME TypeInv, Quiet, frame = 0
  PROVE  \A m \in Motors : toCome[m] = 0
  <1> SUFFICES ASSUME NEW m \in Motors PROVE toCome[m] = 0
    OBVIOUS
  <1>1. toCome[m] \in Nat
    BY Numbers DEF TypeInv
  <1>2. ~(toCome[m] > 0)
    BY DEF Quiet, Answering
  <1> QED
    BY <1>1, <1>2

(* A request clears what the slot before left, and counts its miss.        *)
LEMMA QuietRequest == TypeInv /\ Quiet /\ Dshot_telem_request => Quiet'
  <1> SUFFICES ASSUME TypeInv, Quiet, Dshot_telem_request PROVE Quiet'
    OBVIOUS
  <1>1. /\ pc = "request" /\ pc' = "send"
        /\ \A m \in Motors : toCome[m] > 0 => age[m] < MaxAnswer
        /\ UNCHANGED <<frame, packet, toCome, age, unanswered>>
    BY DEF Dshot_telem_request, escs
  <1>2. CASE ~TelemDue
    <2>1. frame # 0
      BY <1>2 DEF TelemDue
    <2>2. UNCHANGED <<dshot_tlm_miss_streak, alive, g_escTlmRaw, g_escTlmComplete, dshot_motor,
                      telem_requested, slot>>
      BY <1>2 DEF Dshot_telem_request, buffer
    <2>3. Answering'
      BY <1>1, <2>1, <2>2 DEF Quiet, Answering
    <2>4. Buffered'
      BY <1>1, <2>2 DEF Quiet, Buffered
    <2>5. SlotKnown'
      BY <1>1, <2>1, <2>2 DEF Quiet, SlotKnown
    <2>6. Streaks' /\ Filed'
      BY <1>1, <2>2 DEF Quiet, Streaks, Pending, Filed
    <2> QED
      BY <2>3, <2>4, <2>5, <2>6 DEF Quiet
  <1>3. CASE TelemDue
    <2>1. frame = 0 /\ \A m \in Motors : toCome[m] = 0
      BY <1>3, NoAnswerAtRequest DEF TelemDue
    <2>2. dshot_motor' = NextMotor(dshot_motor) /\ telem_requested' = TRUE /\ slot' = "none"
      BY <1>3 DEF Dshot_telem_request
    <2>3. dshot_motor \in Motors /\ dshot_motor' \in Motors
      BY <2>2, NextMotorInside DEF TypeInv
    <2>4. g_escTlmRaw' = <<>> /\ ~g_escTlmComplete'
      <3>1. CASE telem_requested
        BY <3>1, <1>3 DEF Dshot_telem_request, CountMiss
      <3>2. CASE ~telem_requested
        <4>1. g_escTlmRaw = <<>>
          BY <3>2 DEF Quiet, Buffered
        <4>2. ~g_escTlmComplete
          BY <4>1, EmptyFits, Numbers DEF Quiet, Buffered
        <4> QED
          BY <3>2, <4>1, <4>2, <1>3 DEF Dshot_telem_request, buffer
      <3> QED
        BY <3>1, <3>2
    <2>5. Answering'
      BY <1>1, <2>1 DEF Answering
    <2>6. Len(g_escTlmRaw') = 0 /\ toCome'[dshot_motor'] = 0
      BY <1>1, <2>1, <2>3, <2>4, EmptyFits
    <2>7. Buffered'
      BY <2>4, <2>6, Numbers DEF Buffered
    <2>8. SlotKnown'
      BY <1>1, <2>1, <2>2, <2>4 DEF SlotKnown
    <2>9. \A m \in Motors : Pending(m)' = 0
      BY <2>2 DEF Pending
    <2>10. ASSUME telem_requested PROVE Streaks'
      <3> DEFINE streak == OneMore(dshot_tlm_miss_streak[dshot_motor])
      <3>1. /\ dshot_tlm_miss_streak' = [dshot_tlm_miss_streak EXCEPT ![dshot_motor] = streak]
            /\ alive' = [alive EXCEPT ![dshot_motor] = ~Dead(streak)]
        BY <2>10, <1>3 DEF Dshot_telem_request, CountMiss
      <3>2. ASSUME NEW m \in Motors
            PROVE  /\ alive'[m] => dshot_tlm_miss_streak'[m] < MISS_LIMIT
                   /\ dshot_tlm_miss_streak'[m] < MISS_LIMIT
                        => unanswered[m] <= dshot_tlm_miss_streak'[m]
        <4>1. dshot_tlm_miss_streak[m] \in Nat /\ unanswered[m] \in Nat
          BY DEF TypeInv
        <4>2. CASE m = dshot_motor
          <5>1. dshot_tlm_miss_streak'[m] = streak /\ (alive'[m] <=> ~Dead(streak))
            BY <3>1, <4>2 DEF TypeInv
          <5>2. streak \in Nat /\ (streak < STREAK_MAX => streak = dshot_tlm_miss_streak[m] + 1)
            BY <4>1, <4>2, Numbers DEF OneMore, AtMost
          <5>3. ~Dead(streak) => streak < MISS_LIMIT
            BY <5>2, Numbers DEF Dead
          <5>4. Pending(m) \in 0 .. 1
            BY DEF Pending
          <5>5. ASSUME streak < MISS_LIMIT
                PROVE  unanswered[m] <= streak
            <6>1. streak = dshot_tlm_miss_streak[m] + 1
              BY <5>2, <5>5, Numbers
            <6>2. unanswered[m] <= dshot_tlm_miss_streak[m] + Pending(m)
              BY <6>1, <5>5, <4>1, Numbers DEF Quiet, Streaks
            <6> QED
              BY <6>1, <6>2, <5>4, <4>1
          <5> QED
            BY <5>1, <5>3, <5>5
        <4>3. CASE m # dshot_motor
          <5>1. dshot_tlm_miss_streak'[m] = dshot_tlm_miss_streak[m] /\ alive'[m] = alive[m]
            BY <3>1, <4>3 DEF TypeInv
          <5>2. Pending(m) = 0
            BY <4>3 DEF Pending
          <5>3. /\ alive[m] => dshot_tlm_miss_streak[m] < MISS_LIMIT
                /\ dshot_tlm_miss_streak[m] < MISS_LIMIT
                     => unanswered[m] <= dshot_tlm_miss_streak[m] + Pending(m)
            BY DEF Quiet, Streaks
          <5> QED
            BY <5>1, <5>2, <5>3, <4>1
        <4> QED
          BY <4>2, <4>3
      <3>3. \A m \in Motors : dshot_tlm_miss_streak'[m] \in Nat
        BY TypesRequest DEF TypeInv
      <3>4. Len(g_escTlmRaw') # ESC_T_MESSAGE_LENGTH
        BY <2>6, Numbers
      <3>5. ASSUME NEW m \in Motors, dshot_tlm_miss_streak'[m] < MISS_LIMIT
            PROVE  unanswered'[m] <= dshot_tlm_miss_streak'[m] + Pending(m)'
        <4>1. unanswered'[m] <= dshot_tlm_miss_streak'[m]
          BY <3>2, <3>5, <1>1
        <4> QED
          BY <4>1, <3>3, <2>9
      <3> QED
        BY <3>2, <3>4, <3>5 DEF Streaks
    <2>11. ASSUME ~telem_requested PROVE Streaks'
      <3>1. UNCHANGED <<dshot_tlm_miss_streak, alive>>
        BY <2>11, <1>3 DEF Dshot_telem_request
      <3>2. \A m \in Motors : Pending(m) = 0
        BY <2>11 DEF Pending
      <3>3. Len(g_escTlmRaw') # ESC_T_MESSAGE_LENGTH
        BY <2>6, Numbers
      <3>4. ASSUME NEW m \in Motors
            PROVE  /\ alive'[m] => dshot_tlm_miss_streak'[m] < MISS_LIMIT
                   /\ dshot_tlm_miss_streak'[m] < MISS_LIMIT
                        => unanswered'[m] <= dshot_tlm_miss_streak'[m] + Pending(m)'
        <4>1. Pending(m)' = Pending(m)
          BY <3>2, <2>9
        <4> QED
          BY <4>1, <3>1, <1>1 DEF Quiet, Streaks
      <3> QED
        BY <3>3, <3>4 DEF Streaks
    <2> QED
      BY <2>5, <2>7, <2>8, <2>10, <2>11, <1>1 DEF Quiet, Filed
  <1> QED
    BY <1>2, <1>3

(* The frame with the request opens an answer; the frames after it let it  *)
(* grow older, and it ends before the counter comes round.                 *)
LEMMA QuietSending == TypeInv /\ Quiet /\ Dshot_sending => Quiet'
  <1> SUFFICES ASSUME TypeInv, Quiet, Dshot_sending PROVE Quiet'
    OBVIOUS
  <1>1. /\ pc = "send" /\ pc' = "decode"
        /\ UNCHANGED <<telem_requested, dshot_motor, dshot_tlm_miss_streak, alive, packet,
                       g_escTlmRaw, g_escTlmComplete>>
    BY DEF Dshot_sending, buffer
  <1>2. dshot_motor \in Motors /\ frame \in 0 .. (TLM_SLOT - 1)
    BY DEF TypeInv
  <1>3. frame' = IF dshot_stream_allowed' THEN (frame + 1) % TLM_SLOT ELSE frame
    BY DEF Dshot_sending
  <1>4. CASE dshot_stream_allowed' /\ TelemDue
    <2>1. frame = 0 /\ slot = "none" /\ telem_requested /\ g_escTlmRaw = <<>>
          /\ \A m \in Motors : toCome[m] = 0
      BY <1>1, <1>4 DEF TelemDue, Quiet, SlotKnown
    <2>2. frame' = 1
      BY <1>3, <1>4, <2>1, FrameTurns, Numbers
    <2>3. AskEsc
      BY <1>4 DEF Dshot_sending
    <2>4. slot' = "asked"
      BY <2>3 DEF AskEsc
    <2>5. /\ toCome'[dshot_motor] \in {0, ESC_T_MESSAGE_LENGTH}
          /\ \A m \in Motors : m # dshot_motor => toCome'[m] = 0
      BY <2>1, <2>3, <1>2 DEF AskEsc, TypeInv
    <2>6. age'[dshot_motor] = 0
      BY <2>3, <1>2 DEF AskEsc
    <2>7. Answering'
      <3> SUFFICES ASSUME NEW m \in Motors, toCome'[m] > 0
                   PROVE  /\ m = dshot_motor /\ telem_requested /\ frame' # 0
                          /\ ~(age'[m] < frame' - 1)
        BY <1>1 DEF Answering
      <3>1. m = dshot_motor
        BY <2>5
      <3> QED
        BY <3>1, <2>1, <2>2, <2>6
    <2>8. Len(g_escTlmRaw') = 0
      BY <1>1, <2>1, EmptyFits
    <2>9. Buffered'
      <3>1. toCome'[dshot_motor'] <= ESC_T_MESSAGE_LENGTH
        BY <1>1, <2>5, Numbers
      <3>2. ~g_escTlmComplete'
        BY <1>1, <2>1, EmptyFits, Numbers DEF Quiet, Buffered
      <3> QED
        BY <3>1, <3>2, <2>1, <2>5, <2>8, <1>1, Numbers DEF Buffered
    <2>10. SlotKnown'
      BY <1>1, <2>1, <2>4, <2>5, <2>8, Numbers DEF SlotKnown
    <2>11. Streaks'
      <3>1. Len(g_escTlmRaw') # ESC_T_MESSAGE_LENGTH
        BY <2>8, Numbers
      <3>2. ASSUME NEW m \in Motors, dshot_tlm_miss_streak'[m] < MISS_LIMIT
            PROVE  unanswered'[m] <= dshot_tlm_miss_streak'[m] + Pending(m)'
        <4>1. Pending(m) = 0 /\ Pending(m)' = (IF m = dshot_motor THEN 1 ELSE 0)
          BY <1>1, <2>1, <2>4 DEF Pending
        <4>2. unanswered[m] <= dshot_tlm_miss_streak[m] + 0
          BY <3>2, <4>1, <1>1 DEF Quiet, Streaks
        <4>3. unanswered[m] \in Nat /\ dshot_tlm_miss_streak[m] \in Nat
          BY DEF TypeInv
        <4>4. CASE m = dshot_motor
          <5>1. unanswered'[m] \in {0, AtMost(unanswered[m] + 1, MISS_LIMIT + 1)}
            BY <2>3, <4>4 DEF AskEsc, TypeInv
          <5>2. unanswered'[m] <= unanswered[m] + 1
            BY <5>1, <4>3, Numbers DEF AtMost
          <5>3. unanswered'[m] \in Nat
            BY <5>1, <4>3, Numbers DEF AtMost
          <5> QED
            BY <5>2, <5>3, <4>1, <4>2, <4>3, <4>4, <1>1
        <4>5. CASE m # dshot_motor
          <5>1. unanswered'[m] = unanswered[m]
            BY <2>3, <4>5 DEF AskEsc, TypeInv
          <5> QED
            BY <5>1, <4>1, <4>2, <4>5, <1>1
        <4> QED
          BY <4>4, <4>5
      <3>3. \A m \in Motors : alive'[m] => dshot_tlm_miss_streak'[m] < MISS_LIMIT
        BY <1>1 DEF Quiet, Streaks
      <3> QED
        BY <3>1, <3>2, <3>3 DEF Streaks
    <2>12. Filed'
      BY <1>1 DEF Quiet, Filed
    <2> QED
      BY <2>7, <2>9, <2>10, <2>11, <2>12 DEF Quiet
  <1>5. CASE ~(dshot_stream_allowed' /\ TelemDue)
    <2>1. NoRequest
      BY <1>5 DEF Dshot_sending
    <2>2. UNCHANGED <<slot, unanswered, toCome>>
      BY <2>1 DEF NoRequest
    <2>3. Answering'
      <3> SUFFICES ASSUME NEW m \in Motors, toCome[m] > 0
                   PROVE  /\ m = dshot_motor /\ telem_requested /\ frame' # 0
                          /\ age'[m] < frame' - 1 => age'[m] = MaxAnswer
        BY <1>1, <2>2 DEF Answering
      <3>1. /\ m = dshot_motor /\ telem_requested /\ frame # 0 /\ age[m] < MaxAnswer
            /\ ~(age[m] < frame - 1)
        <4>1. age[m] \in Nat
          BY Numbers DEF TypeInv
        <4> QED
          BY <4>1, <1>1, Numbers DEF Quiet, Answering
      <3>2. age[m] \in Nat /\ age'[m] = age[m] + 1
        <4>1. age[m] \in Nat
          BY Numbers DEF TypeInv
        <4> QED
          BY <4>1, <3>1, <2>1, Numbers DEF NoRequest, AtMost
      <3>3. frame \in Nat /\ frame + 1 < TLM_SLOT
        BY <3>1, <3>2, <1>2, Numbers
      <3>4. frame' \in {frame, frame + 1}
        BY <1>2, <1>3, <3>3, FrameTurns
      <3> QED
        BY <3>1, <3>2, <3>3, <3>4
    <2>4. Buffered'
      BY <1>1, <2>2 DEF Quiet, Buffered
    <2>5. SlotKnown'
      BY <1>1, <2>2 DEF Quiet, SlotKnown
    <2>6. Streaks' /\ Filed'
      BY <1>1, <2>2 DEF Quiet, Streaks, Pending, Filed
    <2> QED
      BY <2>3, <2>4, <2>5, <2>6 DEF Quiet
  <1> QED
    BY <1>4, <1>5

(* On a quiet wire a full buffer is the whole answer of the motor asked.   *)
LEMMA FullIsItsAnswer ==
  ASSUME TypeInv, Quiet, g_escTlmComplete
  PROVE  /\ Len(g_escTlmRaw) = ESC_T_MESSAGE_LENGTH /\ toCome[dshot_motor] = 0
         /\ g_escTlmRaw = Answer(dshot_motor)
  <1>1. Len(g_escTlmRaw) = ESC_T_MESSAGE_LENGTH
    BY DEF Quiet, Buffered
  <1>2. toCome[dshot_motor] = 0
    <2>1. toCome[dshot_motor] \in Nat
      BY DEF TypeInv
    <2> QED
      BY <2>1, <1>1, Numbers DEF Quiet, Buffered
  <1>3. ASSUME NEW i \in 1 .. ESC_T_MESSAGE_LENGTH
        PROVE  g_escTlmRaw[i] = Byte(dshot_motor, i)
    <2>1. g_escTlmRaw[i] \in Wire
      BY <1>1 DEF TypeInv
    <2>2. g_escTlmRaw[i].pos \in Nat
      BY <2>1 DEF Wire
    <2>3. /\ g_escTlmRaw[i].esc = dshot_motor /\ i <= g_escTlmRaw[i].pos
          /\ g_escTlmRaw[i].pos + Len(g_escTlmRaw) - i + toCome[dshot_motor]
               <= ESC_T_MESSAGE_LENGTH
      BY <1>1 DEF Quiet, Buffered
    <2>4. g_escTlmRaw[i].pos = i
      BY <1>1, <1>2, <2>2, <2>3, Numbers
    <2> QED
      BY <2>1, <2>3, <2>4 DEF Wire, Byte
  <1>4. g_escTlmRaw \in Seq(Wire)
    BY DEF TypeInv
  <1>5. g_escTlmRaw = [i \in 1 .. Len(g_escTlmRaw) |-> g_escTlmRaw[i]]
    BY <1>4
  <1>6. g_escTlmRaw = [i \in 1 .. ESC_T_MESSAGE_LENGTH |-> Byte(dshot_motor, i)]
    BY <1>1, <1>3, <1>5
  <1> QED
    BY <1>1, <1>2, <1>6 DEF Answer

(* What is decoded is filed under the motor that was asked.                *)
LEMMA QuietDecode == TypeInv /\ Quiet /\ Dshot_telem_decode => Quiet'
  <1> SUFFICES ASSUME TypeInv, Quiet, Dshot_telem_decode PROVE Quiet'
    OBVIOUS
  <1>1. /\ pc' = "request"
        /\ UNCHANGED <<frame, dshot_motor, toCome, age, unanswered>>
    BY DEF Dshot_telem_decode, escs
  <1>2. dshot_motor \in Motors
    BY DEF TypeInv
  <1>3. CASE telem_requested /\ g_escTlmComplete
    <2>1. /\ Len(g_escTlmRaw) = ESC_T_MESSAGE_LENGTH /\ toCome[dshot_motor] = 0
          /\ g_escTlmRaw = Answer(dshot_motor)
      BY <1>3, FullIsItsAnswer
    <2>2. CrcOk(g_escTlmRaw) /\ g_escTlmRaw[1].esc = dshot_motor
      BY <2>1, <1>2, Numbers DEF CrcOk, Answer, Byte
    <2>3. /\ packet' = [packet EXCEPT ![dshot_motor] = dshot_motor]
          /\ alive' = [alive EXCEPT ![dshot_motor] = TRUE]
          /\ dshot_tlm_miss_streak' = [dshot_tlm_miss_streak EXCEPT ![dshot_motor] = 0]
          /\ slot' = "stored" /\ g_escTlmRaw' = <<>> /\ g_escTlmComplete' = FALSE
          /\ telem_requested' = FALSE
      BY <1>3, <2>2 DEF Dshot_telem_decode, Dshot_interpret_ESC_Tlm
    <2>4. \A m \in Motors : ~(toCome'[m] > 0)
      BY <1>1, <2>1 DEF Quiet, Answering
    <2>5. Len(g_escTlmRaw') = 0
      BY <2>3, EmptyFits
    <2>6. Answering'
      BY <2>4 DEF Answering
    <2>7. Buffered'
      BY <1>1, <2>1, <2>3, <2>5, Numbers DEF Buffered
    <2>8. SlotKnown'
      BY <1>1, <2>3 DEF SlotKnown
    <2>9. Streaks'
      <3>1. Len(g_escTlmRaw') # ESC_T_MESSAGE_LENGTH
        BY <2>5, Numbers
      <3>2. ASSUME NEW m \in Motors
            PROVE  /\ alive'[m] => dshot_tlm_miss_streak'[m] < MISS_LIMIT
                   /\ dshot_tlm_miss_streak'[m] < MISS_LIMIT
                        => unanswered'[m] <= dshot_tlm_miss_streak'[m] + Pending(m)'
        <4>1. Pending(m)' = 0
          BY <2>3 DEF Pending
        <4>2. CASE m = dshot_motor
          <5>1. dshot_tlm_miss_streak'[m] = 0
            BY <2>3, <4>2 DEF TypeInv
          <5>2. unanswered'[m] = 0
            BY <1>1, <2>1, <4>2 DEF Quiet, Streaks
          <5> QED
            BY <4>1, <5>1, <5>2, Numbers
        <4>3. CASE m # dshot_motor
          <5>1. dshot_tlm_miss_streak'[m] = dshot_tlm_miss_streak[m] /\ alive'[m] = alive[m]
            BY <2>3, <4>3 DEF TypeInv
          <5>2. Pending(m) = 0
            BY <4>3 DEF Pending
          <5> QED
            BY <4>1, <5>1, <5>2, <1>1 DEF Quiet, Streaks
        <4> QED
          BY <4>2, <4>3
      <3> QED
        BY <3>1, <3>2 DEF Streaks
    <2>10. Filed'
      BY <2>3, <1>2 DEF Quiet, Filed, TypeInv
    <2> QED
      BY <2>6, <2>7, <2>8, <2>9, <2>10 DEF Quiet
  <1>4. CASE ~(telem_requested /\ g_escTlmComplete)
    <2>1. UNCHANGED <<packet, alive, dshot_tlm_miss_streak, slot, g_escTlmRaw,
                      g_escTlmComplete, telem_requested>>
      BY <1>4 DEF Dshot_telem_decode, buffer
    <2>2. slot # "whole"
      BY <1>4 DEF Quiet, SlotKnown, Buffered
    <2>3. Answering'
      BY <1>1, <2>1 DEF Quiet, Answering
    <2>4. Buffered'
      BY <1>1, <2>1 DEF Quiet, Buffered
    <2>5. SlotKnown'
      BY <1>1, <2>1, <2>2 DEF Quiet, SlotKnown
    <2>6. Streaks' /\ Filed'
      BY <1>1, <2>1 DEF Quiet, Streaks, Pending, Filed
    <2> QED
      BY <2>3, <2>4, <2>5, <2>6 DEF Quiet
  <1> QED
    BY <1>3, <1>4

(* As long as no stray byte has come, every step keeps what the wire means. *)
LEMMA InvStep == Inv /\ [Next]_vars => Inv'
  <1> SUFFICES ASSUME Inv, [Next]_vars PROVE Inv'
    OBVIOUS
  <1>1. TypeInv /\ TypeInv'
    BY TypesStep DEF Inv
  <1>2. CASE noisy'
    BY <1>1, <1>2 DEF Inv
  <1>3. CASE ~noisy'
    <2>1. ~Stray
      BY <1>3 DEF Stray
    <2>2. ~noisy
      BY <2>1, <1>3 DEF Next, EscByte, EscDies, EscComesBack, Dshot_task, Dshot_telem_request,
                        Dshot_sending, Dshot_telem_decode, vars, history
    <2>3. Quiet
      BY <2>2 DEF Inv
    <2>4. ASSUME UNCHANGED vars PROVE Quiet'
      BY <2>3, <2>4 DEF vars, driver, buffer, escs, history, Quiet, Answering, Buffered,
                        SlotKnown, Streaks, Pending, Filed
    <2>5. Quiet'
      BY <1>1, <2>1, <2>3, <2>4, QuietEscByte, QuietEscLife, QuietRequest, QuietSending,
         QuietDecode DEF Next, Dshot_task
    <2> QED
      BY <1>1, <2>5 DEF Inv
  <1> QED
    BY <1>2, <1>3

-----------------------------------------------------------------------------
(* The types, and on a quiet wire what buffer, slot and streaks mean, hold *)
(* in every state of the driver.                                           *)
THEOREM Invariance == Spec => []Inv
  <1>1. Init => Inv
    BY TypesAtReset, QuietAtReset DEF Inv
  <1> QED
    BY <1>1, InvStep, PTL DEF Spec

(* Every packet is filed under the motor it came from, for every number of *)
(* motors and every spacing of requests that leaves an answer its time.    *)
THEOREM Filing == Spec => []PacketOfItsMotor
  <1>1. Inv => PacketOfItsMotor
    BY DEF Inv, Quiet, Filed, PacketOfItsMotor
  <1> QED
    BY <1>1, Invariance, PTL

(* An ESC reported alive has answered one of its last MISS_LIMIT requests, *)
(* the open one aside, however long the streak's counter saturates.        *)
THEOREM Alive == Spec => []AliveMeansAnswered
  <1>1. Inv => AliveMeansAnswered
    <2> SUFFICES ASSUME Inv, ~noisy, NEW m \in Motors, alive[m]
                 PROVE  unanswered[m] <= MISS_LIMIT
      BY DEF AliveMeansAnswered
    <2>1. TypeInv /\ Streaks
      BY DEF Inv, Quiet
    <2>2. dshot_tlm_miss_streak[m] \in Nat /\ unanswered[m] \in Nat /\ Pending(m) \in 0 .. 1
      BY <2>1 DEF TypeInv, Pending
    <2>3. dshot_tlm_miss_streak[m] < MISS_LIMIT
      BY <2>1 DEF Streaks
    <2>4. unanswered[m] <= dshot_tlm_miss_streak[m] + Pending(m)
      BY <2>1, <2>3 DEF Streaks
    <2> QED
      BY <2>2, <2>3, <2>4, Numbers
  <1> QED
    BY <1>1, Invariance, PTL

(* A slot ends with the right outcome: a whole answer is stored, and a     *)
(* miss is counted for every other one.                                    *)
THEOREM Slots == Spec => SlotOutcome
  <1> DEFINE Right ==
        Dshot_telem_request /\ TelemDue /\ slot # "none" /\ ~noisy =>
          slot # "whole" /\ telem_requested = (slot # "stored")
  <1>1. Inv => Right
    <2> SUFFICES ASSUME Inv, Dshot_telem_request, TelemDue, slot # "none", ~noisy
                 PROVE  slot # "whole" /\ telem_requested = (slot # "stored")
      OBVIOUS
    <2>1. TypeInv /\ SlotKnown
      BY DEF Inv, Quiet
    <2>2. pc = "request" /\ frame = 0
      BY DEF Dshot_telem_request, TelemDue
    <2>3. slot # "whole"
      BY <2>1, <2>2 DEF SlotKnown
    <2>4. CASE slot = "stored"
      <3>1. ~telem_requested
        BY <2>1, <2>4 DEF SlotKnown
      <3> QED
        BY <2>4, <3>1, <2>1 DEF TypeInv
    <2>5. CASE slot \in {"asked", "broken"}
      <3>1. telem_requested = TRUE
        BY <2>1, <2>5 DEF SlotKnown, TypeInv
      <3> QED
        BY <2>3, <2>5, <3>1
    <2> QED
      BY <2>1, <2>3, <2>4, <2>5 DEF TypeInv
  <1>2. Inv /\ [Next]_vars => [Right]_vars
    BY <1>1
  <1> QED
    BY <1>2, Invariance, PTL DEF Spec, SlotOutcome

-----------------------------------------------------------------------------
(* Shifts and words of twenty bits.                                        *)

Power(k) == 2^k

(* The powers of two that fit an answer.                                   *)
LEMMA Powers ==
  /\ Power(0) = 1 /\ Power(1) = 2 /\ Power(2) = 4 /\ Power(3) = 8
  /\ Power(4) = 16 /\ Power(5) = 32 /\ Power(6) = 64 /\ Power(7) = 128
  /\ Power(8) = 256 /\ Power(9) = 512 /\ Power(10) = 1024 /\ Power(11) = 2048
  /\ Power(12) = 4096 /\ Power(13) = 8192 /\ Power(14) = 16384 /\ Power(15) = 32768
  /\ Power(16) = 65536 /\ Power(17) = 131072 /\ Power(18) = 262144 /\ Power(19) = 524288
  /\ Power(20) = 1048576
  BY DEF Power

(* Each is twice the one before.                                           *)
LEMMA Doubling ==
  /\ \A k \in 0 .. 20 : Power(k) \in Nat /\ Power(k) > 0
  /\ \A k \in 0 .. 19 : Power(k + 1) = 2 * Power(k)
  BY Powers

(* A shift left multiplies by one,                                         *)
LEMMA ShiftsLeft == \A n, k : ShiftLeft(n, k) = n * Power(k)
  BY DEF ShiftLeft, Power

(* and a shift right divides.                                              *)
LEMMA ShiftsRight ==
  ASSUME NEW n \in Nat
  PROVE  /\ ShiftRight(n, 0) = n /\ ShiftRight(n, 1) = n \div 2
         /\ ShiftRight(n, 2) = n \div 4 /\ ShiftRight(n, 3) = n \div 8
         /\ ShiftRight(n, 4) = n \div 16 /\ ShiftRight(n, 5) = n \div 32
         /\ ShiftRight(n, 6) = n \div 64 /\ ShiftRight(n, 7) = n \div 128
         /\ ShiftRight(n, 10) = n \div 1024 /\ ShiftRight(n, 15) = n \div 32768
  BY DEF ShiftRight

(* The ones of a word of twenty bits, as numbers.                          *)
One(S, k) == IF k \in S THEN 1 ELSE 0
Quintet(S, i) ==
  16 * One(S, 5 * i - 4) + 8 * One(S, 5 * i - 3) + 4 * One(S, 5 * i - 2)
    + 2 * One(S, 5 * i - 1) + One(S, 5 * i)
Number(S) ==
  32768 * Quintet(S, 1) + 1024 * Quintet(S, 2) + 32 * Quintet(S, 3) + Quintet(S, 4)

(* Five bits are a number below 32.                                        *)
LEMMA QuintetRange == \A S : \A i \in 1 .. 4 : Quintet(S, i) \in 0 .. 31
  BY DEF Quintet, One

(* One more one in the word adds its weight to the five bits it is among,  *)
LEMMA QuintetGains ==
  ASSUME NEW S, NEW k \in 1 .. 20, k \notin S, NEW i \in 1 .. 4
  PROVE  Quintet(S \cup {k}, i)
           = Quintet(S, i)
               + (IF 5 * i - 4 <= k /\ k <= 5 * i THEN Power(5 * i - k) ELSE 0)
  <1> DEFINE T == S \cup {k}
  <1>1. \A j \in Int : One(T, j) \in Int /\ One(S, j) \in Int
                           /\ One(T, j) = IF j = k THEN 1 ELSE One(S, j)
    BY DEF One
  <1>2. One(S, k) = 0
    BY DEF One
  <1> HIDE DEF T
  <1>3. Quintet(T, i) = Quintet(S, i) + (16 * (One(T, 5 * i - 4) - One(S, 5 * i - 4))
             + 8 * (One(T, 5 * i - 3) - One(S, 5 * i - 3))
             + 4 * (One(T, 5 * i - 2) - One(S, 5 * i - 2))
             + 2 * (One(T, 5 * i - 1) - One(S, 5 * i - 1)) + (One(T, 5 * i) - One(S, 5 * i)))
    BY <1>1 DEF Quintet
  <1>4. \A j \in Int : One(T, j) - One(S, j) = IF j = k THEN 1 ELSE 0
    BY <1>1, <1>2
  <1>5. Quintet(S, i) \in Int
    BY <1>1 DEF Quintet
  <1>6. Quintet(T, i) = Quintet(S, i)
           + (IF k = 5 * i - 4 THEN 16 ELSE IF k = 5 * i - 3 THEN 8 ELSE IF k = 5 * i - 2 THEN 4
              ELSE IF k = 5 * i - 1 THEN 2 ELSE IF k = 5 * i THEN 1 ELSE 0)
    BY <1>3, <1>4, <1>5
  <1>7. (IF 5 * i - 4 <= k /\ k <= 5 * i THEN Power(5 * i - k) ELSE 0)
         = (IF k = 5 * i - 4 THEN 16 ELSE IF k = 5 * i - 3 THEN 8 ELSE IF k = 5 * i - 2 THEN 4
              ELSE IF k = 5 * i - 1 THEN 2 ELSE IF k = 5 * i THEN 1 ELSE 0)
    BY Powers
  <1> QED
    BY <1>6, <1>7 DEF T

(* Shifting and masking the word, as the decoder does, gives its five bits *)
(* back.                                                                   *)
LEMMA QuintetsOfNumber ==
  ASSUME NEW S, NEW i \in 1 .. 4
  PROVE  ShiftRight(Number(S), 5 * (4 - i)) % 32 = Quintet(S, i)
  <1> DEFINE a == Quintet(S, 1)
             b == Quintet(S, 2)
             c == Quintet(S, 3)
             d == Quintet(S, 4)
             n == Number(S)
  <1>1. a \in 0 .. 31 /\ b \in 0 .. 31 /\ c \in 0 .. 31 /\ d \in 0 .. 31
    BY QuintetRange
  <1>2. n = 32768 * a + 1024 * b + 32 * c + d
    BY DEF Number
  <1>3. /\ ShiftRight(n, 15) = n \div 32768 /\ ShiftRight(n, 10) = n \div 1024
        /\ ShiftRight(n, 5) = n \div 32 /\ ShiftRight(n, 0) = n
    <2> HIDE DEF a, b, c, d, n
    <2>1. n \in Nat
      BY <1>1, <1>2
    <2> QED
      BY <2>1, ShiftsRight
  <1> DEFINE shifted == ShiftRight(n, 5 * (4 - i))
             quintet == Quintet(S, i)
  <1>4. \/ i = 1 /\ shifted = ShiftRight(n, 15) /\ quintet = a
        \/ i = 2 /\ shifted = ShiftRight(n, 10) /\ quintet = b
        \/ i = 3 /\ shifted = ShiftRight(n, 5) /\ quintet = c
        \/ i = 4 /\ shifted = ShiftRight(n, 0) /\ quintet = d
    OBVIOUS
  <1> HIDE DEF a, b, c, d, n, shifted, quintet
  <1>5. n \div 32768 = a
    BY <1>1, <1>2
  <1>6. n \div 1024 = 32 * a + b
    BY <1>1, <1>2
  <1>7. n \div 32 = 1024 * a + 32 * b + c
    BY <1>1, <1>2
  <1>8. /\ (n \div 32768) % 32 = a /\ (n \div 1024) % 32 = b /\ (n \div 32) % 32 = c
        /\ n % 32 = d
    BY <1>1, <1>2, <1>5, <1>6, <1>7
  <1>9. shifted % 32 = quintet
    BY <1>3, <1>4, <1>8
  <1> QED
    BY <1>9 DEF n, shifted, quintet

(* and to the word.                                                        *)
LEMMA OneGained ==
  ASSUME NEW S, NEW k \in 1 .. 20, k \notin S
  PROVE  Number(S \cup {k}) = Number(S) + Power(20 - k)
  <1> DEFINE T == S \cup {k}
             gain(i) == IF 5 * i - 4 <= k /\ k <= 5 * i THEN Power(5 * i - k) ELSE 0
  <1>1. \A i \in 1 .. 4 : Quintet(T, i) = Quintet(S, i) + gain(i)
    BY QuintetGains
  <1>2. \A i \in 1 .. 4 : Quintet(S, i) \in Int
    BY QuintetRange
  <1>3. /\ gain(1) \in Int /\ gain(2) \in Int /\ gain(3) \in Int /\ gain(4) \in Int
        /\ 32768 * gain(1) + 1024 * gain(2) + 32 * gain(3) + gain(4) = Power(20 - k)
    BY Powers
  <1> HIDE DEF T, gain
  <1>4. Number(T) = Number(S) + Power(20 - k)
    BY <1>1, <1>2, <1>3 DEF Number
  <1> QED
    BY <1>4 DEF T

-----------------------------------------------------------------------------
(* The codes, and what the ESC sends.                                      *)

Codes ==
  \A n \in 0 .. 15 :
    GCR_CODES[n + 1] \in 1 .. 31 /\ GCR_DECODE_TABLE[GCR_CODES[n + 1]] = n

(* The decoder's table inverts the ESC's: every nibble has a code other    *)
(* than zero.                                                              *)
LEMMA CodesInvert == Codes
  <1> SUFFICES ASSUME NEW n \in 0 .. 15
               PROVE  /\ GCR_CODES[n + 1] \in 1 .. 31
                      /\ GCR_DECODE_TABLE[GCR_CODES[n + 1]] = n
    BY DEF Codes
  <1>1. GCR_CODES[n + 1] \in 1 .. 31
    BY DEF GCR_CODES
  <1>2. GCR_DECODE_TABLE[GCR_CODES[n + 1]] = n
    BY <1>1 DEF GCR_CODES, GCR_DECODE_TABLE
  <1> QED
    BY <1>1, <1>2

(* Five zeros are no code.                                                 *)
LEMMA NoCodeAtZero == GCR_DECODE_TABLE[0] = NoCode
  BY DEF GCR_DECODE_TABLE

(* The checksum is a nibble.                                               *)
LEMMA ChecksumIsNibble ==
  ASSUME NEW n, n[1] \in 0 .. 15, n[2] \in 0 .. 15, n[3] \in 0 .. 15
  PROVE  Checksum(n) \in 0 .. 15
  <1> DEFINE even(i) == (1 + Bit(n[1], i) + Bit(n[2], i) + Bit(n[3], i)) % 2
  <1>1. \A i \in 0 .. 3, k \in 0 .. 15 : Bit(k, i) \in {0, 1}
    <2> SUFFICES ASSUME NEW i \in 0 .. 3, NEW k \in 0 .. 15 PROVE Bit(k, i) \in {0, 1}
      OBVIOUS
    <2>1. ShiftRight(k, 0) = k /\ ShiftRight(k, 1) = k \div 2 /\ ShiftRight(k, 2) = k \div 4
          /\ ShiftRight(k, 3) = k \div 8
      BY DEF ShiftRight
    <2>2. ShiftRight(k, i) \in Nat
      BY <2>1
    <2> QED
      BY <2>2 DEF Bit
  <1>2. \A i \in 0 .. 3 : even(i) \in {0, 1}
    BY <1>1
  <1>3. Checksum(n) = 8 * even(3) + 4 * even(2) + 2 * even(1) + even(0)
    BY DEF Checksum
  <1> HIDE DEF even
  <1> QED
    BY <1>2, <1>3

(* Nine bits are left of p, shifted by e, and no shorter shift leaves      *)
(* nine.                                                                   *)
LeavesNine(p, e) == ShiftRight(p, e) < 512 /\ (e = 0 \/ ShiftRight(p, e - 1) >= 512)

(* Some exponent leaves nine bits, so the ESC's is one.                    *)
LEMMA ExponentFound ==
  ASSUME NEW p \in Nat, p < 65536
  PROVE  Exponent(p) \in 0 .. 7 /\ LeavesNine(p, Exponent(p))
  <1>1. Exponent(p) = CHOOSE e \in 0 .. 7 : LeavesNine(p, e)
    BY DEF Exponent, LeavesNine
  <1>2. /\ ShiftRight(p, 0) = p /\ ShiftRight(p, 1) = p \div 2 /\ ShiftRight(p, 2) = p \div 4
        /\ ShiftRight(p, 3) = p \div 8 /\ ShiftRight(p, 4) = p \div 16
        /\ ShiftRight(p, 5) = p \div 32 /\ ShiftRight(p, 6) = p \div 64
        /\ ShiftRight(p, 7) = p \div 128
    BY ShiftsRight
  <1>3. \E e \in 0 .. 7 : LeavesNine(p, e)
    <2>1. CASE p < 512
      <3>1. LeavesNine(p, 0)
        BY <1>2, <2>1 DEF LeavesNine
      <3> QED
        BY <3>1
    <2>2. CASE 512 <= p /\ p < 1024
      <3>1. LeavesNine(p, 1)
        BY <1>2, <2>2 DEF LeavesNine
      <3> QED
        BY <3>1
    <2>3. CASE 1024 <= p /\ p < 2048
      <3>1. LeavesNine(p, 2)
        BY <1>2, <2>3 DEF LeavesNine
      <3> QED
        BY <3>1
    <2>4. CASE 2048 <= p /\ p < 4096
      <3>1. LeavesNine(p, 3)
        BY <1>2, <2>4 DEF LeavesNine
      <3> QED
        BY <3>1
    <2>5. CASE 4096 <= p /\ p < 8192
      <3>1. LeavesNine(p, 4)
        BY <1>2, <2>5 DEF LeavesNine
      <3> QED
        BY <3>1
    <2>6. CASE 8192 <= p /\ p < 16384
      <3>1. LeavesNine(p, 5)
        BY <1>2, <2>6 DEF LeavesNine
      <3> QED
        BY <3>1
    <2>7. CASE 16384 <= p /\ p < 32768
      <3>1. LeavesNine(p, 6)
        BY <1>2, <2>7 DEF LeavesNine
      <3> QED
        BY <3>1
    <2>8. CASE 32768 <= p /\ p < 65536
      <3>1. LeavesNine(p, 7)
        BY <1>2, <2>8 DEF LeavesNine
      <3> QED
        BY <3>1
    <2> QED
      BY <2>1, <2>2, <2>3, <2>4, <2>5, <2>6, <2>7, <2>8
  <1> QED
    BY <1>1, <1>3

(* What a message carries.                                                 *)
LEMMA DataSent ==
  /\ \A p \in Periods : p \in Nat /\ p < 65536
  /\ \A t \in Tags : t \in 2 .. 14 /\ t % 2 = 0
  /\ \A b \in Payloads : b \in 0 .. 255
  <1>1. \A p \in Periods : p \in Nat /\ p < 65536
    BY ReplyAssumption
  <1>2. Tags \subseteq {2, 4, 6, 8, 10, 12, 14} /\ Payloads \subseteq 0 .. 255
    BY ReplyAssumption, Zenon
  <1>3. \A t \in Tags : t \in 2 .. 14 /\ t % 2 = 0
    BY <1>2
  <1> QED
    BY <1>1, <1>2, <1>3

(* Twelve bits are enough for it.                                          *)
LEMMA TwelveBits ==
  ASSUME NEW m \in Messages
  PROVE  Twelve(m) \in Nat /\ Twelve(m) < 4096
  <1>1. CASE m \in [period : Periods]
    <2> DEFINE p == m.period
               e == Exponent(p)
    <2>1. p \in Nat /\ p < 65536
      BY <1>1, DataSent
    <2>2. "period" \in DOMAIN m
      BY <1>1
    <2>3. Twelve(m) = e * 512 + ShiftRight(p, e)
      BY <2>2 DEF Twelve
    <2>4. e \in 0 .. 7 /\ ShiftRight(p, e) < 512
      BY <2>1, ExponentFound DEF LeavesNine
    <2>5. ShiftRight(p, e) \in Nat
      <3>1. /\ ShiftRight(p, 0) = p /\ ShiftRight(p, 1) = p \div 2 /\ ShiftRight(p, 2) = p \div 4
            /\ ShiftRight(p, 3) = p \div 8 /\ ShiftRight(p, 4) = p \div 16
            /\ ShiftRight(p, 5) = p \div 32 /\ ShiftRight(p, 6) = p \div 64
            /\ ShiftRight(p, 7) = p \div 128
        BY <2>1, ShiftsRight
      <3> HIDE DEF p, e
      <3> QED
        BY <2>1, <2>4, <3>1
    <2> HIDE DEF p, e
    <2> QED
      BY <2>3, <2>4, <2>5
  <1>2. CASE m \in [tag : Tags, byte : Payloads]
    <2> DEFINE t == m.tag
               b == m.byte
    <2>1. t \in Tags /\ b \in Payloads /\ "period" \notin DOMAIN m
      BY <1>2
    <2>2. t \in 0 .. 14 /\ b \in 0 .. 255
      BY <2>1, DataSent
    <2>3. Twelve(m) = t * 256 + b
      BY <2>1 DEF Twelve
    <2> HIDE DEF t, b
    <2> QED
      BY <2>2, <2>3
  <1> QED
    BY <1>1, <1>2 DEF Messages

(* Three nibbles hold it, and the fourth agrees with them.                 *)
LEMMA NibblesSent ==
  ASSUME NEW m \in Messages
  PROVE  LET n == Nibbles(m)
         IN  /\ n[1] \in 0 .. 15 /\ n[2] \in 0 .. 15 /\ n[3] \in 0 .. 15 /\ n[4] \in 0 .. 15
             /\ 256 * n[1] + 16 * n[2] + n[3] = Twelve(m)
             /\ Checksum(n) = n[4]
  <1> DEFINE v == Twelve(m)
             t == <<v \div 256, (v \div 16) % 16, v % 16>>
             n == Nibbles(m)
  <1>1. v \in Nat /\ v < 4096
    BY TwelveBits
  <1>2. n = <<t[1], t[2], t[3], Checksum(t)>>
    BY DEF Nibbles
  <1>3. n[1] = v \div 256 /\ n[2] = (v \div 16) % 16 /\ n[3] = v % 16 /\ n[4] = Checksum(t)
    <2> DEFINE c == Checksum(t)
    <2>1. n = <<t[1], t[2], t[3], c>>
      BY <1>2
    <2>2. n[4] = c
      BY <2>1
    <2> HIDE DEF c, v, n
    <2>3. n[1] = v \div 256 /\ n[2] = (v \div 16) % 16 /\ n[3] = v % 16
      BY <2>1
    <2> QED
      BY <2>2, <2>3 DEF c
  <1>4. t[1] = n[1] /\ t[2] = n[2] /\ t[3] = n[3]
    <2> HIDE DEF v, n
    <2> QED
      BY <1>3
  <1>5. Checksum(t) = Checksum(n)
    <2> HIDE DEF t, n
    <2> QED
      BY <1>4 DEF Checksum
  <1>6. n[1] \in 0 .. 15 /\ n[2] \in 0 .. 15 /\ n[3] \in 0 .. 15 
        /\ 256 * n[1] + 16 * n[2] + n[3] = v
    <2> HIDE DEF t, n, v
    <2>1. (v \div 16) \div 16 = v \div 256
      BY <1>1
    <2> QED
      BY <1>1, <1>3
  <1>7. Checksum(n) \in 0 .. 15
    <2> HIDE DEF t, n, v
    <2> QED
      BY <1>6, ChecksumIsNibble
  <1> HIDE DEF t, n, v
  <1>8. n[4] \in 0 .. 15 /\ Checksum(n) = n[4]
    BY <1>3, <1>5, <1>7
  <1> QED
    BY <1>6, <1>8 DEF n, v

(* The ones of the answer are those of the codes of its nibbles.           *)
LEMMA QuintetsSent ==
  ASSUME NEW m \in Messages, NEW i \in 1 .. 4
  PROVE  Quintet(Ones(m), i) = GCR_CODES[Nibbles(m)[i] + 1]
  <1> DEFINE c == GCR_CODES[Nibbles(m)[i] + 1]
  <1>1. c \in 1 .. 31
    <2>1. Nibbles(m)[i] \in 0 .. 15
      BY NibblesSent
    <2> QED
      BY <2>1, CodesInvert DEF Codes
  <1>2. \A j \in 0 .. 4 : Bit(c, j) \in {0, 1}
    <2> HIDE DEF c
    <2>1. /\ ShiftRight(c, 0) = c /\ ShiftRight(c, 1) = c \div 2 /\ ShiftRight(c, 2) = c \div 4
          /\ ShiftRight(c, 3) = c \div 8 /\ ShiftRight(c, 4) = c \div 16
      BY <1>1, ShiftsRight
    <2>2. \A j \in 0 .. 4 : ShiftRight(c, j) \in Nat
      BY <1>1, <2>1
    <2> QED
      BY <2>2 DEF Bit
  <1>3. \A j \in 0 .. 4 : One(Ones(m), 5 * i - j) = Bit(c, j)
    <2> SUFFICES ASSUME NEW j \in 0 .. 4
                 PROVE  One(Ones(m), 5 * i - j) = Bit(c, j)
      OBVIOUS
    <2> DEFINE k == 5 * i - j
    <2>1. k \in 1 .. 20 /\ (k + 4) \div 5 = i /\ (20 - k) % 5 = j
      OBVIOUS
    <2> HIDE DEF k
    <2>2. k \in Ones(m) <=> Bit(c, j) = 1
      BY <2>1 DEF Ones, DSHOT_REPLY_GCR_BITS
    <2> HIDE DEF c
    <2>3. One(Ones(m), k) = Bit(c, j)
      BY <1>2, <2>2 DEF One
    <2> QED
      BY <2>3 DEF k
  <1> HIDE DEF c
  <1>4. Quintet(Ones(m), i) = 16 * Bit(c, 4) + 8 * Bit(c, 3) + 4 * Bit(c, 2)
                              + 2 * Bit(c, 1) + Bit(c, 0)
    <2>1. 5 * i - 0 = 5 * i
      OBVIOUS
    <2>2. /\ One(Ones(m), 5 * i - 4) = Bit(c, 4) /\ One(Ones(m), 5 * i - 3) = Bit(c, 3)
          /\ One(Ones(m), 5 * i - 2) = Bit(c, 2) /\ One(Ones(m), 5 * i - 1) = Bit(c, 1)
          /\ One(Ones(m), 5 * i) = Bit(c, 0)
      BY <1>3, <2>1
    <2> QED
      BY <2>2 DEF Quintet
  <1>5. /\ Bit(c, 0) = c % 2 /\ Bit(c, 1) = (c \div 2) % 2 /\ Bit(c, 2) = (c \div 4) % 2
        /\ Bit(c, 3) = (c \div 8) % 2 /\ Bit(c, 4) = (c \div 16) % 2
    BY <1>1 DEF Bit, ShiftRight
  <1>6. 16 * ((c \div 16) % 2) + 8 * ((c \div 8) % 2) + 4 * ((c \div 4) % 2)
          + 2 * ((c \div 2) % 2) + (c % 2) = c
    <2>1. /\ c = 2 * (c \div 2) + (c % 2) /\ c \div 2 = 2 * (c \div 4) + ((c \div 2) % 2)
          /\ c \div 4 = 2 * (c \div 8) + ((c \div 4) % 2)
          /\ c \div 8 = 2 * (c \div 16) + ((c \div 8) % 2) /\ c \div 16 = (c \div 16) % 2
      BY <1>1
    <2> QED
      BY <1>1, <2>1
  <1>7. Quintet(Ones(m), i) = c
    BY <1>4, <1>5, <1>6
  <1> QED
    BY <1>7 DEF c

-----------------------------------------------------------------------------
(* What the decoder reads.                                                 *)

(* The word of a capture, padded, whose last edge is at slot s.            *)
HasOnes(word, S) ==
  /\ word.gcr \in Nat /\ word.bits \in 0 .. 20
  /\ word.gcr * Power(20 - word.bits) = Number(S)

(* The decoder looks up each five bits of the word, padded with zeros.     *)
LEMMA NibblesDecoded ==
  ASSUME NEW word, NEW S, HasOnes(word, S), NEW i \in 1 .. 4
  PROVE  DecodedNibbles(word)[i] = GCR_DECODE_TABLE[Quintet(S, i)]
  <1>1. ShiftLeft(word.gcr, DSHOT_REPLY_GCR_BITS - word.bits) = Number(S)
    BY ShiftsLeft DEF HasOnes, DSHOT_REPLY_GCR_BITS
  <1>2. DecodedNibbles(word)[i] = GCR_DECODE_TABLE[ShiftRight(Number(S), 5 * (4 - i)) % 32]
    BY <1>1 DEF DecodedNibbles
  <1> QED
    BY <1>2, QuintetsOfNumber

(* A word that holds the ones of an answer up to some slot, zeros after    *)
(* it, is accepted only as the twelve bits sent, and if it holds all ones  *)
(* it is accepted.  The argument for a prefix: the last code of an answer  *)
(* that was cut off before its sixteenth slot is zero, which no table      *)
(* entry accepts; past it the three codes of the data are whole.           *)
THEOREM WordRead ==
  ASSUME NEW m \in Messages, NEW s \in Nat, NEW word, word.valid,
         HasOnes(word, Ones(m) \cap (1 .. s))
  PROVE  /\ Accepted(word) => Value(word) = Twelve(m)
         /\ Ones(m) \subseteq 1 .. s => Accepted(word)
  <1> DEFINE S == Ones(m) \cap (1 .. s)
             n == DecodedNibbles(word)
             q == Nibbles(m)
  <1>1. \A i \in 1 .. 4 : n[i] = GCR_DECODE_TABLE[Quintet(S, i)]
    BY NibblesDecoded
  <1>2. \A i \in 1 .. 4 : q[i] \in 0 .. 15 /\ GCR_DECODE_TABLE[Quintet(Ones(m), i)] = q[i]
    <2> SUFFICES ASSUME NEW i \in 1 .. 4
                 PROVE  q[i] \in 0 .. 15 /\ GCR_DECODE_TABLE[Quintet(Ones(m), i)] = q[i]
      OBVIOUS
    <2>1. q[i] \in 0 .. 15
      BY NibblesSent
    <2>2. Quintet(Ones(m), i) = GCR_CODES[q[i] + 1]
      BY QuintetsSent
    <2> HIDE DEF q
    <2> QED
      BY <2>1, <2>2, CodesInvert DEF Codes
  <1>3. \A i \in 1 .. 4 : 5 * i <= s => Quintet(S, i) = Quintet(Ones(m), i)
    <2> SUFFICES ASSUME NEW i \in 1 .. 4, 5 * i <= s
                 PROVE  Quintet(S, i) = Quintet(Ones(m), i)
      OBVIOUS
    <2>1. \A k \in 5 * i - 4 .. 5 * i : One(S, k) = One(Ones(m), k)
      BY DEF One
    <2> HIDE DEF S
    <2> QED
      BY <2>1 DEF Quintet
  <1>4. s < 16 => Quintet(S, 4) = 0
    <2> SUFFICES ASSUME s < 16 PROVE Quintet(S, 4) = 0
      OBVIOUS
    <2>1. \A k \in 16 .. 20 : One(S, k) = 0
      BY DEF One
    <2> HIDE DEF S
    <2> QED
      BY <2>1 DEF Quintet
  <1>5. Accepted(word) => Value(word) = Twelve(m)
    <2> SUFFICES ASSUME Accepted(word) PROVE Value(word) = Twelve(m)
      OBVIOUS
    <2>1. n[4] # NoCode
      BY DEF Accepted
    <2>2. s >= 16
      BY <1>1, <1>4, <2>1, NoCodeAtZero
    <2>3. n[1] = q[1] /\ n[2] = q[2] /\ n[3] = q[3]
      BY <1>1, <1>2, <1>3, <2>2
    <2>4. 256 * q[1] + 16 * q[2] + q[3] = Twelve(m)
      BY NibblesSent
    <2>5. Value(word) = n[1] * 256 + n[2] * 16 + n[3]
      BY DEF Value
    <2> HIDE DEF n, q, S
    <2> QED
      BY <1>2, <2>3, <2>4, <2>5
  <1>6. Ones(m) \subseteq 1 .. s => Accepted(word)
    <2> SUFFICES ASSUME Ones(m) \subseteq 1 .. s PROVE Accepted(word)
      OBVIOUS
    <2>1. S = Ones(m)
      OBVIOUS
    <2>2. n[1] = q[1] /\ n[2] = q[2] /\ n[3] = q[3] /\ n[4] = q[4]
      BY <1>1, <1>2, <2>1
    <2>3. \A i \in 1 .. 4 : n[i] # NoCode
      <3> HIDE DEF n, q
      <3> QED
        BY <1>2, <2>2 DEF NoCode
    <2>4. Checksum(n) = Checksum(q) /\ Checksum(q) = q[4]
      BY <2>2, NibblesSent DEF Checksum
    <2>5. word.valid
      OBVIOUS
    <2> QED
      BY <2>2, <2>3, <2>4, <2>5 DEF Accepted
  <1> QED
    BY <1>5, <1>6

(* Nine bits say a period to one part in 256.                              *)
LEMMA NineBits ==
  ASSUME NEW p \in Nat, p < 65536
  PROVE  LET e == Exponent(p)
             q == ShiftRight(p, e)
         IN  /\ e \in 0 .. 7 /\ q \in 0 .. 511 /\ (e > 0 => q >= 256)
             /\ ShiftLeft(q, e) \in (p - (p \div 256)) .. p
             /\ p > 0 => ShiftLeft(q, e) > 0
             /\ e = 7 /\ q = 511 <=> p >= 65408
  <1> DEFINE e == Exponent(p)
             q == ShiftRight(p, e)
             x == ShiftLeft(q, e)
  <1>1. e \in 0 .. 7 /\ q < 512 /\ (e = 0 \/ ShiftRight(p, e - 1) >= 512)
    BY ExponentFound DEF LeavesNine
  <1>2. /\ ShiftRight(p, 0) = p /\ ShiftRight(p, 1) = p \div 2 /\ ShiftRight(p, 2) = p \div 4
        /\ ShiftRight(p, 3) = p \div 8 /\ ShiftRight(p, 4) = p \div 16
        /\ ShiftRight(p, 5) = p \div 32 /\ ShiftRight(p, 6) = p \div 64
        /\ ShiftRight(p, 7) = p \div 128
    BY ShiftsRight
  <1>3. x = q * Power(e)
    BY ShiftsLeft
  <1>4. Power(0) = 1 /\ Power(1) = 2 /\ Power(2) = 4 /\ Power(3) = 8 /\ Power(4) = 16
        /\ Power(5) = 32 /\ Power(6) = 64 /\ Power(7) = 128
    BY Powers
  <1>5. q = ShiftRight(p, e)
    OBVIOUS
  <1> DEFINE Result == /\ q \in 0 .. 511 /\ (e > 0 => q >= 256)
                       /\ x \in (p - (p \div 256)) .. p
                       /\ p > 0 => x > 0
                       /\ e = 7 /\ q = 511 <=> p >= 65408
  <1>6. SUFFICES Result
    BY <1>1
  <1> HIDE DEF e, q, x
  <1>10. CASE e = 0
    <2>1. q = p /\ x = q * 1
      BY <1>2, <1>3, <1>4, <1>5, <1>10
    <2> QED
      BY <1>1, <1>10, <2>1
  <1>11. CASE e = 1
    <2>1. q = p \div 2 /\ x = q * 2
      BY <1>2, <1>3, <1>4, <1>5, <1>11
    <2>2. p >= 512
      BY <1>1, <1>2, <1>11
    <2> QED
      BY <1>1, <1>11, <2>1, <2>2
  <1>12. CASE e = 2
    <2>1. q = p \div 4 /\ x = q * 4
      BY <1>2, <1>3, <1>4, <1>5, <1>12
    <2>2. p \div 2 >= 512
      BY <1>1, <1>2, <1>12
    <2> QED
      BY <1>1, <1>12, <2>1, <2>2
  <1>13. CASE e = 3
    <2>1. q = p \div 8 /\ x = q * 8
      BY <1>2, <1>3, <1>4, <1>5, <1>13
    <2>2. p \div 4 >= 512
      BY <1>1, <1>2, <1>13
    <2> QED
      BY <1>1, <1>13, <2>1, <2>2
  <1>14. CASE e = 4
    <2>1. q = p \div 16 /\ x = q * 16
      BY <1>2, <1>3, <1>4, <1>5, <1>14
    <2>2. p \div 8 >= 512
      BY <1>1, <1>2, <1>14
    <2> QED
      BY <1>1, <1>14, <2>1, <2>2
  <1>15. CASE e = 5
    <2>1. q = p \div 32 /\ x = q * 32
      BY <1>2, <1>3, <1>4, <1>5, <1>15
    <2>2. p \div 16 >= 512
      BY <1>1, <1>2, <1>15
    <2> QED
      BY <1>1, <1>15, <2>1, <2>2
  <1>16. CASE e = 6
    <2>1. q = p \div 64 /\ x = q * 64
      BY <1>2, <1>3, <1>4, <1>5, <1>16
    <2>2. p \div 32 >= 512
      BY <1>1, <1>2, <1>16
    <2> QED
      BY <1>1, <1>16, <2>1, <2>2
  <1>17. CASE e = 7
    <2>1. q = p \div 128 /\ x = q * 128
      BY <1>2, <1>3, <1>4, <1>5, <1>17
    <2>2. p \div 64 >= 512
      BY <1>1, <1>2, <1>17
    <2> QED
      BY <1>1, <1>17, <2>1, <2>2
  <1> QED
    BY <1>1, <1>10, <1>11, <1>12, <1>13, <1>14, <1>15, <1>16, <1>17

(* The twelve bits tell the two kinds of message apart, and a period's are *)
(* read as an eRPM as close as nine bits can say.                          *)
THEOREM ValueMeans ==
  ASSUME NEW m \in Messages
  PROVE  /\ "period" \in DOMAIN m =>
              ~IsEdt(Twelve(m)) /\ RpmOf(m.period, ERpm(Twelve(m)))
         /\ "period" \notin DOMAIN m => "tag" \in DOMAIN m /\ IsEdt(Twelve(m))
  <1>1. CASE m \in [period : Periods]
    <2> DEFINE p == m.period
               e == Exponent(p)
               q == ShiftRight(p, e)
               v == Twelve(m)
               x == ShiftLeft(q, e)
    <2>1. p \in Nat /\ p < 65536 /\ "period" \in DOMAIN m
      BY <1>1, DataSent
    <2>2. v = e * 512 + q
      BY <2>1 DEF Twelve
    <2>3. /\ e \in 0 .. 7 /\ q \in 0 .. 511 /\ (e > 0 => q >= 256)
          /\ x \in (p - (p \div 256)) .. p
          /\ p > 0 => x > 0
          /\ e = 7 /\ q = 511 <=> p >= 65408
      <3> HIDE DEF p
      <3> QED
        BY <2>1, NineBits
    <2>4. v \div 512 = e /\ v % 512 = q /\ (v = 4095 <=> e = 7 /\ q = 511)
      <3> HIDE DEF p, e, q, v, x
      <3> QED
        BY <2>2, <2>3
    <2>5. ~IsEdt(v)
      <3> HIDE DEF p, e, q, v, x
      <3> QED
        BY <2>3, <2>4 DEF IsEdt
    <2>6. ERpm(v) = IF v = 4095 \/ x = 0 THEN 0 ELSE 60000000 \div x
      <3>1. x = ShiftLeft(v % 512, v \div 512)
        BY <2>4
      <3> HIDE DEF p, e, q, v, x
      <3> QED
        BY <3>1 DEF ERpm
    <2>7. RpmOf(p, ERpm(v))
      <3> DEFINE r == ERpm(v)
                 f == 60000000 \div x
      <3>1. r = IF v = 4095 \/ x = 0 THEN 0 ELSE f
        BY <2>6
      <3>2. x \in (p - (p \div 256)) .. p /\ f = 60000000 \div x
        BY <2>3
      <3> HIDE DEF p, e, q, v, x, r, f
      <3>3. p = 0 => x = 0
        BY <2>1, <2>3
      <3>4. p = 0 \/ p >= 65408 => r = 0
        BY <2>3, <2>4, <3>1, <3>3
      <3>5. ~(p = 0 \/ p >= 65408) => r = f
        BY <2>1, <2>3, <2>4, <3>1
      <3>6. RpmOf(p, r)
        BY <3>2, <3>4, <3>5 DEF RpmOf
      <3> QED
        BY <3>6 DEF r
    <2> QED
      BY <2>1, <2>5, <2>7
  <1>2. CASE m \in [tag : Tags, byte : Payloads]
    <2> DEFINE t == m.tag
               b == m.byte
               v == Twelve(m)
    <2>1. t \in Tags /\ b \in Payloads /\ "period" \notin DOMAIN m /\ "tag" \in DOMAIN m
      BY <1>2
    <2>2. t \in 2 .. 14 /\ t % 2 = 0 /\ b \in 0 .. 255
      BY <2>1, DataSent
    <2>3. v = t * 256 + b
      BY <2>1 DEF Twelve
    <2> HIDE DEF t, b, v
    <2>4. v \div 512 = t \div 2 /\ v % 512 = b /\ v < 4095
      BY <2>2, <2>3
    <2>5. IsEdt(v)
      BY <2>2, <2>4 DEF IsEdt
    <2> QED
      BY <2>1, <2>5 DEF v, t
  <1> QED
    BY <1>1, <1>2 DEF Messages

-----------------------------------------------------------------------------
(* The loop over the intervals.                                            *)

Smaller == {pair \in Nat \X Nat : pair[1] < pair[2]}

(* The order of the naturals, as a set of pairs, is well-founded.          *)
LEMMA SmallerIsWellFounded == IsWellFoundedOn(Smaller, Nat)
  <1>1. OpToRel(<, Nat) = Smaller
    BY DEF OpToRel, Smaller
  <1> QED
    BY <1>1, NatLessThanWellFounded

(* A set with 0 and the successor of each of its numbers holds them all.   *)
LEMMA Induction ==
  ASSUME NEW S, 0 \in S, \A n \in Nat : n \in S => n + 1 \in S
  PROVE  Nat \subseteq S
  <1> SUFFICES ASSUME Nat \ S # {} PROVE FALSE
    OBVIOUS
  <1>1. PICK m \in Nat \ S : \A k \in Nat \ S : <<k, m>> \notin Smaller
    BY SmallerIsWellFounded, WFMin
  <1>2. m # 0 /\ m - 1 \in Nat
    BY <1>1
  <1>3. <<m - 1, m>> \in Smaller
    BY <1>2 DEF Smaller
  <1>4. m - 1 \in S
    BY <1>1, <1>2, <1>3
  <1> QED
    BY <1>1, <1>2, <1>4

EmptyWord(cap) ==
  [gcr |-> 0, bits |-> 0, more |-> TRUE, valid |-> ~cap.lost /\ cap.intervals # <<>>]

(* The words after each of the first N intervals s, from the word w.       *)
IsRun(f, w, s, N) ==
  f = [n \in 0 .. N |-> IF n = 0 THEN w ELSE Shifted(f[n - 1], s[n])]

(* The loop over the intervals has a value after each of them.             *)
LEMMA LoopRuns ==
  ASSUME NEW s, NEW w
  PROVE  \A N \in Nat : \E f : IsRun(f, w, s, N)
  <1> DEFINE S == {N \in Nat : \E f : IsRun(f, w, s, N)}
  <1>1. 0 \in S
    <2>1. IsRun([n \in 0 .. 0 |-> w], w, s, 0)
      BY DEF IsRun
    <2> QED
      BY <2>1
  <1>2. ASSUME NEW N \in Nat, N \in S
        PROVE  N + 1 \in S
    <2>1. PICK f : IsRun(f, w, s, N)
      BY <1>2
    <2> DEFINE g == [n \in 0 .. N + 1 |-> IF n <= N THEN f[n] ELSE Shifted(f[N], s[N + 1])]
    <2>2. IsRun(g, w, s, N + 1)
      BY <2>1 DEF IsRun
    <2> HIDE DEF g
    <2> QED
      BY <2>2
  <1>3. Nat \subseteq S
    <2> HIDE DEF S
    <2> QED
      BY <1>1, <1>2, Induction
  <1> QED
    BY <1>3

Words(word, cap) ==
  /\ word[0] = EmptyWord(cap)
  /\ \A n \in 1 .. Len(cap.intervals) :
       word[n] = Shifted(word[n - 1], cap.intervals[n])
  /\ Collected(cap) = word[Len(cap.intervals)]

(* The loop over the intervals of a capture, step by step.                 *)
LEMMA CollectedSteps ==
  ASSUME NEW cap, Len(cap.intervals) \in Nat
  PROVE  \E word : Words(word, cap)
  <1> DEFINE L == Len(cap.intervals)
             IsTheRun(f) ==
               f = [n \in 0 .. L |->
                      IF n = 0 THEN EmptyWord(cap) ELSE Shifted(f[n - 1], cap.intervals[n])]
             word == CHOOSE f : IsTheRun(f)
  <1>1. IsRun(word, EmptyWord(cap), cap.intervals, L)
    <2>1. PICK f : IsRun(f, EmptyWord(cap), cap.intervals, L)
      BY LoopRuns
    <2>2. IsTheRun(f)
      BY <2>1 DEF IsRun
    <2>3. IsTheRun(word)
      <3> HIDE DEF IsTheRun
      <3> QED
        BY <2>2
    <2> QED
      BY <2>3 DEF IsRun
  <1>2. Collected(cap) = word[L]
    BY DEF Collected, EmptyWord
  <1> HIDE DEF word
  <1>3. word[0] = EmptyWord(cap)
    BY <1>1 DEF IsRun
  <1>4. \A n \in 1 .. L : word[n] = Shifted(word[n - 1], cap.intervals[n])
    BY <1>1 DEF IsRun
  <1> QED
    BY <1>2, <1>3, <1>4 DEF Words

(* A capture with a lost edge, or of one edge, makes no word.              *)
LEMMA RejectsTheRest ==
  ASSUME NEW cap, Len(cap.intervals) \in Nat, cap.lost \/ cap.intervals = <<>>
  PROVE  ~Collected(cap).valid
  <1> DEFINE L == Len(cap.intervals)
  <1>1. PICK word : Words(word, cap)
    BY CollectedSteps
  <1> DEFINE S == {n \in Nat : n <= L => ~word[n].valid}
  <1>2. 0 \in S
    <2>1. ~EmptyWord(cap).valid
      BY DEF EmptyWord
    <2> QED
      BY <1>1, <2>1 DEF Words
  <1>3. ASSUME NEW n \in Nat, n \in S
        PROVE  n + 1 \in S
    <2> SUFFICES ASSUME n + 1 <= L PROVE ~word[n + 1].valid
      OBVIOUS
    <2>1. n + 1 \in 1 .. L /\ (n + 1) - 1 = n /\ ~word[n].valid
      BY <1>3
    <2> QED
      BY <1>1, <2>1 DEF Shifted, Words
  <1>4. L \in S
    <2> HIDE DEF S
    <2> QED
      BY <1>2, <1>3, Induction
  <1> QED
    BY <1>1, <1>4 DEF Words

(* Two shifts are one.                                                     *)
LEMMA PowersMultiply ==
  \A a \in Nat : \A b \in Nat : a + b <= 20 => Power(a) * Power(b) = Power(a + b)
  <1> DEFINE S == {a \in Nat : \A b \in Nat : a + b <= 20 => Power(a) * Power(b) = Power(a + b)}
  <1>1. 0 \in S
    <2>1. Power(0) = 1
      BY Powers
    <2> QED
      BY <2>1, Doubling
  <1>2. ASSUME NEW a \in Nat, a \in S
        PROVE  a + 1 \in S
    <2> SUFFICES ASSUME NEW b \in Nat, a + 1 + b <= 20
                 PROVE  Power(a + 1) * Power(b) = Power(a + 1 + b)
      OBVIOUS
    <2>1. Power(a) * Power(b) = Power(a + b)
      BY <1>2
    <2>2. Power(a + 1) = 2 * Power(a) /\ Power((a + b) + 1) = 2 * Power(a + b)
      BY Doubling
    <2>3. Power(a) \in Nat /\ Power(b) \in Nat /\ Power(a + b) \in Nat /\ a + 1 + b = (a + b) + 1
      BY Doubling
    <2> QED
      BY <2>1, <2>2, <2>3
  <1>3. Nat \subseteq S
    <2> HIDE DEF S
    <2> QED
      BY <1>1, <1>2, Induction
  <1> QED
    BY <1>3

(* The edges of an answer: the pad, the ones, and perhaps the return to    *)
(* idle.                                                                   *)
LEMMA EdgesAre ==
  ASSUME NEW m \in Messages
  PROVE  /\ Ones(m) \subseteq 1 .. 20 /\ Ones(m) \subseteq EdgeSlots(m) /\ 0 \in EdgeSlots(m)
         /\ \A e \in EdgeSlots(m) : e = 0 \/ e \in Ones(m) \/ e = 21
  BY DEF Ones, EdgeSlots, DSHOT_REPLY_GCR_BITS

(* The intervals s are the gaps between the slots p, which are the first   *)
(* of E.                                                                   *)
Gaps(p, E, s) ==
  /\ Len(p) = Len(s) + 1 /\ p[1] = 0
  /\ \A i \in 1 .. Len(p) : p[i] \in E
  /\ \A i \in 1 .. Len(s) :
       /\ p[i] < p[i + 1] /\ s[i] = p[i + 1] - p[i]
       /\ \A e \in E : ~(p[i] < e /\ e < p[i + 1])

AllWords == [gcr : Nat, bits : 0 .. 20, more : BOOLEAN, valid : BOOLEAN]

(* One interval adds the next one of the answer; the return to idle adds   *)
(* none.                                                                   *)
LEMMA OneInterval ==
  ASSUME NEW m \in Messages, NEW w \in AllWords, NEW from \in 0 .. 20, NEW to \in EdgeSlots(m),
         from < to, \A e \in EdgeSlots(m) : ~(from < e /\ e < to),
         w.valid, w.more, w.bits = from, HasOnes(w, Ones(m) \cap (1 .. from))
  PROVE  LET v == Shifted(w, to - from)
         IN  /\ v \in AllWords /\ v.valid /\ HasOnes(v, Ones(m) \cap (1 .. to))
             /\ to <= 20 => v.more /\ v.bits = to
  <1> DEFINE d == to - from
             v == Shifted(w, d)
             S == Ones(m) \cap (1 .. from)
             T == Ones(m) \cap (1 .. to)
  <1>1. to \in 1 .. 21 /\ d \in 1 .. 21 /\ from + d = to
    BY EdgesAre
  <1>2. CASE to = 21
    <2>1. v = [w EXCEPT !.more = FALSE]
      BY <1>1, <1>2 DEF Shifted, DSHOT_REPLY_GCR_BITS
    <2>2. v \in AllWords /\ v.valid /\ v.gcr = w.gcr /\ v.bits = w.bits
      BY <2>1 DEF AllWords
    <2>3. T = S
      BY <1>2, EdgesAre
    <2>4. HasOnes(w, S)
      OBVIOUS
    <2> HIDE DEF v, d, S, T
    <2>5. HasOnes(v, T)
      BY <2>2, <2>3, <2>4 DEF HasOnes
    <2> QED
      BY <1>2, <2>2, <2>5 DEF v, d, T
  <1>3. CASE to <= 20
    <2>1. to \in Ones(m) /\ to \in 1 .. 20
      BY <1>1, <1>3, EdgesAre
    <2>2. v = [w EXCEPT !.gcr = ShiftLeft(@, d) + 1, !.bits = @ + d]
      BY <1>1, <1>3 DEF Shifted, DSHOT_REPLY_GCR_BITS
    <2>3. ShiftLeft(w.gcr, d) = w.gcr * Power(d)
      BY ShiftsLeft
    <2>4. w.gcr \in Nat /\ Power(d) \in Nat /\ Power(20 - to) \in Nat /\ Power(20 - from) \in Nat
      BY <1>1, <1>3, Doubling DEF AllWords
    <2>5. w.gcr * Power(d) \in Nat
      BY <2>4
    <2>6. /\ v \in AllWords /\ v.valid /\ v.more /\ v.bits = to
          /\ v.gcr = w.gcr * Power(d) + 1
      <3> DEFINE c == ShiftLeft(w.gcr, d) + 1
      <3>1. c \in Nat /\ c = w.gcr * Power(d) + 1
        BY <2>3, <2>5
      <3>2. v = [w EXCEPT !.gcr = c, !.bits = to]
        BY <1>1, <2>2
      <3>3. to \in 0 .. 20
        BY <2>1
      <3> HIDE DEF c, v, d
      <3>4. v.gcr = c /\ v.bits = to /\ v.more = w.more /\ v.valid = w.valid /\ v \in AllWords
        BY <3>1, <3>2, <3>3 DEF AllWords
      <3> QED
        BY <3>1, <3>4
    <2>7. Power(d) * Power(20 - to) = Power(20 - from)
      <3>1. d \in Nat /\ 20 - to \in Nat /\ d + (20 - to) = 20 - from /\ d + (20 - to) <= 20
        BY <1>1, <1>3
      <3> HIDE DEF d
      <3> QED
        BY <3>1, PowersMultiply
    <2>8. v.gcr * Power(20 - to) = w.gcr * Power(20 - from) + Power(20 - to)
      <3> DEFINE g == w.gcr
                 a == Power(d)
                 b == Power(20 - to)
      <3>1. g \in Nat /\ a \in Nat /\ b \in Nat /\ v.gcr = g * a + 1 /\ a * b = Power(20 - from)
        BY <2>4, <2>6, <2>7
      <3> HIDE DEF g, a, b, v
      <3>2. (g * a + 1) * b = g * (a * b) + b
        BY <3>1
      <3>3. v.gcr * b = g * Power(20 - from) + b
        BY <3>1, <3>2
      <3> QED
        BY <3>3 DEF g, b
    <2>9. T = S \cup {to} /\ to \notin S
      BY <2>1, EdgesAre
    <2>10. Number(T) = Number(S) + Power(20 - to)
      <3> HIDE DEF S, T
      <3> QED
        BY <2>1, <2>9, OneGained
    <2>11. w.gcr * Power(20 - from) = Number(S)
      BY DEF HasOnes
    <2>12. HasOnes(v, T)
      <3> HIDE DEF S, T, v, d
      <3> QED
        BY <1>1, <1>3, <2>6, <2>8, <2>10, <2>11 DEF HasOnes, AllWords
    <2> QED
      BY <2>6, <2>12
  <1> QED
    BY <1>1, <1>2, <1>3

(* Of a capture that holds the gaps between the first edges of an answer   *)
(* the decoder makes the ones up to the last of them.                      *)
LEMMA WordOfGaps ==
  ASSUME NEW m \in Messages, NEW cap, NEW p \in Seq(Nat),
         Len(cap.intervals) \in Nat, ~cap.lost, cap.intervals # <<>>,
         Gaps(p, EdgeSlots(m), cap.intervals)
  PROVE  /\ Collected(cap).valid
         /\ HasOnes(Collected(cap), Ones(m) \cap (1 .. p[Len(p)]))
  <1> DEFINE L == Len(cap.intervals)
             E == EdgeSlots(m)
  <1>1. PICK word : Words(word, cap)
    BY CollectedSteps
  <1> DEFINE Known(n) ==
               /\ word[n] \in AllWords /\ word[n].valid
               /\ HasOnes(word[n], Ones(m) \cap (1 .. p[n + 1]))
               /\ p[n + 1] <= 20 => word[n].more /\ word[n].bits = p[n + 1]
             S == {n \in Nat : n <= L => Known(n)}
  <1>2. /\ Len(p) = L + 1 /\ p[1] = 0
        /\ \A i \in 1 .. L + 1 : p[i] \in E
        /\ \A i \in 1 .. L :
             /\ p[i] < p[i + 1] /\ cap.intervals[i] = p[i + 1] - p[i]
             /\ \A e \in E : ~(p[i] < e /\ e < p[i + 1])
    BY DEF Gaps
  <1>3. 0 \in S
    <2>1. word[0] = EmptyWord(cap)
      BY <1>1 DEF Words
    <2>2. word[0] = [gcr |-> 0, bits |-> 0, more |-> TRUE, valid |-> TRUE]
      BY <2>1 DEF EmptyWord
    <2>3. Ones(m) \cap (1 .. p[1]) = {}
      BY <1>2
    <2>4. Number({}) = 0
      BY DEF Number, Quintet, One
    <2>5. HasOnes(word[0], {})
      <3>1. word[0].gcr = 0 /\ word[0].bits = 0 /\ Power(20 - 0) \in Nat
        BY <2>2, Doubling
      <3> QED
        BY <2>4, <3>1 DEF HasOnes
    <2>6. Known(0)
      <3>1. p[0 + 1] = 0 /\ Ones(m) \cap (1 .. p[0 + 1]) = {}
        BY <1>2, <2>3
      <3>2. word[0] \in AllWords /\ word[0].valid /\ word[0].more /\ word[0].bits = 0
        BY <2>2 DEF AllWords
      <3> QED
        BY <2>5, <3>1, <3>2
    <2> QED
      BY <2>6
  <1>4. ASSUME NEW n \in Nat, n \in S
        PROVE  n + 1 \in S
    <2> SUFFICES ASSUME n + 1 <= L PROVE Known(n + 1)
      OBVIOUS
    <2> DEFINE from == p[n + 1]
               to   == p[(n + 1) + 1]
    <2>1. Known(n)
      BY <1>4
    <2>2. /\ from \in E /\ to \in E /\ from < to /\ cap.intervals[n + 1] = to - from
          /\ \A e \in E : ~(from < e /\ e < to)
      <3>1. n + 1 \in 1 .. L /\ n + 1 \in 1 .. L + 1 /\ (n + 1) + 1 \in 1 .. L + 1
        OBVIOUS
      <3> HIDE DEF E, L
      <3> QED
        BY <1>2, <3>1
    <2>3. from \in 0 .. 20 /\ from <= 20
      <3> HIDE DEF from, to
      <3>1. from \in 0 .. 21 /\ to \in 0 .. 21
        BY <2>2, EdgesAre
      <3> QED
        BY <2>2, <3>1
    <2>4. word[n + 1] = Shifted(word[n], to - from)
      <3>1. n + 1 \in 1 .. L /\ (n + 1) - 1 = n
        OBVIOUS
      <3> QED
        BY <1>1, <2>2, <3>1 DEF Words
    <2>5. /\ word[n] \in AllWords /\ word[n].valid /\ word[n].more /\ word[n].bits = from
          /\ HasOnes(word[n], Ones(m) \cap (1 .. from))
      BY <2>1, <2>3, Zenon
    <2>6. LET v == Shifted(word[n], to - from)
          IN  /\ v \in AllWords /\ v.valid /\ HasOnes(v, Ones(m) \cap (1 .. to))
              /\ to <= 20 => v.more /\ v.bits = to
      <3>1. from < to /\ to \in EdgeSlots(m)
            /\ \A e \in EdgeSlots(m) : ~(from < e /\ e < to)
        BY <2>2, Zenon
      <3> DEFINE w == word[n]
      <3>2. /\ w \in AllWords /\ w.valid /\ w.more /\ w.bits = from
            /\ HasOnes(w, Ones(m) \cap (1 .. from))
        BY <2>5
      <3> HIDE DEF w, from, to
      <3>3. LET v == Shifted(w, to - from)
            IN  /\ v \in AllWords /\ v.valid /\ HasOnes(v, Ones(m) \cap (1 .. to))
                /\ to <= 20 => v.more /\ v.bits = to
        BY <2>3, <3>1, <3>2, OneInterval
      <3> QED
        BY <3>3 DEF w, from, to
    <2> QED
      BY <2>4, <2>6 DEF to
  <1>5. L \in S
    <2> HIDE DEF S
    <2> QED
      BY <1>3, <1>4, Induction
  <1>6. Known(L)
    <2> HIDE DEF Known
    <2> QED
      BY <1>5
  <1> QED
    BY <1>1, <1>2, <1>6 DEF Words

-----------------------------------------------------------------------------
(* Edges, ticks and slots.                                                 *)

(* A counter turns over.                                                   *)
LEMMA Turns ==
  ASSUME NEW M \in Nat, M > 0, NEW n \in Int
  PROVE  /\ n % M \in 0 .. M - 1
         /\ 0 <= n /\ n < M => n % M = n
         /\ M <= n /\ n < M + M => n % M = n - M
         /\ n < 0 /\ 0 <= n + M => n % M = n + M
  OBVIOUS

(* Rounding down.                                                          *)
LEMMA DivExact ==
  ASSUME NEW T \in Nat, T > 0, NEW d \in Nat, NEW r \in 0 .. T - 1
  PROVE  (d * T + r) \div T = d
  OBVIOUS

(* The answer is shorter than a turn of the stamp or of the count.         *)
LEMMA Ticks ==
  /\ g_replyTicksPerBit \in Nat /\ g_replyTicksPerBit > 0 /\ Jitter \in Nat
  /\ 2 * Jitter < g_replyTicksPerBit
  /\ TBU_MOD \in Nat /\ 22 * g_replyTicksPerBit + Jitter < TBU_MOD
  /\ ECNT_MOD \in Nat /\ ECNT_MOD > 22
  BY ReplyAssumption DEF DSHOT_REPLY_GCR_BITS

(* The distance of two stamps, however late each edge was and whether or   *)
(* not the stamp turned over between them, rounds to the distance of the   *)
(* slots.                                                                  *)
THEOREM GapInSlots ==
  ASSUME NEW s \in 0 .. 21, NEW t \in 0 .. 21, s < t,
         NEW a \in 0 .. Jitter, NEW b \in 0 .. Jitter
  PROVE  InSlots((Stamp(t, b) - Stamp(s, a)) % TBU_MOD) = t - s
  <1> DEFINE T == g_replyTicksPerBit
             M == TBU_MOD
             J == Jitter
             d == t - s
             u == s * T
             v == t * T
             x == (M - 6 * T) + u + a
             y == (M - 6 * T) + v + b
             j == b - a
  <1>1. T \in Nat /\ T > 0 /\ J \in Nat /\ 2 * J < T /\ M \in Nat /\ 22 * T + J < M
    BY Ticks
  <1>2. d \in 1 .. 21 /\ j \in Int /\ -J <= j /\ j <= J
    BY <1>1
  <1>3. u \in Nat /\ v \in Nat /\ v = u + d * T /\ u <= 21 * T /\ v <= 21 * T
        /\ T <= d * T /\ d * T <= 21 * T /\ d * T \in Nat
    <2> HIDE DEF T
    <2> QED
      BY <1>1
  <1>4. Stamp(s, a) = x % M /\ Stamp(t, b) = y % M
    BY DEF Stamp, FirstStamp
  <1>5. x \in Nat /\ y \in Nat /\ x < M + M /\ y < M + M /\ y = x + d * T + j
        /\ 0 <= d * T + j /\ d * T + j < M
    <2>1. a \in Int /\ b \in Int /\ 0 <= a /\ a <= J /\ 0 <= b /\ b <= J
      BY <1>1
    <2> DEFINE g == d * T
    <2> HIDE DEF T, M, J, u, v, g
    <2> QED
      BY <1>1, <1>2, <1>3, <2>1 DEF g
  <1>6. ((y % M) - (x % M)) % M = d * T + j
    <2> DEFINE g == d * T + j
    <2>1. g \in Int /\ 0 <= g /\ g < M /\ y = x + g /\ x \in Nat /\ y \in Nat
          /\ x < M + M /\ y < M + M /\ M \in Nat /\ M > 0
      BY <1>1, <1>2, <1>3, <1>5
    <2> HIDE DEF g, x, y, M
    <2>2. x % M = (IF x < M THEN x ELSE x - M) /\ y % M = (IF y < M THEN y ELSE y - M)
      BY <2>1, Turns
    <2>3. (y % M) - (x % M) = g \/ (y % M) - (x % M) = g - M
      BY <2>1, <2>2
    <2>4. g % M = g /\ (g - M) % M = g
      BY <2>1, Turns
    <2>5. ((y % M) - (x % M)) % M = g
      BY <2>3, <2>4
    <2> QED
      BY <2>5 DEF g
  <1>7. InSlots(d * T + j) = d
    <2> DEFINE h == T \div 2
               r == j + h
    <2>1. h \in Nat /\ 2 * h <= T /\ T <= 2 * h + 1
      BY <1>1
    <2>2. r \in 0 .. T - 1
      <3> HIDE DEF h, T, J, j
      <3> QED
        BY <1>1, <1>2, <2>1
    <2>3. d * T + j + h = d * T + r
      <3> HIDE DEF h
      <3> QED
        BY <1>2, <1>3, <2>1
    <2>4. (d * T + r) \div T = d
      <3> HIDE DEF r, T, d
      <3> QED
        BY <1>1, <1>2, <2>2, DivExact
    <2> QED
      BY <2>3, <2>4 DEF InSlots
  <1> QED
    BY <1>4, <1>6, <1>7

-----------------------------------------------------------------------------
(* The inductive invariant of the window.                                  *)

(* Edges that have come.                                                   *)
Came == EdgeSlots(sent) \ edgesToCome

UpTo(e) == {x \in EdgeSlots(sent) : x <= e}

(* p are the slots of the edges the capture holds.                         *)
Holds(p) ==
  /\ reply.any <=> p # <<>>
  /\ ~reply.any => reply.intervals = <<>>
  /\ reply.any =>
       /\ Gaps(p, EdgeSlots(sent), reply.intervals)
       /\ \E late \in 0 .. Jitter : reply.last_ts = Stamp(p[Len(p)], late)

(* No edge lies between those of p and e.                                  *)
Follows(p, e) ==
  IF p = <<>> THEN e = 0
  ELSE p[Len(p)] < e /\ \A x \in EdgeSlots(sent) : ~(p[Len(p)] < x /\ x < e)

AllTaken(p) == Unvisited = 0 => Came = IF p = <<>> THEN {} ELSE UpTo(p[Len(p)])

OneToTake(p) ==
  Unvisited = 1 =>
    \E e \in EdgeSlots(sent), late \in 0 .. Jitter :
      Follows(p, e) /\ Came = UpTo(e) /\ gpr0.ts = Stamp(e, late)

Capture == ~reply.lost => \E p \in Seq(Nat) : Holds(p) /\ AllTaken(p) /\ OneToTake(p)

ReplyTypes ==
  /\ sent \in Messages /\ edgesToCome \subseteq EdgeSlots(sent)
  /\ gpr0.ecnt \in 0 .. ECNT_MOD - 1 /\ gpr0.ts \in Int
  /\ reply.last_ecnt \in 0 .. ECNT_MOD - 1 /\ reply.last_ts \in Int
  /\ reply.any \in BOOLEAN /\ reply.lost \in BOOLEAN /\ reply.intervals \in Seq(Int)
  /\ Unvisited \in 0 .. 2

ReplyInv == ReplyTypes /\ Capture /\ ReplyIsReadAsSent

(* A stamp is an integer.                                                  *)
LEMMA StampsAreTicks == \A s, late \in Nat : Stamp(s, late) \in Int
  <1> SUFFICES ASSUME NEW s \in Nat, NEW late \in Nat PROVE Stamp(s, late) \in Int
    OBVIOUS
  <1> DEFINE t == s * g_replyTicksPerBit
  <1>1. t \in Int
    BY Ticks
  <1>2. FirstStamp \in Int
    BY Ticks DEF FirstStamp
  <1>3. FirstStamp + t + late \in Int
    BY <1>1, <1>2
  <1> QED
    BY <1>3, Ticks DEF Stamp

(* And so is their distance in slots.                                      *)
LEMMA InSlotsIsInt == \A n \in Int : InSlots(n % TBU_MOD) \in Int
  <1> SUFFICES ASSUME NEW n \in Int PROVE InSlots(n % TBU_MOD) \in Int
    OBVIOUS
  <1>1. n % TBU_MOD \in Int
    BY Ticks
  <1> QED
    BY <1>1, Ticks DEF InSlots

(* The edges not visited yet are counted right across a turn of the count. *)
LEMMA CountFacts ==
  ASSUME NEW a \in 0 .. ECNT_MOD - 1, NEW b \in 0 .. ECNT_MOD - 1
  PROVE  /\ (a - b) % ECNT_MOD \in Nat
         /\ (a - a) % ECNT_MOD = 0
         /\ (a + 1) % ECNT_MOD \in 0 .. ECNT_MOD - 1
         /\ (a - b) % ECNT_MOD < 2 =>
              (((a + 1) % ECNT_MOD) - b) % ECNT_MOD = ((a - b) % ECNT_MOD) + 1
  <1> DEFINE M == ECNT_MOD
             c == (a + 1) % M
  <1>1. M \in Nat /\ M > 22
    BY Ticks
  <1> HIDE DEF M
  <1>2. a \in Int /\ b \in Int /\ 0 <= a /\ a < M /\ 0 <= b /\ b < M
    BY <1>1 DEF M
  <1>3. c = IF a + 1 < M THEN a + 1 ELSE 0
    BY <1>1, <1>2, Turns
  <1>4. (a - b) % M = IF a >= b THEN a - b ELSE a - b + M
    BY <1>1, <1>2, Turns
  <1>5. (a - a) % M = 0
    BY <1>1, <1>2, Turns
  <1>6. c \in 0 .. M - 1
    BY <1>1, <1>2, <1>3
  <1> HIDE DEF c
  <1>7. (c - b) % M = IF c >= b THEN c - b ELSE c - b + M
    BY <1>1, <1>2, <1>6, Turns
  <1>8. (a - b) % M < 2 => (c - b) % M = ((a - b) % M) + 1
    BY <1>1, <1>2, <1>3, <1>4, <1>7
  <1> QED
    BY <1>1, <1>2, <1>4, <1>5, <1>6, <1>8 DEF M, c

(* The window opens with nothing captured.                                 *)
LEMMA ReplyStarts == ReplyInit => ReplyInv
  <1> SUFFICES ASSUME ReplyInit PROVE ReplyInv
    OBVIOUS
  <1>1. /\ sent \in Messages /\ edgesToCome = EdgeSlots(sent)
        /\ gpr0 = [ecnt |-> FirstCount, ts |-> FirstStamp]
        /\ reply = [last_ecnt |-> FirstCount, last_ts |-> 0, any |-> FALSE,
                    intervals |-> <<>>, lost |-> FALSE]
        /\ outcome = "window" /\ g_dshot_eRPM = NoRpm
    BY DEF ReplyInit
  <1>2. FirstCount \in 0 .. ECNT_MOD - 1 /\ FirstStamp \in Int
    BY Ticks DEF FirstCount, FirstStamp
  <1>3. /\ gpr0.ecnt = FirstCount /\ gpr0.ts = FirstStamp
        /\ reply.last_ecnt = FirstCount /\ reply.last_ts = 0 /\ ~reply.any
        /\ reply.any \in BOOLEAN /\ reply.intervals = <<>> /\ reply.lost = FALSE
    BY <1>1
  <1>4. Unvisited = 0
    BY <1>2, <1>3, CountFacts DEF Unvisited
  <1>5. ReplyTypes
    BY <1>1, <1>2, <1>3, <1>4 DEF ReplyTypes
  <1>6. <<>> \in Seq(Nat) /\ Holds(<<>>) /\ AllTaken(<<>>) /\ OneToTake(<<>>)
    BY <1>1, <1>3, <1>4 DEF Holds, AllTaken, OneToTake, Came
  <1>7. Capture
    BY <1>6 DEF Capture
  <1>8. ReplyIsReadAsSent
    BY <1>1 DEF ReplyIsReadAsSent
  <1> QED
    BY <1>5, <1>7, <1>8 DEF ReplyInv

(* The last edge of a capture.                                             *)
LEMMA CaptureHead ==
  ASSUME NEW p \in Seq(Nat), p # <<>>
  PROVE  Len(p) \in Nat /\ Len(p) >= 1 /\ p[Len(p)] \in Nat
  OBVIOUS

(* An edge comes: it is the next one after all that came.                  *)
LEMMA EdgeKeeps == ReplyInv /\ Edge => ReplyInv'
  <1> SUFFICES ASSUME ReplyInv, Edge PROVE ReplyInv'
    OBVIOUS
  <1>1. ReplyTypes /\ Capture /\ ReplyIsReadAsSent
    BY DEF ReplyInv
  <1>2. PICK edge \in edgesToCome, late \in 0 .. Jitter :
          /\ \A s \in edgesToCome : edge <= s
          /\ edgesToCome' = edgesToCome \ {edge}
          /\ gpr0' = [ecnt |-> (gpr0.ecnt + 1) % ECNT_MOD, ts |-> Stamp(edge, late)]
    BY DEF Edge
  <1>3. /\ outcome = "window" /\ ~reply.lost /\ Unvisited < 2
        /\ sent' = sent /\ reply' = reply /\ outcome' = outcome /\ g_dshot_eRPM' = g_dshot_eRPM
    BY DEF Edge
  <1> DEFINE E == EdgeSlots(sent)
  <1>4. edge \in E /\ edge \in 0 .. 21 /\ late \in Nat
    <2>1. edge \in E
      BY <1>1 DEF ReplyTypes
    <2>2. sent \in Messages
      BY <1>1 DEF ReplyTypes
    <2>3. edge \in 0 .. 21
      BY <2>1, <2>2, EdgesAre
    <2> QED
      BY <2>1, <2>3, Ticks
  <1>5. gpr0'.ecnt = (gpr0.ecnt + 1) % ECNT_MOD /\ gpr0'.ts = Stamp(edge, late)
    BY <1>2
  <1>6. Unvisited' = Unvisited + 1 /\ gpr0'.ecnt \in 0 .. ECNT_MOD - 1
    <2>1. gpr0.ecnt \in 0 .. ECNT_MOD - 1 /\ reply.last_ecnt \in 0 .. ECNT_MOD - 1
      BY <1>1 DEF ReplyTypes
    <2>2. Unvisited' = (((gpr0.ecnt + 1) % ECNT_MOD) - reply.last_ecnt) % ECNT_MOD
      BY <1>3, <1>5 DEF Unvisited
    <2>3. Unvisited < 2
      BY <1>3
    <2>4. (gpr0.ecnt + 1) % ECNT_MOD \in 0 .. ECNT_MOD - 1
      BY <2>1, CountFacts
    <2> QED
      BY <1>5, <2>1, <2>2, <2>3, <2>4, CountFacts DEF Unvisited
  <1>7. ReplyTypes'
    <2>1. Unvisited' \in 0 .. 2
      BY <1>1, <1>3, <1>6 DEF ReplyTypes
    <2>2. gpr0'.ts \in Int
      BY <1>4, <1>5, StampsAreTicks
    <2>3. edgesToCome' \subseteq EdgeSlots(sent)'
      BY <1>1, <1>2, <1>3 DEF ReplyTypes
    <2> QED
      BY <1>1, <1>3, <1>6, <2>1, <2>2, <2>3 DEF ReplyTypes
  <1>8. Came' = Came \cup {edge} /\ \A x \in E : x \notin Came => edge <= x
    BY <1>2, <1>3, <1>4 DEF Came
  <1>9. edge \notin Came
    BY DEF Came
  <1>10. PICK p \in Seq(Nat) : Holds(p) /\ AllTaken(p) /\ OneToTake(p)
    BY <1>1, <1>3 DEF Capture
  <1>11. Holds(p)'
    BY <1>3, <1>10 DEF Holds
  <1>12. AllTaken(p)'
    <2>1. Unvisited' # 0
      BY <1>1, <1>6 DEF ReplyTypes
    <2> QED
      BY <2>1 DEF AllTaken
  <1>13. OneToTake(p)'
    <2> SUFFICES ASSUME Unvisited' = 1 PROVE OneToTake(p)'
      BY DEF OneToTake
    <2>1. Unvisited = 0
      BY <1>1, <1>6 DEF ReplyTypes
    <2>2. sent \in Messages
      BY <1>1 DEF ReplyTypes
    <2>3. Follows(p, edge) /\ Came \cup {edge} = UpTo(edge)
      <3>1. CASE p = <<>>
        <4>1. Came = {}
          BY <1>10, <2>1, <3>1 DEF AllTaken
        <4>2. edge = 0
          BY <1>4, <1>8, <2>2, <4>1, EdgesAre
        <4>3. \A x \in E : x \in 0 .. 21
          BY <2>2, EdgesAre
        <4>4. UpTo(edge) = {edge}
          <5>1. ASSUME NEW x \in E PROVE (x <= edge) <=> (x = edge)
            <6>1. x \in 0 .. 21
              BY <4>3
            <6> QED
              BY <4>2, <6>1
          <5>2. UpTo(edge) = {x \in E : x = edge}
            BY <5>1 DEF UpTo
          <5> QED
            BY <1>4, <5>2
        <4> QED
          BY <3>1, <4>1, <4>2, <4>4 DEF Follows
      <3>2. CASE p # <<>>
        <4> DEFINE last == p[Len(p)]
        <4>1. last \in Nat /\ Came = UpTo(last)
          BY <1>10, <2>1, <3>2, CaptureHead DEF AllTaken
        <4>2. \A x \in E : x \in 0 .. 21
          BY <2>2, EdgesAre
        <4> HIDE DEF last
        <4>3. last < edge
          BY <1>4, <1>9, <4>1 DEF UpTo
        <4>4. \A x \in E : ~(last < x /\ x < edge)
          BY <1>4, <1>8, <4>1, <4>2 DEF UpTo
        <4>5. Came \cup {edge} = UpTo(edge)
          <5>1. \A x \in E : x <= edge <=> x <= last \/ x = edge
            BY <1>4, <4>1, <4>2, <4>3, <4>4
          <5> QED
            BY <1>4, <4>1, <5>1 DEF UpTo
        <4> QED
          BY <3>2, <4>3, <4>4, <4>5 DEF Follows, last
      <3> QED
        BY <3>1, <3>2
    <2>4. Follows(p, edge)' /\ UpTo(edge)' = UpTo(edge) /\ EdgeSlots(sent)' = E
      BY <1>3, <2>3 DEF Follows, UpTo
    <2> QED
      BY <1>4, <1>5, <1>8, <2>3, <2>4 DEF OneToTake
  <1>14. Capture'
    BY <1>10, <1>11, <1>12, <1>13 DEF Capture
  <1>15. ReplyIsReadAsSent'
    BY <1>1, <1>3 DEF ReplyIsReadAsSent
  <1> QED
    BY <1>7, <1>14, <1>15 DEF ReplyInv

(* One more gap.                                                           *)
LEMMA GapsGrow ==
  ASSUME NEW p \in Seq(Nat), NEW E, NEW s \in Seq(Int), NEW e \in Nat,
         p # <<>>, Gaps(p, E, s), e \in E, p[Len(p)] < e,
         \A x \in E : ~(p[Len(p)] < x /\ x < e)
  PROVE  /\ Append(p, e) \in Seq(Nat) /\ Append(p, e) # <<>>
         /\ Append(p, e)[Len(Append(p, e))] = e
         /\ Gaps(Append(p, e), E, Append(s, e - p[Len(p)]))
  <1> DEFINE q == Append(p, e)
             t == Append(s, e - p[Len(p)])
             L == Len(s)
  <1>1. L \in Nat /\ Len(p) = L + 1 /\ p[L + 1] \in Nat
    BY DEF Gaps
  <1>2. /\ q \in Seq(Nat) /\ Len(q) = L + 2 /\ q[L + 2] = e
        /\ \A i \in 1 .. L + 1 : q[i] = p[i]
    BY <1>1
  <1>3. /\ Len(t) = L + 1 /\ t[L + 1] = e - p[L + 1]
        /\ \A i \in 1 .. L : t[i] = s[i]
    BY <1>1
  <1>4. /\ p[1] = 0 /\ \A i \in 1 .. L + 1 : p[i] \in E
        /\ \A i \in 1 .. L : /\ p[i] < p[i + 1] /\ s[i] = p[i + 1] - p[i]
                             /\ \A x \in E : ~(p[i] < x /\ x < p[i + 1])
    BY <1>1 DEF Gaps
  <1>5. p[L + 1] < e /\ \A x \in E : ~(p[L + 1] < x /\ x < e)
    BY <1>1
  <1> HIDE DEF q, t, L
  <1>6. q[1] = 0 /\ \A i \in 1 .. L + 2 : q[i] \in E
    BY <1>1, <1>2, <1>4
  <1>7. \A i \in 1 .. L + 1 :
          /\ q[i] < q[i + 1] /\ t[i] = q[i + 1] - q[i]
          /\ \A x \in E : ~(q[i] < x /\ x < q[i + 1])
    <2> SUFFICES ASSUME NEW i \in 1 .. L + 1
                 PROVE  /\ q[i] < q[i + 1] /\ t[i] = q[i + 1] - q[i]
                        /\ \A x \in E : ~(q[i] < x /\ x < q[i + 1])
      OBVIOUS
    <2>1. CASE i <= L
      <3>1. q[i] = p[i] /\ q[i + 1] = p[i + 1] /\ t[i] = s[i] /\ i \in 1 .. L
        BY <1>1, <1>2, <1>3, <2>1
      <3> QED
        BY <1>4, <3>1
    <2>2. CASE i = L + 1
      <3>1. q[i] = p[L + 1] /\ q[i + 1] = e /\ t[i] = e - p[L + 1]
        BY <1>1, <1>2, <1>3, <2>2
      <3> QED
        BY <1>5, <3>1
    <2> QED
      BY <1>1, <2>1, <2>2
  <1>8. Gaps(q, E, t)
    BY <1>1, <1>2, <1>3, <1>6, <1>7 DEF Gaps
  <1>9. q # <<>> /\ q[Len(q)] = e
    BY <1>1, <1>2
  <1> QED
    BY <1>2, <1>8, <1>9 DEF q, t

(* The reader comes round: if it has missed none, the stamp is that of the *)
(* edge after the last it took, and the interval is the gap between the    *)
(* two.                                                                    *)
LEMMA VisitKeeps == ReplyInv /\ Visit => ReplyInv'
  <1> SUFFICES ASSUME ReplyInv, Visit PROVE ReplyInv'
    OBVIOUS
  <1>1. ReplyTypes /\ Capture /\ ReplyIsReadAsSent
    BY DEF ReplyInv
  <1>2. /\ outcome = "window" /\ Unvisited > 0 /\ reply' = Captured(reply, gpr0)
        /\ sent' = sent /\ edgesToCome' = edgesToCome /\ gpr0' = gpr0 /\ outcome' = outcome
        /\ g_dshot_eRPM' = g_dshot_eRPM
    BY DEF Visit
  <1> DEFINE gap == InSlots((gpr0.ts - reply.last_ts) % TBU_MOD)
  <1>3. /\ reply'.last_ecnt = gpr0.ecnt /\ reply'.last_ts = gpr0.ts /\ reply'.any = TRUE
        /\ reply'.intervals = IF reply.any THEN Append(reply.intervals, gap) ELSE <<>>
        /\ reply'.lost = (reply.lost \/ Unvisited # 1)
    BY <1>2 DEF Captured, Unvisited, Lost
  <1>4. gap \in Int /\ gpr0.ts \in Int /\ gpr0.ecnt \in 0 .. ECNT_MOD - 1
    <2>1. gpr0.ts \in Int /\ reply.last_ts \in Int /\ gpr0.ecnt \in 0 .. ECNT_MOD - 1
      BY <1>1 DEF ReplyTypes
    <2>2. gpr0.ts - reply.last_ts \in Int
      BY <2>1
    <2> QED
      BY <2>1, <2>2, InSlotsIsInt
  <1>5. Unvisited' = 0
    BY <1>2, <1>3, <1>4, CountFacts DEF Unvisited
  <1>6. ReplyTypes'
    <2>1. reply'.intervals \in Seq(Int)
      <3>1. reply.intervals \in Seq(Int)
        BY <1>1 DEF ReplyTypes
      <3> HIDE DEF gap
      <3> QED
        BY <1>3, <1>4, <3>1
    <2>2. reply'.lost \in BOOLEAN /\ reply'.any \in BOOLEAN
      BY <1>3
    <2> QED
      BY <1>1, <1>2, <1>3, <1>4, <1>5, <2>1, <2>2 DEF ReplyTypes
  <1>7. ReplyIsReadAsSent'
    BY <1>1, <1>2 DEF ReplyIsReadAsSent
  <1>8. Capture'
    <2> SUFFICES ASSUME ~reply'.lost
                 PROVE  \E q \in Seq(Nat) : Holds(q)' /\ AllTaken(q)' /\ OneToTake(q)'
      BY DEF Capture
    <2>1. ~reply.lost /\ Unvisited = 1
      BY <1>3
    <2>2. PICK p \in Seq(Nat) : Holds(p) /\ AllTaken(p) /\ OneToTake(p)
      BY <1>1, <2>1 DEF Capture
    <2>3. PICK e \in EdgeSlots(sent), late \in 0 .. Jitter :
            Follows(p, e) /\ Came = UpTo(e) /\ gpr0.ts = Stamp(e, late)
      BY <2>1, <2>2 DEF OneToTake
    <2>4. sent \in Messages /\ e \in 0 .. 21
      BY <1>1, EdgesAre DEF ReplyTypes
    <2>5. \A q : OneToTake(q)'
      BY <1>5 DEF OneToTake
    <2>6. \A q \in Seq(Nat) : q # <<>> /\ q[Len(q)] = e => AllTaken(q)'
      <3>1. Came' = Came /\ UpTo(e)' = UpTo(e)
        BY <1>2 DEF Came, UpTo
      <3> QED
        BY <2>3, <3>1 DEF AllTaken
    <2>7. CASE reply.any
      <3>1. /\ p # <<>> /\ Gaps(p, EdgeSlots(sent), reply.intervals)
            /\ \E l \in 0 .. Jitter : reply.last_ts = Stamp(p[Len(p)], l)
        BY <2>2, <2>7 DEF Holds
      <3> DEFINE last == p[Len(p)]
                 q == Append(p, e)
      <3>2. PICK l \in 0 .. Jitter : reply.last_ts = Stamp(last, l)
        BY <3>1
      <3>3. last < e /\ \A x \in EdgeSlots(sent) : ~(last < x /\ x < e)
        BY <2>3, <3>1 DEF Follows
      <3>4. last \in 0 .. 21
        <4>1. last \in Nat
          BY <3>1, CaptureHead
        <4> HIDE DEF last
        <4> QED
          BY <2>4, <3>3, <4>1
      <3>5. gap = e - last
        <4> HIDE DEF last
        <4>1. InSlots((Stamp(e, late) - Stamp(last, l)) % TBU_MOD) = e - last
          BY <2>4, <3>3, <3>4, GapInSlots
        <4> QED
          BY <2>3, <3>2, <4>1
      <3>6. /\ q \in Seq(Nat) /\ q # <<>> /\ q[Len(q)] = e
            /\ Gaps(q, EdgeSlots(sent), Append(reply.intervals, e - last))
        <4>1. reply.intervals \in Seq(Int) /\ e \in Nat
          BY <1>1, <2>4 DEF ReplyTypes
        <4> QED
          BY <3>1, <3>3, <4>1, GapsGrow
      <3>7. reply'.intervals = Append(reply.intervals, e - last)
        <4> HIDE DEF gap, last
        <4> QED
          BY <1>3, <2>7, <3>5
      <3> HIDE DEF last, q
      <3>8. Holds(q)'
        BY <1>2, <1>3, <2>3, <3>6, <3>7 DEF Holds
      <3> QED
        BY <2>5, <2>6, <3>6, <3>8
    <2>8. CASE ~reply.any
      <3>1. p = <<>> /\ e = 0
        BY <2>2, <2>3, <2>8 DEF Holds, Follows
      <3> DEFINE q == <<0>>
      <3>2. q \in Seq(Nat) /\ q # <<>> /\ q[Len(q)] = e
        BY <3>1
      <3>3. reply'.intervals = <<>>
        BY <1>3, <2>8
      <3>4. Gaps(q, EdgeSlots(sent), <<>>)
        BY <2>4, EdgesAre DEF Gaps
      <3> HIDE DEF q
      <3>5. Holds(q)'
        BY <1>2, <1>3, <2>3, <3>2, <3>3, <3>4 DEF Holds
      <3> QED
        BY <2>5, <2>6, <3>2, <3>5
    <2> QED
      BY <2>7, <2>8
  <1> QED
    BY <1>6, <1>7, <1>8 DEF ReplyInv

-----------------------------------------------------------------------------
(* Counting the edges of a capture.                                        *)

(* A capture has as many edges as there are up to its last one.            *)
LEMMA Counted ==
  ASSUME NEW p \in Seq(Nat), NEW s \in Seq(Int), NEW E, E \subseteq 0 .. 21, Gaps(p, E, s)
  PROVE  LET C == {x \in E : x <= p[Len(p)]}
         IN  IsFiniteSet(C) /\ Cardinality(C) = Len(s) + 1
  <1> DEFINE L == Len(s)
             C(n) == {x \in E : x <= p[n + 1]}
             S == {n \in Nat : n <= L => IsFiniteSet(C(n)) /\ Cardinality(C(n)) = n + 1}
  <1>1. /\ L \in Nat /\ Len(p) = L + 1 /\ p[1] = 0 /\ \A i \in 1 .. L + 1 : p[i] \in E
        /\ \A i \in 1 .. L : p[i] < p[i + 1] /\ \A x \in E : ~(p[i] < x /\ x < p[i + 1])
    BY DEF Gaps
  <1>2. 0 \in S
    <2>1. C(0) = {0}
      <3>1. p[0 + 1] = 0 /\ 0 \in E
        BY <1>1
      <3>2. ASSUME NEW x \in E PROVE x <= 0 <=> x = 0
        <4>1. x \in 0 .. 21
          OBVIOUS
        <4> QED
          BY <4>1
      <3> QED
        BY <3>1, <3>2
    <2>2. IsFiniteSet({0}) /\ Cardinality({0}) = 0 + 1
      <3>1. IsFiniteSet({0}) /\ Cardinality({0}) = 1
        BY FS_Singleton, Zenon
      <3>2. 1 = 0 + 1
        OBVIOUS
      <3> QED
        BY <3>1, <3>2, Zenon
    <2>3. IsFiniteSet(C(0)) /\ Cardinality(C(0)) = 0 + 1
      <3> HIDE DEF C
      <3> QED
        BY <2>1, <2>2, Zenon
    <2> HIDE DEF C
    <2> QED
      BY <2>3
  <1>3. ASSUME NEW n \in Nat, n \in S
        PROVE  n + 1 \in S
    <2> SUFFICES ASSUME n + 1 <= L
                 PROVE  IsFiniteSet(C(n + 1)) /\ Cardinality(C(n + 1)) = (n + 1) + 1
      OBVIOUS
    <2> DEFINE from == p[n + 1]
               to   == p[(n + 1) + 1]
    <2>1. IsFiniteSet(C(n)) /\ Cardinality(C(n)) = n + 1
      BY <1>1, <1>3
    <2>2. from \in E /\ to \in E /\ from < to /\ \A x \in E : ~(from < x /\ x < to)
      <3>1. n + 1 \in 1 .. L /\ n + 1 \in 1 .. L + 1 /\ (n + 1) + 1 \in 1 .. L + 1
        BY <1>1
      <3> HIDE DEF L
      <3> QED
        BY <1>1, <3>1
    <2>3. C(n) = {x \in E : x <= from} /\ C(n + 1) = {x \in E : x <= to}
      OBVIOUS
    <2> HIDE DEF from, to
    <2>4. ASSUME NEW x \in E PROVE x <= to <=> x <= from \/ x = to
      <3>1. x \in 0 .. 21 /\ from \in 0 .. 21 /\ to \in 0 .. 21
        BY <2>2
      <3> QED
        BY <2>2, <3>1
    <2>5. C(n + 1) = C(n) \cup {to} /\ to \notin C(n)
      <3>1. to \in 0 .. 21 /\ from \in 0 .. 21
        BY <2>2
      <3>2. ~(to <= from)
        BY <2>2, <3>1
      <3> HIDE DEF C
      <3> QED
        BY <2>2, <2>3, <2>4, <3>2
    <2> HIDE DEF C
    <2> QED
      BY <2>1, <2>5, FS_AddElement
  <1>4. L \in S
    <2> HIDE DEF S
    <2> QED
      BY <1>1, <1>2, <1>3, Induction
  <1>5. IsFiniteSet(C(L)) /\ Cardinality(C(L)) = L + 1
    <2> HIDE DEF C
    <2> QED
      BY <1>1, <1>4
  <1> QED
    BY <1>1, <1>5

(* Every answer has ones: no code is zero.                                 *)
LEMMA SomeOnes ==
  ASSUME NEW m \in Messages
  PROVE  IsFiniteSet(Ones(m)) /\ Cardinality(Ones(m)) \in Nat /\ Cardinality(Ones(m)) > 0
  <1>1. IsFiniteSet(Ones(m))
    <2>1. IsFiniteSet(1 .. 20)
      <3>1. 1 \in Int /\ 20 \in Int
        OBVIOUS
      <3> QED
        BY <3>1, FS_Interval, Zenon
    <2>2. Ones(m) \in SUBSET (1 .. 20)
      BY EdgesAre
    <2> QED
      BY <2>1, <2>2, FS_Subset
  <1>2. Ones(m) # {}
    <2>1. Nibbles(m)[1] \in 0 .. 15
      BY NibblesSent
    <2>2. Quintet(Ones(m), 1) # 0
      <3> DEFINE q == Nibbles(m)[1]
      <3>1. Quintet(Ones(m), 1) = GCR_CODES[q + 1]
        BY QuintetsSent
      <3> HIDE DEF q
      <3>2. q \in 0 .. 15
        BY <2>1 DEF q
      <3>3. GCR_CODES[q + 1] \in 1 .. 31
        BY <3>2, CodesInvert DEF Codes
      <3> QED
        BY <3>1, <3>3
    <2>3. Quintet({}, 1) = 0
      BY DEF Quintet, One
    <2> QED
      BY <2>2, <2>3
  <1> QED
    BY <1>1, <1>2, FS_CardinalityType, FS_EmptySet

(* With as many edges as the data has, every one is in it.                 *)
LEMMA AllCaught ==
  ASSUME NEW m \in Messages, NEW p \in Seq(Nat), NEW s \in Seq(Int),
         Gaps(p, EdgeSlots(m), s), Len(s) + 1 >= 1 + Cardinality(Ones(m))
  PROVE  Ones(m) \subseteq 1 .. p[Len(p)]
  <1> DEFINE last == p[Len(p)]
             E == EdgeSlots(m)
             C == {x \in E : x <= last}
             D == Ones(m) \cup {0}
  <1>1. last \in Nat /\ Len(s) \in Nat
    BY DEF Gaps
  <1>2. Ones(m) \subseteq 1 .. 20 /\ \A x \in E : x = 0 \/ x \in Ones(m) \/ x = 21
    BY EdgesAre
  <1>3. E \subseteq 0 .. 21
    BY <1>2
  <1>4. IsFiniteSet(C) /\ Cardinality(C) = Len(s) + 1
    <2>1. Gaps(p, E, s)
      OBVIOUS
    <2> HIDE DEF E
    <2> QED
      BY <1>3, <2>1, Counted DEF last
  <1>5. IsFiniteSet(D) /\ Cardinality(D) = Cardinality(Ones(m)) + 1
    <2>1. 0 \notin Ones(m)
      <3>1. 0 \notin 1 .. 20
        OBVIOUS
      <3> QED
        BY <1>2, <3>1, Zenon
    <2>2. IsFiniteSet(Ones(m))
      BY SomeOnes
    <2> QED
      BY <2>1, <2>2, FS_AddElement
  <1>6. SUFFICES ASSUME NEW o \in Ones(m), o \notin 1 .. last PROVE FALSE
    OBVIOUS
  <1> HIDE DEF last
  <1>7. o \in 1 .. 20 /\ last < o
    <2>1. o \in 1 .. 20
      BY <1>2, <1>6, Zenon
    <2>2. o \notin 1 .. last
      BY <1>6
    <2> HIDE DEF E, C, D
    <2> QED
      BY <1>1, <2>1, <2>2
  <1>8. C \subseteq D \ {o}
    <2> SUFFICES ASSUME NEW x \in C PROVE x \in D /\ x # o
      OBVIOUS
    <2>1. x \in E /\ x <= last
      OBVIOUS
    <2>2. x \in 0 .. 21
      BY <1>3, <2>1
    <2>3. x # o /\ x # 21
      BY <1>1, <1>7, <2>1, <2>2
    <2> QED
      BY <1>2, <2>1, <2>3
  <1> HIDE DEF C
  <1>9. IsFiniteSet(D \ {o}) /\ Cardinality(D \ {o}) = Cardinality(Ones(m))
    <2>1. o \in D
      BY <1>6
    <2> HIDE DEF D
    <2>2. /\ IsFiniteSet(D \ {o})
          /\ Cardinality(D \ {o}) = IF o \in D THEN Cardinality(D) - 1 ELSE Cardinality(D)
      BY <1>5, FS_RemoveElement
    <2> QED
      BY <1>5, <2>1, <2>2, SomeOnes
  <1>10. Cardinality(C) <= Cardinality(D \ {o})
    <2> HIDE DEF D
    <2> QED
      BY <1>8, <1>9, FS_Subset
  <1> QED
    BY <1>1, <1>4, <1>9, <1>10, SomeOnes

-----------------------------------------------------------------------------
(* The end of the window.                                                  *)

(* What the decoder makes of a capture that has not lost an edge: only     *)
(* what was sent, and that if it has all of the data.                      *)
LEMMA CaptureDecoded ==
  ASSUME sent \in Messages, reply.intervals \in Seq(Int), reply.any, ~reply.lost,
         reply.intervals # <<>>, NEW p \in Seq(Nat), Holds(p)
  PROVE  LET word == Collected(reply)
         IN  /\ Accepted(word) => Value(word) = Twelve(sent)
             /\ Len(reply.intervals) + 1 >= DataEdges => Accepted(word)
  <1> DEFINE word == Collected(reply)
             last == p[Len(p)]
  <1>1. p # <<>> /\ Gaps(p, EdgeSlots(sent), reply.intervals)
    BY DEF Holds
  <1>2. Len(reply.intervals) \in Nat /\ last \in Nat
    BY <1>1, CaptureHead
  <1>3. word.valid /\ HasOnes(word, Ones(sent) \cap (1 .. last))
    BY <1>1, <1>2, WordOfGaps
  <1>4. Len(reply.intervals) + 1 >= DataEdges => Ones(sent) \subseteq 1 .. last
    BY <1>1, AllCaught DEF DataEdges
  <1> HIDE DEF word, last
  <1>5. /\ Accepted(word) => Value(word) = Twelve(sent)
        /\ Ones(sent) \subseteq 1 .. last => Accepted(word)
    BY <1>2, <1>3, WordRead
  <1> QED
    BY <1>4, <1>5 DEF word

(* The window ends: the word of the capture is judged.                     *)
LEMMA DecodeKeeps == ReplyInv /\ Dshot_receive_decode => ReplyInv'
  <1> SUFFICES ASSUME ReplyInv, Dshot_receive_decode PROVE ReplyInv'
    OBVIOUS
  <1>1. ReplyTypes /\ Capture /\ ReplyIsReadAsSent
    BY DEF ReplyInv
  <1> DEFINE word == Collected(reply)
  <1>2. /\ outcome = "window"
        /\ outcome' = IF reply.any THEN dshotDecodeReply(word) ELSE "silent"
        /\ g_dshot_eRPM' = IF outcome' = "OK" THEN ERpm(Value(word)) ELSE g_dshot_eRPM
        /\ sent' = sent /\ edgesToCome' = edgesToCome /\ gpr0' = gpr0 /\ reply' = reply
    BY DEF Dshot_receive_decode
  <1> HIDE DEF word
  <1>3. ReplyTypes'
    <2>1. Unvisited' = Unvisited /\ EdgeSlots(sent)' = EdgeSlots(sent)
      BY <1>2 DEF Unvisited
    <2> QED
      BY <1>1, <1>2, <2>1 DEF ReplyTypes
  <1>4. Capture'
    <2> SUFFICES ASSUME ~reply'.lost
                 PROVE  \E p \in Seq(Nat) : Holds(p)' /\ AllTaken(p)' /\ OneToTake(p)'
      BY DEF Capture
    <2>1. PICK p \in Seq(Nat) : Holds(p) /\ AllTaken(p) /\ OneToTake(p)
      BY <1>1, <1>2 DEF Capture
    <2>2. Holds(p)'
      BY <1>2, <2>1 DEF Holds
    <2>3. Came' = Came /\ Unvisited' = Unvisited /\ \A e : UpTo(e)' = UpTo(e)
      BY <1>2 DEF Came, Unvisited, UpTo
    <2>4. AllTaken(p)'
      BY <2>1, <2>3 DEF AllTaken
    <2>5. OneToTake(p)'
      BY <1>2, <2>1, <2>3 DEF OneToTake, Follows
    <2> QED
      BY <2>2, <2>4, <2>5
  <1>5. ReplyIsReadAsSent'
    <2>1. g_dshot_eRPM = NoRpm
      BY <1>1, <1>2 DEF ReplyIsReadAsSent
    <2>2. Whole' = Whole
      BY <1>2 DEF Whole, DataEdges
    <2>3. sent \in Messages /\ reply.intervals \in Seq(Int) /\ Len(reply.intervals) \in Nat
      BY <1>1 DEF ReplyTypes
    <2>4. CASE ~reply.any
      <3>1. outcome' = "silent" /\ ~Whole
        BY <1>2, <2>4 DEF Whole
      <3> QED
        BY <1>2, <2>1, <2>2, <3>1 DEF ReplyIsReadAsSent
    <2>5. CASE reply.any /\ (reply.lost \/ reply.intervals = <<>>)
      <3>1. ~word.valid
        BY <2>3, <2>5, RejectsTheRest DEF word
      <3>2. outcome' = "INVALID"
        BY <1>2, <2>5, <3>1 DEF dshotDecodeReply, Accepted
      <3>3. ~Whole
        <4> SUFFICES ASSUME reply.intervals = <<>>
                     PROVE  ~(Len(reply.intervals) + 1 >= DataEdges)
          BY <2>5 DEF Whole
        <4>1. Cardinality(Ones(sent)) \in Nat /\ Cardinality(Ones(sent)) > 0
          BY <2>3, SomeOnes
        <4> QED
          BY <4>1 DEF DataEdges
      <3> QED
        BY <1>2, <2>1, <2>2, <3>2, <3>3 DEF ReplyIsReadAsSent
    <2>6. CASE reply.any /\ ~reply.lost /\ reply.intervals # <<>>
      <3>1. PICK p \in Seq(Nat) : Holds(p)
        BY <1>1, <2>6 DEF Capture
      <3>2. /\ Accepted(word) => Value(word) = Twelve(sent)
            /\ Len(reply.intervals) + 1 >= DataEdges => Accepted(word)
        BY <2>3, <2>6, <3>1, CaptureDecoded DEF word
      <3>3. CASE ~Accepted(word)
        <4>1. outcome' = "INVALID" /\ ~Whole
          BY <1>2, <2>6, <3>2, <3>3 DEF dshotDecodeReply, Whole
        <4> QED
          BY <1>2, <2>1, <2>2, <4>1 DEF ReplyIsReadAsSent
      <3>4. CASE Accepted(word)
        <4>1. outcome' = IF IsEdt(Twelve(sent)) THEN "EDT" ELSE "OK"
          BY <1>2, <2>6, <3>2, <3>4 DEF dshotDecodeReply
        <4>2. CASE "period" \in DOMAIN sent
          <5>1. outcome' = "OK" /\ g_dshot_eRPM' = ERpm(Twelve(sent))
            BY <1>2, <2>3, <3>2, <3>4, <4>1, <4>2, ValueMeans
          <5>2. RpmOf(sent.period, g_dshot_eRPM')
            BY <2>3, <4>2, <5>1, ValueMeans
          <5> QED
            BY <1>2, <4>2, <5>1, <5>2 DEF ReplyIsReadAsSent
        <4>3. CASE "period" \notin DOMAIN sent
          <5>1. outcome' = "EDT" /\ "tag" \in DOMAIN sent
            BY <2>3, <4>1, <4>3, ValueMeans
          <5> QED
            BY <1>2, <2>1, <5>1 DEF ReplyIsReadAsSent
        <4> QED
          BY <4>2, <4>3
      <3> QED
        BY <3>3, <3>4
    <2> QED
      BY <2>4, <2>5, <2>6
  <1> QED
    BY <1>3, <1>4, <1>5 DEF ReplyInv

(* The invariant is about these variables only.                            *)
LEMMA ReplyStutters == ReplyInv /\ UNCHANGED replyVars => ReplyInv'
  <1> SUFFICES ASSUME ReplyInv, UNCHANGED replyVars PROVE ReplyInv'
    OBVIOUS
  <1>1. /\ sent' = sent /\ edgesToCome' = edgesToCome /\ gpr0' = gpr0 /\ reply' = reply
        /\ outcome' = outcome /\ g_dshot_eRPM' = g_dshot_eRPM
    BY DEF replyVars
  <1> QED
    BY <1>1 DEF ReplyInv, ReplyTypes, Capture, ReplyIsReadAsSent, Holds, AllTaken, OneToTake,
                Follows, Came, UpTo, Unvisited, Whole, DataEdges

(* As long as no edge is lost the capture is the gaps between the first    *)
(* edges of the answer, whatever the ESC sends, wherever the reader visits *)
(* and however late the edges are.                                         *)
THEOREM ReplyInvariance == ReplySpec => []ReplyInv
  <1>1. ReplyInv /\ [ReplyNext]_replyVars => ReplyInv'
    BY EdgeKeeps, VisitKeeps, DecodeKeeps, ReplyStutters DEF ReplyNext
  <1> QED
    BY <1>1, ReplyStarts, PTL DEF ReplySpec

(* What is taken as an eRPM is the one that was sent, extended telemetry   *)
(* is never taken for one, and a capture with every edge of the data is    *)
(* not rejected: for all periods, types and bytes, any number of ticks per *)
(* bit, any jitter below half of it and any widths of count and stamp that *)
(* an answer fits in.                                                      *)
THEOREM ReplyRead == ReplySpec => []ReplyIsReadAsSent
  <1>1. ReplyInv => ReplyIsReadAsSent
    BY DEF ReplyInv
  <1> QED
    BY <1>1, ReplyInvariance, PTL
=============================================================================
