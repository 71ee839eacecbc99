----------------------------- MODULE DshotReply -----------------------------
(***************************************************************************)
(* The answer of bidirectional DShot, for one motor and one window         *)
(* (Dshot.c): the ESC toggles the line, the TIM channel counts and stamps  *)
(* the edges in GPR0, dshotReadReply visits that register as fast as it    *)
(* can for 100 us and dshotDecodeReply makes an eRPM of the intervals.     *)
(* The four channels are independent.                                      *)
(*                                                                         *)
(* The ESC's side is docs/DSHOT.md section 3, but for the CRC: that is     *)
(* inverted, as the code expects it; the section has it not inverted.  Its *)
(* answer does not begin before the window (30 us turnaround).             *)
(***************************************************************************)
EXTENDS Integers, Sequences, FiniteSets

CONSTANTS
  Periods,            \* of the commutation, in us: 0 .. 65535
  Tags, Payloads,     \* extended telemetry: a type, even, and a byte
  g_replyTicksPerBit,
  Jitter,             \* bound: ticks by which an edge may be late
  ECNT_MOD,           \* 2^8
  TBU_MOD             \* DSHOT_TBU_MASK + 1

DSHOT_REPLY_GCR_BITS == 20

ASSUME ReplyAssumption ==
  /\ \A p \in Periods : p \in Nat /\ p < 2^16
  /\ Tags \subseteq {2, 4, 6, 8, 10, 12, 14} /\ Payloads \subseteq 0 .. 255
  /\ g_replyTicksPerBit \in Nat /\ Jitter \in Nat /\ TBU_MOD \in Nat /\ ECNT_MOD \in Nat
  /\ 2 * Jitter < g_replyTicksPerBit
  /\ (DSHOT_REPLY_GCR_BITS + 2) * g_replyTicksPerBit + Jitter < TBU_MOD
  /\ DSHOT_REPLY_GCR_BITS + 2 < ECNT_MOD

-----------------------------------------------------------------------------
(* The ESC.                                                                *)

ShiftLeft(n, k)  == n * 2^k
ShiftRight(n, k) == n \div 2^k

GCR_CODES == <<25, 27, 18, 19, 29, 21, 22, 23, 26, 9, 10, 11, 30, 13, 14, 15>>

Messages == [period : Periods] \cup [tag : Tags, byte : Payloads]

\* The shortest exponent that leaves nine bits.
Exponent(p) ==
  CHOOSE e \in 0 .. 7 : ShiftRight(p, e) < 512 /\ (e = 0 \/ ShiftRight(p, e - 1) >= 512)

Twelve(m) ==
  IF "period" \in DOMAIN m
  THEN LET e == Exponent(m.period) IN e * 512 + ShiftRight(m.period, e)
  ELSE m.tag * 256 + m.byte

Bit(n, i) == ShiftRight(n, i) % 2

\* The exclusive or of three nibbles, inverted.
Checksum(n) ==
  LET even(i) == (1 + Bit(n[1], i) + Bit(n[2], i) + Bit(n[3], i)) % 2
  IN  8 * even(3) + 4 * even(2) + 2 * even(1) + even(0)

Nibbles(m) ==
  LET v == Twelve(m)
      n == <<v \div 256, (v \div 16) % 16, v % 16>>
  IN  <<n[1], n[2], n[3], Checksum(n)>>

\* The slots in which the line toggles: the pad, the ones, and back to idle.
Ones(m) ==
  {k \in 1 .. DSHOT_REPLY_GCR_BITS :
     Bit(GCR_CODES[Nibbles(m)[(k + 4) \div 5] + 1], (DSHOT_REPLY_GCR_BITS - k) % 5) = 1}

EdgeSlots(m) ==
  LET data == {0} \cup Ones(m)
  IN  data \cup IF Cardinality(data) % 2 = 1 THEN {DSHOT_REPLY_GCR_BITS + 1} ELSE {}

-----------------------------------------------------------------------------
VARIABLES
  sent,           \* the message of this window
  edgesToCome,    \* the slots of its edges still to come
  gpr0,           \* the register of the TIM channel: edge count and stamp
  reply,          \* the capture: last_ecnt, last_ts, any edge, lost, the intervals in slots
  outcome,        \* "window" while it is open, then the result
  g_dshot_eRPM

replyVars == <<sent, edgesToCome, gpr0, reply, outcome, g_dshot_eRPM>>

NoRpm == -1

\* Count and stamp turn over within the answer.
FirstCount == ECNT_MOD - 4
FirstStamp == TBU_MOD - 6 * g_replyTicksPerBit

ReplyInit ==
  /\ sent \in Messages /\ edgesToCome = EdgeSlots(sent)
  /\ gpr0 = [ecnt |-> FirstCount, ts |-> FirstStamp]
  /\ reply = [last_ecnt |-> FirstCount, last_ts |-> 0, any |-> FALSE,
              intervals |-> <<>>, lost |-> FALSE]
  /\ outcome = "window" /\ g_dshot_eRPM = NoRpm

(* With two edges not visited a third makes no difference: the next visit  *)
(* finds the capture lost, or there is none.                               *)
Unvisited == (gpr0.ecnt - reply.last_ecnt) % ECNT_MOD

Stamp(slot, late) == (FirstStamp + slot * g_replyTicksPerBit + late) % TBU_MOD

Edge ==
  /\ outcome = "window" /\ ~reply.lost /\ Unvisited < 2
  /\ \E slot \in edgesToCome, late \in 0 .. Jitter :
       /\ \A s \in edgesToCome : slot <= s
       /\ edgesToCome' = edgesToCome \ {slot}
       /\ gpr0' = [ecnt |-> (gpr0.ecnt + 1) % ECNT_MOD, ts |-> Stamp(slot, late)]
  /\ UNCHANGED <<sent, reply, outcome, g_dshot_eRPM>>

\* An interval is kept in slots, as dshotDecodeReply reads it.
InSlots(ticks) == (ticks + g_replyTicksPerBit \div 2) \div g_replyTicksPerBit

\* An edge came and went between two visits.
Lost(step) == step # 1

Captured(cap, reg) ==
  [last_ecnt |-> reg.ecnt, last_ts |-> reg.ts, any |-> TRUE,
   intervals |-> IF cap.any THEN Append(cap.intervals, InSlots((reg.ts - cap.last_ts) % TBU_MOD))
                 ELSE <<>>,
   lost |-> cap.lost \/ Lost((reg.ecnt - cap.last_ecnt) % ECNT_MOD)]

\* dshotReadReply comes round to this channel and finds a new edge.
Visit ==
  /\ outcome = "window" /\ Unvisited > 0
  /\ reply' = Captured(reply, gpr0)
  /\ UNCHANGED <<sent, edgesToCome, gpr0, outcome, g_dshot_eRPM>>

-----------------------------------------------------------------------------
(* dshotDecodeReply.                                                       *)

NoCode == 255

\* Mutant: as it was before the first propeller run (Dshot.c:422-424).
GCR_DECODE_TABLE_Before ==
  [c \in 0 .. 31 |->
     CASE c \in {9, 10, 11, 14, 15} -> c
       [] c \in {18, 19, 23}         -> c - 16
       [] c = 25 -> 0 [] c = 26 -> 8 [] c = 27 -> 1 [] OTHER -> NoCode]

GCR_DECODE_TABLE ==
  [c \in 0 .. 31 |->
     CASE c \in {9, 10, 11, 13, 14, 15} -> c
       [] c \in {18, 19, 21, 22, 23}    -> c - 16
       [] c = 25 -> 0 [] c = 26 -> 8 [] c = 27 -> 1 [] c = 29 -> 4 [] c = 30 -> 12
       [] OTHER -> NoCode]

\* One interval: zeros, and the one its edge starts; the return to idle ends it.
Shifted(word, slots) ==
  IF ~word.valid \/ ~word.more THEN word
  ELSE IF slots = 0 THEN [word EXCEPT !.valid = FALSE]
  ELSE IF word.bits + slots > DSHOT_REPLY_GCR_BITS THEN [word EXCEPT !.more = FALSE]
  ELSE [word EXCEPT !.gcr = ShiftLeft(@, slots) + 1, !.bits = @ + slots]

Collected(cap) ==
  LET word[n \in 0 .. Len(cap.intervals)] ==
        IF n = 0 THEN [gcr |-> 0, bits |-> 0, more |-> TRUE,
                       valid |-> ~cap.lost /\ cap.intervals # <<>>]
        ELSE Shifted(word[n - 1], cap.intervals[n])
  IN  word[Len(cap.intervals)]

\* Its four nibbles; there is no edge for the zeros at the end.
DecodedNibbles(word) ==
  LET gcr == ShiftLeft(word.gcr, DSHOT_REPLY_GCR_BITS - word.bits)
  IN  [i \in 1 .. 4 |-> GCR_DECODE_TABLE[ShiftRight(gcr, 5 * (4 - i)) % 32]]

Accepted(word) ==
  LET n == DecodedNibbles(word)
  IN  word.valid /\ (\A i \in 1 .. 4 : n[i] # NoCode) /\ Checksum(n) = n[4]

Value(word) == LET n == DecodedNibbles(word) IN n[1] * 256 + n[2] * 16 + n[3]

ERpm(value) ==
  LET period_us == ShiftLeft(value % 512, value \div 512)
  IN  IF value = 4095 \/ period_us = 0 THEN 0 ELSE 60000000 \div period_us

IsEdt(value) == value # 4095 /\ value \div 512 # 0 /\ value % 512 < 256

dshotDecodeReply(word) ==
  IF ~Accepted(word) THEN "INVALID" ELSE IF IsEdt(Value(word)) THEN "EDT" ELSE "OK"

\* The window ends, wherever the answer is; a window without edges is no failure.
Dshot_receive_decode ==
  /\ outcome = "window"
  /\ LET word == Collected(reply)
     IN  /\ outcome' = IF reply.any THEN dshotDecodeReply(word) ELSE "silent"
         /\ g_dshot_eRPM' = IF outcome' = "OK" THEN ERpm(Value(word)) ELSE g_dshot_eRPM
  /\ UNCHANGED <<sent, edgesToCome, gpr0, reply>>

ReplyNext == Edge \/ Visit \/ Dshot_receive_decode

ReplySpec == ReplyInit /\ [][ReplyNext]_replyVars

-----------------------------------------------------------------------------
(* The eRPM of a period as close as nine bits can say, 0 for a motor that  *)
(* stands.                                                                 *)
RpmOf(p, rpm) ==
  IF p = 0 \/ p >= 65408 THEN rpm = 0
  ELSE \E q \in (p - (p \div 256)) .. p : rpm = 60000000 \div q

DataEdges == 1 + Cardinality(Ones(sent))

Whole == ~reply.lost /\ reply.any /\ Len(reply.intervals) + 1 >= DataEdges

(* Whatever the ESC answers, and wherever the reader misses edges or the   *)
(* window cuts the answer off: what is taken as an eRPM is the one that    *)
(* was sent, extended telemetry is never taken for one, and a capture that *)
(* holds every edge of the data is not rejected.                           *)
ReplyIsReadAsSent ==
  /\ outcome = "OK"  => "period" \in DOMAIN sent /\ RpmOf(sent.period, g_dshot_eRPM)
  /\ outcome = "EDT" => "tag" \in DOMAIN sent
  /\ outcome \in {"INVALID", "silent"} => ~Whole
  /\ outcome # "OK" => g_dshot_eRPM = NoRpm
=============================================================================
