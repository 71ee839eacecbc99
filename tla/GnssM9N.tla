------------------------------ MODULE GnssM9N ------------------------------
(***************************************************************************)
(* The GNSS receiver on ASCLIN4 (GnssM9N.c) and what SensorTask_gnss hands *)
(* to Fusion: the interrupt that fills the ring and GnssM9N_read that      *)
(* empties it every 100 ms, the one-shot configuration, the UBX parser and *)
(* the presence.  The interrupt comes between any two accesses of the      *)
(* reader to the ring; the tail index stands one past the end between its  *)
(* increment (GnssM9N.c:774) and the test that wraps it.  A FIFO of        *)
(* several bytes is several interrupts in a row.                           *)
(*                                                                         *)
(* A byte is named by the frame it belongs to and its part in it; a frame  *)
(* is sync1 sync2 header checksum, with the payload left out: it is taken  *)
(* not to hold the sync pair, and the checksum to be right for whole       *)
(* frames only.                                                            *)
(***************************************************************************)
EXTENDS Integers, Sequences, FiniteSets

CONSTANTS
  RING_BUFFER_SIZE,
  GNSS_NOT_PRESENT_TICKS,
  GNSS_UBX_MAX_RX_PAYLOAD,
  SETTINGS,   \* CFG-VALSETs of the burst
  ACK_MOD,    \* 2^8
  Fixes,      \* NAV-PVT frames; one that fails navOk is left out
  Absurd,     \* those of them with a field out of range
  NoFix,
  MaxDisturbances  \* bound: bytes spoilt or made up, and absurd fixes

ASSUME GnssAssumption ==
  /\ {RING_BUFFER_SIZE, GNSS_NOT_PRESENT_TICKS, ACK_MOD} \subseteq Nat \ {0}
  /\ SETTINGS \in 1 .. (ACK_MOD - 1)
  /\ Absurd \subseteq Fixes
  /\ Fixes \cap {NoFix, "ack", "nak", "sync", "noise", "stale"} = {}

VARIABLES
  ring, head, tail,
  pc,           \* of GnssM9N_read: "idle", "configure", "snapshot", "loop", "wrap"
  headSeen,     \* its local head
  status,       \* its local status
  pollCounter,
  parser,       \* parse_state, last_byte, g_buffer up to g_len
  cfg,          \* gsv_cfg_sent, g_cfg_expected_acks, g_tx_discards > 0, g_ubx_ack,
                \* the last cfgOk
  nav,          \* g_nav: the fix it holds
  fusion,       \* the fix with s_lastITow, the last published
  \* the receiver
  sends,        \* "fixes" or "replies": a behaviour follows one of the two
  power, sending,
  replies,      \* how many of each kind it still owes
  lastFix,      \* the last one sent
  disturbed,    \* how many of MaxDisturbances
  \* history variables
  overrun,      \* bytes have been written over the oldest
  queue,        \* bytes taken and not yet parsed, until then
  unset,        \* the receiver did not accept a setting of the burst
  age           \* 2: a fix decoded in this call, 1: in the one before

ringVars     == <<ring, head, tail>>
readVars     == <<pc, headSeen, status, pollCounter>>
driverVars   == <<parser, cfg, nav, fusion>>
receiverVars == <<sends, power, sending, replies, lastFix, disturbed>>
ghostVars    == <<overrun, queue, unset, age>>
vars == <<ringVars, readVars, driverVars, receiverVars, ghostVars>>

-----------------------------------------------------------------------------
(* Bytes and frames.                                                       *)

B(f, part) == [of |-> f, part |-> part]
SYNC1 == B("sync", 1)
SYNC2 == B("sync", 2)
Noise == {B("noise", 1), B("noise", 2)}
STALE == B("stale", 1)

Replies == {"ack", "nak"}
Frames  == Replies \cup Fixes
Bytes  == {SYNC1, SYNC2} \cup Noise \cup {B(f, part) : f \in Frames, part \in 1 .. 2}

Body(f) == <<B(f, 1), B(f, 2)>>
Wire(f) == <<SYNC1, SYNC2, B(f, 1), B(f, 2)>>

\* The payload length a byte announces in the place of the header.
Announced(b) ==
  CASE b.of \in Frames /\ b.part = 1 -> 0
    [] b = B("noise", 2)             -> GNSS_UBX_MAX_RX_PAYLOAD + 1
    [] OTHER                         -> GNSS_UBX_MAX_RX_PAYLOAD

Init ==
  /\ ring = [i \in 0 .. (RING_BUFFER_SIZE - 1) |-> STALE]
  /\ head = 0 /\ tail = 0
  /\ pc = "idle" /\ headSeen = 0 /\ status = FALSE
  /\ pollCounter = GNSS_NOT_PRESENT_TICKS
  /\ parser = [state |-> "IDLE", last |-> B("noise", 1), buffer |-> <<>>]
  /\ cfg = [sent |-> FALSE, expected |-> 0, discards |-> FALSE, acks |-> 0, ok |-> FALSE]
  /\ nav = NoFix /\ fusion = NoFix
  /\ sends \in {"fixes", "replies"} /\ power \in BOOLEAN
  /\ sending = <<>> /\ replies = [f \in Replies |-> 0] /\ lastFix = NoFix /\ disturbed = 0
  /\ overrun = FALSE /\ queue = <<>> /\ unset = FALSE /\ age = 0

-----------------------------------------------------------------------------
(* The ring.                                                               *)

\* Mutant: one past the end.
Wrapped_Late(i) == IF i > RING_BUFFER_SIZE THEN 0 ELSE i

Wrapped(i) == IF i >= RING_BUFFER_SIZE THEN 0 ELSE i

RingNext(i) == Wrapped(i + 1)

Full == RingNext(head) = Wrapped(tail)

\* From the tail to the head.
Contents ==
  LET from == Wrapped(tail)
  IN  [i \in 1 .. ((head - from) % RING_BUFFER_SIZE) |->
         ring[(from + i - 1) % RING_BUFFER_SIZE]]

(* A behaviour that follows the fixes sends no byte into a full ring,      *)
(* which holds 133 ms of the line and is read every 100.  One that follows *)
(* the replies does.                                                       *)
asclin4IsrReceive(byte) ==
  /\ sends = "fixes" => ~Full
  /\ IF RingNext(head) # tail
       THEN ring' = [ring EXCEPT ![head] = byte] /\ head' = RingNext(head)
       ELSE UNCHANGED <<ring, head>>     \* g_ring_buf_overflow_counter++
  /\ overrun' = (overrun \/ (Full /\ RingNext(head) # tail))
  /\ queue' = IF overrun' THEN <<>> ELSE IF Full THEN queue ELSE Append(queue, byte)
  /\ UNCHANGED <<tail, readVars, driverVars, unset, age>>

-----------------------------------------------------------------------------
(* The parser, a function of its state and one byte.                       *)

Idle(b) == [state |-> "IDLE", last |-> b, buffer |-> <<>>]

Collected(p, b) == Append(p.buffer, b)

TooLong(buf) == Announced(buf[1]) > GNSS_UBX_MAX_RX_PAYLOAD

Complete(buf) == Len(buf) >= Announced(buf[1]) + 2

Synced(p, b) == [Idle(b) EXCEPT !.state = IF p.last = SYNC1 /\ b = SYNC2 THEN "UBX" ELSE "IDLE"]

\* Mutant: an impossible length is not given up.
ParseStep_Hangs(p, b) ==
  IF p.state = "IDLE" THEN Synced(p, b)
  ELSE LET buf == Collected(p, b)
       IN  IF TooLong(buf) THEN [state |-> "UBX", last |-> b, buffer |-> <<buf[1]>>]
           ELSE IF Complete(buf) THEN Idle(b)
           ELSE [state |-> "UBX", last |-> b, buffer |-> buf]

ParseStep(p, b) ==
  IF p.state = "IDLE" THEN Synced(p, b)
  ELSE LET buf == Collected(p, b)
       IN  IF TooLong(buf) \/ Complete(buf) THEN Idle(b)
           ELSE [state |-> "UBX", last |-> b, buffer |-> buf]

\* gnss_ubx_decode: the frames whose checksum this byte completes.
Decoded(p, b) ==
  {f \in Frames : p.state = "UBX" /\ ~TooLong(Collected(p, b)) /\ Collected(p, b) = Body(f)}

\* Mutant: a NAK counts too.
IsAck_Any(f) == f \in {"ack", "nak"}

IsAck(f) == f = "ack"

-----------------------------------------------------------------------------
(* GnssM9N_read.                                                           *)

GnssM9N_timeout ==
  /\ status' = (pollCounter < GNSS_NOT_PRESENT_TICKS)
  /\ pollCounter' = IF status' THEN pollCounter + 1 ELSE pollCounter

ReadBegin ==
  /\ pc = "idle"
  /\ GnssM9N_timeout
  /\ pc' = IF status' /\ ~cfg.sent THEN "configure" ELSE "snapshot"
  /\ age' = IF age = 0 THEN 0 ELSE age - 1
  /\ UNCHANGED <<ringVars, headSeen, driverVars, receiverVars, overrun, queue, unset>>

(* The burst.  A frame of which a byte missed the deadline of gnss_txByte  *)
(* does not arrive and no acknowledgement of it is expected; any other     *)
(* reaches the receiver or is lost.                                        *)
Outcomes ==
  {"discarded"} \cup (IF sends = "fixes" THEN {} ELSE {"lost"})
    \cup (IF sends = "fixes" \/ ~power THEN {} ELSE Replies)

ExpectedAcks(outcome) == Cardinality({i \in 1 .. SETTINGS : outcome[i] # "discarded"})

Configure ==
  /\ pc = "configure"
  /\ \E outcome \in [1 .. SETTINGS -> Outcomes] :
       /\ cfg' = [cfg EXCEPT !.sent = TRUE, !.expected = ExpectedAcks(outcome),
                             !.discards = \E i \in 1 .. SETTINGS : outcome[i] = "discarded"]
       /\ replies' = [f \in Replies |-> Cardinality({i \in 1 .. SETTINGS : outcome[i] = f})]
       /\ unset' = \E i \in 1 .. SETTINGS : outcome[i] # "ack"
  /\ pc' = "snapshot"
  /\ UNCHANGED <<ringVars, headSeen, status, pollCounter, parser, nav, fusion, sends,
                 power, sending, lastFix, disturbed, overrun, queue, age>>

Snapshot ==
  /\ pc = "snapshot"
  /\ headSeen' = head /\ pc' = "loop"
  /\ UNCHANGED <<ringVars, status, pollCounter, driverVars, receiverVars, ghostVars>>

(* A cell once parsed is read again only after an overrun; what it then    *)
(* holds is any byte.                                                      *)
Held(cell) == IF ring[cell] = STALE THEN Bytes ELSE {ring[cell]}

ParseByte ==
  /\ pc = "loop" /\ tail # headSeen
  /\ \E b \in Held(tail) :
       /\ parser' = ParseStep(parser, b)
       /\ IF \E f \in Decoded(parser, b) : f \in Fixes
            THEN nav' \in Decoded(parser, b) /\ age' = 2
            ELSE UNCHANGED <<nav, age>>
       /\ cfg' = IF \E f \in Decoded(parser, b) : IsAck(f)
                   THEN [cfg EXCEPT !.acks = (@ + 1) % ACK_MOD] ELSE cfg
  /\ ring' = [ring EXCEPT ![tail] = STALE]
  /\ tail' = tail + 1 /\ pollCounter' = 0
  /\ pc' = IF tail' = RING_BUFFER_SIZE THEN "wrap" ELSE "loop"
  /\ queue' = IF queue = <<>> THEN queue ELSE Tail(queue)
  /\ UNCHANGED <<head, headSeen, status, fusion, receiverVars, overrun, unset>>

WrapTail ==
  /\ pc = "wrap"
  /\ tail' = Wrapped(tail) /\ pc' = "loop"
  /\ UNCHANGED <<ring, head, headSeen, status, pollCounter, driverVars, receiverVars, ghostVars>>

\* Mutant: without a valid fix the last iTOW is forgotten.
Fusion_setGnss_Forgets(valid) ==
  IF ~valid THEN NoFix ELSE IF nav \in Absurd THEN fusion ELSE nav

(* A fix with the iTOW of the last one is not published, nor is an absurd  *)
(* one, which leaves the last iTOW as it is; so does none.  The counts of  *)
(* what was not published are left out.                                    *)
Fusion_setGnss(valid) == IF valid /\ nav \notin Absurd THEN nav ELSE fusion

\* The sample is filled, and SensorTask_gnss hands it on.
ReadEnd ==
  /\ pc = "loop" /\ tail = headSeen
  /\ cfg' = [cfg EXCEPT !.ok = cfg.sent /\ cfg.acks >= cfg.expected]
  /\ fusion' = Fusion_setGnss(status /\ nav # NoFix)
  /\ age' = IF fusion' = fusion THEN age ELSE 0
  /\ pc' = "idle" /\ status' = FALSE
  /\ UNCHANGED <<ringVars, headSeen, pollCounter, parser, nav, receiverVars, overrun,
                 queue, unset>>

Reader == ReadBegin \/ Configure \/ Snapshot \/ ParseByte \/ WrapTail \/ ReadEnd

-----------------------------------------------------------------------------
(* The receiver.  Two usable fixes in a row differ in iTOW.                *)

StartFix ==
  /\ sends = "fixes" /\ power /\ sending = <<>>
  /\ \E f \in Fixes \ {lastFix} :
       /\ sending' = Wire(f) /\ lastFix' = f
       /\ IF f \in Absurd THEN disturbed < MaxDisturbances /\ disturbed' = disturbed + 1
                          ELSE UNCHANGED disturbed
  /\ UNCHANGED <<ringVars, readVars, driverVars, sends, power, replies, ghostVars>>

\* In any order: only their number is counted.
StartReply ==
  /\ power /\ sending = <<>>
  /\ \E f \in Replies :
       /\ replies[f] > 0
       /\ sending' = Wire(f) /\ replies' = [replies EXCEPT ![f] = @ - 1]
  /\ UNCHANGED <<ringVars, readVars, driverVars, sends, power, lastFix, disturbed, ghostVars>>

SendByte ==
  /\ sending # <<>>
  /\ asclin4IsrReceive(Head(sending))
  /\ sending' = Tail(sending)
  /\ UNCHANGED <<sends, power, replies, lastFix, disturbed>>

\* A byte is spoilt, or comes from nowhere: NMEA, noise on an open line.
Disturbance ==
  /\ disturbed < MaxDisturbances /\ disturbed' = disturbed + 1
  /\ \E b \in Noise : asclin4IsrReceive(b)
  /\ sending' \in {sending} \cup (IF sending = <<>> THEN {} ELSE {Tail(sending)})
  /\ UNCHANGED <<sends, power, replies, lastFix>>

\* Its settings are in RAM and go with the supply.
Power ==
  /\ power' = ~power /\ sending' = <<>> /\ replies' = [f \in Replies |-> 0]
  /\ UNCHANGED <<ringVars, readVars, driverVars, sends, lastFix, disturbed, ghostVars>>

-----------------------------------------------------------------------------
Next == Reader \/ StartFix \/ StartReply \/ SendByte \/ Disturbance \/ Power

Spec == Init /\ [][Next]_vars

(* The task is called for ever and ends; a frame begun is sent.            *)
FairSpec == Spec /\ WF_vars(Reader) /\ WF_vars(SendByte) /\ WF_vars(StartReply)

-----------------------------------------------------------------------------
(* A byte that the ring takes is parsed once, and in order, wherever the   *)
(* interrupt comes between two accesses of the reader, until a byte is     *)
(* taken over the oldest; what is lost before has been counted.  And only  *)
(* one interrupt can do that, which is not counted: into a full ring, with *)
(* the tail one past the end (GnssM9N.c:774).                              *)
NothingLostUncounted ==
  /\ [](~overrun => queue = Contents)
  /\ [][~overrun /\ overrun' => Full /\ tail = RING_BUFFER_SIZE]_vars

(* cfgOk is a count of acknowledgements: when it is set, and no byte of    *)
(* the burst was discarded (g_gnssTxDiscards) nor taken over another one   *)
(* in the ring, every setting was accepted, each by its own                *)
(* acknowledgement, whatever was lost or spoilt on the line.  cfgOk alone  *)
(* does not say so: of a burst that was all discarded it expects nothing.  *)
(* A setting that a power cycle undoes was accepted.                       *)
CfgOkMeansAccepted == cfg.ok /\ ~cfg.discards /\ ~overrun => ~unset

(* What reaches Fusion as a new fix was decoded in this call or the one    *)
(* before and has not reached it yet: the copy that g_nav keeps of an old  *)
(* one does not come back, not after the receiver was absent either.       *)
FixIsFresh == [][fusion' \notin {fusion, NoFix} => age > 0]_vars

(* The parser finds the frames again after any disturbance, and a receiver *)
(* that goes on sending usable fixes is fused again and again.             *)
FixesArrive ==
  <>[][~Power]_vars /\ []<><<StartFix>>_vars => []<><<fusion' # fusion>>_vars
=============================================================================
