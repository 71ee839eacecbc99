---------------------------- MODULE GnssProofs -----------------------------
(***************************************************************************)
(* The receive ring loses no byte uncounted until one is taken over the    *)
(* oldest, which only the tail past its end allows (overrun); cfgOk means  *)
(* that every setting was accepted, when none was discarded; and only a    *)
(* fresh fix is published: for every size of the ring, length of the burst *)
(* and number of disturbances.  The second rests on the first: that the    *)
(* bytes parsed are the bytes received is why the acknowledgements can be  *)
(* counted.                                                                *)
(***************************************************************************)
EXTENDS GnssM9N, FiniteSetTheorems, SequenceTheorems, TLAPS

Cells == 0 .. RING_BUFFER_SIZE - 1
ACK2  == B("ack", 2)

\* What a receiver may have left to send.
Rests(f) == {Wire(f), <<SYNC2, B(f, 1), B(f, 2)>>, Body(f), <<B(f, 2)>>}

CfgType == [sent : BOOLEAN, expected : 0 .. SETTINGS, discards : BOOLEAN,
            acks : 0 .. ACK_MOD - 1, ok : BOOLEAN]

TypeInv ==
  /\ ring \in [Cells -> Bytes \cup {STALE}] /\ head \in Cells
  /\ tail \in Cells \/ (pc = "wrap" /\ tail = RING_BUFFER_SIZE)
  /\ pc \in {"idle", "configure", "snapshot", "loop", "wrap"}
  /\ headSeen \in Cells /\ status \in BOOLEAN /\ overrun \in BOOLEAN /\ unset \in BOOLEAN
  /\ pollCounter \in Nat
  /\ parser \in [state : {"IDLE", "UBX"}, last : Bytes, buffer : Seq(Bytes)]
  /\ cfg \in CfgType
  /\ replies \in [Replies -> Nat]
  /\ sending = <<>> \/ \E f \in Frames : sending \in Rests(f)

\* A fix held and not yet published is of this call or of the one before.
FixKept ==
  nav \notin {fusion, NoFix} \cup Absurd =>
    \/ age = 2 /\ pollCounter = 0
    \/ pc # "idle" /\ age = 1 /\ status

\* Bytes from cell b on to cell a, exclusive.
Ahead(a, b) == IF a >= b THEN a - b ELSE a - b + RING_BUFFER_SIZE

Unread == Ahead(head, Wrapped(tail))

CellAt(k) ==
  IF Wrapped(tail) + k < RING_BUFFER_SIZE THEN Wrapped(tail) + k
  ELSE Wrapped(tail) + k - RING_BUFFER_SIZE

\* The queue is what stands in the ring, and the snapshot is not behind the tail.
InRing ==
  /\ queue \in Seq(Bytes) /\ Len(queue) = Unread
  /\ \A i \in 1 .. Unread : queue[i] = ring[CellAt(i - 1)]
  /\ pc \in {"loop", "wrap"} => Ahead(headSeen, Wrapped(tail)) <= Unread

AcksInRing  == Cardinality({c \in Cells : ring[c] = ACK2})
AckIn(b)    == IF b = ACK2 THEN 1 ELSE 0
AckSending  == IF sending # <<>> /\ sending[Len(sending)] = ACK2 THEN 1 ELSE 0
NotAccepted == IF unset /\ ~cfg.discards THEN 1 ELSE 0

\* Each setting expected is acknowledged at most once, a lost or refused one never.
AcksCounted ==
  cfg.acks + AcksInRing + AckSending + replies["ack"] + NotAccepted <= cfg.expected

Configured ==
  /\ pc = "configure" => ~cfg.sent
  /\ ~cfg.sent => cfg.expected = 0
  /\ cfg.ok => cfg.sent

Promises == InRing /\ AcksCounted /\ (cfg.ok /\ ~cfg.discards => ~unset)

IInv ==
  /\ TypeInv /\ FixKept /\ Configured
  /\ ~overrun => Promises

-----------------------------------------------------------------------------
(* The constants as numbers, the bytes, and what a receiver sends.         *)
LEMMA Numbers ==
  /\ RING_BUFFER_SIZE \in Nat /\ RING_BUFFER_SIZE > 0
  /\ GNSS_NOT_PRESENT_TICKS \in Nat /\ GNSS_NOT_PRESENT_TICKS > 0
  /\ ACK_MOD \in Nat /\ SETTINGS \in Nat /\ SETTINGS <= ACK_MOD - 1
BY GnssAssumption

LEMMA FramesKnown == "stale" \notin Frames /\ "noise" \notin Frames
BY GnssAssumption DEF Frames, Replies

LEMMA BytesKnown == STALE \notin Bytes /\ ACK2 \in Bytes
<1>1. \A f \in Frames, k \in 1 .. 2 : B(f, k) # STALE
  BY FramesKnown DEF STALE, B
<1>2. SYNC1 # STALE /\ SYNC2 # STALE /\ STALE \notin Noise
  BY DEF STALE, SYNC1, SYNC2, Noise, B
<1>3. QED
  BY <1>1, <1>2 DEF Bytes, ACK2, Frames, Replies

\* Only the last byte of an acknowledgement is ACK2.
LEMMA OneAck ==
  /\ SYNC1 # ACK2 /\ SYNC2 # ACK2 /\ ACK2 \notin Noise /\ ACK2 # STALE
  /\ \A f : B(f, 1) # ACK2 /\ (B(f, 2) = ACK2 <=> f = "ack")
<1>1. SYNC1 # ACK2 /\ SYNC2 # ACK2 /\ ACK2 \notin Noise /\ ACK2 # STALE
  BY DEF STALE, SYNC1, SYNC2, Noise, B, ACK2
<1>2. \A f : B(f, 1) # ACK2 /\ (B(f, 2) = ACK2 <=> f = "ack")
  BY DEF B, ACK2
<1>3. QED
  BY <1>1, <1>2

(* A byte sent leaves a rest, and the last byte of the rest is the same.   *)
LEMMA RestGoesOn ==
  ASSUME NEW f \in Frames, NEW s \in Rests(f)
  PROVE  /\ s # <<>> /\ Head(s) \in Bytes
         /\ s[Len(s)] = B(f, 2)
         /\ Tail(s) = <<>> \/ Tail(s) \in Rests(f)
         /\ Tail(s) = <<>> => Head(s) = B(f, 2)
         /\ Tail(s) # <<>> => Head(s) # ACK2
<1>1. /\ SYNC1 \in Bytes /\ SYNC2 \in Bytes /\ B(f, 1) \in Bytes /\ B(f, 2) \in Bytes
      /\ SYNC1 # ACK2 /\ SYNC2 # ACK2 /\ B(f, 1) # ACK2
  BY OneAck DEF Bytes
<1> DEFINE b1 == B(f, 1)
           b2 == B(f, 2)
<1>2. Rests(f) = {<<SYNC1, SYNC2, b1, b2>>, <<SYNC2, b1, b2>>, <<b1, b2>>, <<b2>>}
  BY DEF Rests, Wire, Body
<1> HIDE DEF b1, b2
<1>3. CASE s = <<SYNC1, SYNC2, b1, b2>>
  <2>1. Head(s) = SYNC1 /\ Tail(s) = <<SYNC2, b1, b2>> /\ Len(s) = 4 /\ s[4] = b2
    BY <1>3
  <2>2. s # <<>> /\ Tail(s) # <<>>
    BY <1>3, <2>1
  <2>3. QED
    BY <1>1, <1>2, <2>1, <2>2 DEF b2
<1>4. CASE s = <<SYNC2, b1, b2>>
  <2>1. Head(s) = SYNC2 /\ Tail(s) = <<b1, b2>> /\ Len(s) = 3 /\ s[3] = b2
    BY <1>4
  <2>2. s # <<>> /\ Tail(s) # <<>>
    BY <1>4, <2>1
  <2>3. QED
    BY <1>1, <1>2, <2>1, <2>2 DEF b2
<1>5. CASE s = <<b1, b2>>
  <2>1. Head(s) = b1 /\ Tail(s) = <<b2>> /\ Len(s) = 2 /\ s[2] = b2
    BY <1>5
  <2>2. s # <<>> /\ Tail(s) # <<>>
    BY <1>5, <2>1
  <2>3. QED
    BY <1>1, <1>2, <2>1, <2>2 DEF b1, b2
<1>6. CASE s = <<b2>>
  <2>1. Head(s) = b2 /\ Tail(s) = <<>> /\ Len(s) = 1 /\ s[1] = b2
    BY <1>6
  <2>2. s # <<>>
    BY <1>6
  <2>3. QED
    BY <1>1, <2>1, <2>2 DEF b2
<1>7. QED
  BY <1>2, <1>3, <1>4, <1>5, <1>6

-----------------------------------------------------------------------------
(* Indices.                                                                *)
LEMMA WrappedIsCell ==
  ASSUME TypeInv
  PROVE  /\ Wrapped(tail) \in Cells /\ RingNext(head) \in Cells
         /\ tail \in Cells => Wrapped(tail) = tail /\ RingNext(tail) \in Cells
<1>1. head \in Cells /\ (tail \in Cells \/ tail = RING_BUFFER_SIZE)
  BY DEF TypeInv
<1>2. \A i \in 0 .. RING_BUFFER_SIZE : Wrapped(i) \in Cells
  BY Numbers DEF Cells, Wrapped
<1>3. \A i \in Cells : Wrapped(i) = i /\ RingNext(i) \in Cells
  BY <1>2, Numbers DEF Cells, Wrapped, RingNext
<1>4. Cells \subseteq 0 .. RING_BUFFER_SIZE /\ RING_BUFFER_SIZE \in 0 .. RING_BUFFER_SIZE
  BY Numbers DEF Cells
<1>5. QED
  BY <1>1, <1>2, <1>3, <1>4

(* x % n within one turn of the range 0 .. n - 1.                          *)
LEMMA OneTurn ==
  ASSUME NEW n \in Nat, n > 0, NEW x \in Int
  PROVE  /\ x \in 0 .. n - 1 => x % n = x
         /\ x + n \in 0 .. n - 1 => x % n = x + n
         /\ x - n \in 0 .. n - 1 => x % n = x - n
<1>1. ASSUME x \in 0 .. n - 1 PROVE x % n = x
  BY <1>1
<1>2. ASSUME x + n \in 0 .. n - 1 PROVE x % n = x + n
  BY <1>2
<1>3. ASSUME x - n \in 0 .. n - 1 PROVE x % n = x - n
  BY <1>3
<1>4. QED
  BY <1>1, <1>2, <1>3

LEMMA AheadIsMod ==
  ASSUME NEW a \in Cells, NEW b \in Cells
  PROVE  /\ Ahead(a, b) \in Cells
         /\ (a - b) % RING_BUFFER_SIZE = Ahead(a, b)
<1>1. /\ RING_BUFFER_SIZE \in Nat /\ RING_BUFFER_SIZE > 0 /\ a - b \in Int
      /\ a \in 0 .. RING_BUFFER_SIZE - 1 /\ b \in 0 .. RING_BUFFER_SIZE - 1
  BY Numbers DEF Cells
<1>2. CASE a >= b
  <2>1. a - b \in 0 .. RING_BUFFER_SIZE - 1
    BY <1>1, <1>2
  <2>2. (a - b) % RING_BUFFER_SIZE = a - b
    BY <1>1, <2>1, OneTurn
  <2>3. QED
    BY <1>2, <2>1, <2>2 DEF Ahead, Cells
<1>3. CASE a < b
  <2>1. a - b + RING_BUFFER_SIZE \in 0 .. RING_BUFFER_SIZE - 1
    BY <1>1, <1>3
  <2>2. (a - b) % RING_BUFFER_SIZE = a - b + RING_BUFFER_SIZE
    BY <1>1, <2>1, OneTurn
  <2>3. Ahead(a, b) = a - b + RING_BUFFER_SIZE
    BY <1>1, <1>3 DEF Ahead
  <2>4. QED
    BY <2>1, <2>2, <2>3 DEF Cells
<1>4. QED
  BY <1>1, <1>2, <1>3

(* Contents with the turns written out.                                    *)
LEMMA ContentsAre ==
  ASSUME TypeInv
  PROVE  /\ Unread \in Cells
         /\ \A k \in Cells : CellAt(k) \in Cells
         /\ Contents = [i \in 1 .. Unread |-> ring[CellAt(i - 1)]]
<1> DEFINE from == Wrapped(tail)
<1>1. from \in Cells /\ head \in Cells
  BY WrappedIsCell DEF TypeInv
<1>2. Unread \in Cells /\ (head - from) % RING_BUFFER_SIZE = Unread
  BY <1>1, AheadIsMod DEF Unread
<1>3. ASSUME NEW k \in Cells
      PROVE  CellAt(k) \in Cells /\ (from + k) % RING_BUFFER_SIZE = CellAt(k)
  <2>1. /\ RING_BUFFER_SIZE \in Nat /\ RING_BUFFER_SIZE > 0 /\ from + k \in Int
        /\ from \in 0 .. RING_BUFFER_SIZE - 1 /\ k \in 0 .. RING_BUFFER_SIZE - 1
    BY <1>1, Numbers DEF Cells
  <2> HIDE DEF from
  <2>2. CASE from + k < RING_BUFFER_SIZE
    <3>1. from + k \in 0 .. RING_BUFFER_SIZE - 1
      BY <2>1, <2>2
    <3>2. (from + k) % RING_BUFFER_SIZE = from + k
      BY <2>1, <3>1, OneTurn
    <3>3. CellAt(k) = from + k
      BY <2>2 DEF CellAt, from
    <3>4. QED
      BY <3>1, <3>2, <3>3 DEF Cells
  <2>3. CASE from + k >= RING_BUFFER_SIZE
    <3>1. from + k - RING_BUFFER_SIZE \in 0 .. RING_BUFFER_SIZE - 1
      BY <2>1, <2>3
    <3>2. (from + k) % RING_BUFFER_SIZE = from + k - RING_BUFFER_SIZE
      BY <2>1, <3>1, OneTurn
    <3>3. ~(from + k < RING_BUFFER_SIZE)
      BY <2>1, <2>3
    <3>4. CellAt(k) = from + k - RING_BUFFER_SIZE
      BY <3>3 DEF CellAt, from
    <3>5. QED
      BY <3>1, <3>2, <3>4 DEF Cells
  <2>4. QED
    BY <2>1, <2>2, <2>3
<1>4. \A i \in 1 .. Unread : (from + i - 1) % RING_BUFFER_SIZE = CellAt(i - 1)
  <2>1. SUFFICES ASSUME NEW i \in 1 .. Unread
                 PROVE  (from + i - 1) % RING_BUFFER_SIZE = CellAt(i - 1)
    OBVIOUS
  <2>2. i - 1 \in Cells /\ from + i - 1 = from + (i - 1)
    BY <1>1, <1>2, Numbers DEF Cells
  <2>3. QED
    BY <1>3, <2>2
<1>5. Contents = [i \in 1 .. Unread |-> ring[(from + i - 1) % RING_BUFFER_SIZE]]
  BY <1>2 DEF Contents
<1>6. QED
  BY <1>2, <1>3, <1>4, <1>5

-----------------------------------------------------------------------------
(* Types.                                                                  *)
LEMMA InitTypes == Init => TypeInv /\ FixKept /\ Configured
<1> SUFFICES ASSUME Init PROVE TypeInv /\ FixKept /\ Configured
  OBVIOUS
<1>1. /\ ring = [i \in Cells |-> STALE] /\ head = 0 /\ tail = 0 /\ pc = "idle"
      /\ headSeen = 0 /\ pollCounter = GNSS_NOT_PRESENT_TICKS
      /\ sending = <<>> /\ replies = [f \in Replies |-> 0] /\ nav = NoFix
  BY DEF Init, Cells
<1>2. status = FALSE /\ overrun = FALSE /\ unset = FALSE
  BY Zenon DEF Init
<1>3. status \in BOOLEAN /\ overrun \in BOOLEAN /\ unset \in BOOLEAN
  BY <1>2
<1>4. cfg = [sent |-> FALSE, expected |-> 0, discards |-> FALSE, acks |-> 0, ok |-> FALSE]
  BY Zenon DEF Init
<1>5. cfg \in CfgType
  BY <1>4, Numbers DEF CfgType
<1>6. parser \in [state : {"IDLE", "UBX"}, last : Bytes, buffer : Seq(Bytes)]
  <2>1. parser = [state |-> "IDLE", last |-> B("noise", 1), buffer |-> <<>>]
    BY Zenon DEF Init
  <2>2. B("noise", 1) \in Bytes /\ <<>> \in Seq(Bytes)
    BY EmptySeq DEF Bytes, Noise
  <2>3. QED
    BY <2>1, <2>2
<1>7. 0 \in Cells
  BY Numbers DEF Cells
<1>8. TypeInv
  BY <1>1, <1>3, <1>5, <1>6, <1>7, Numbers DEF TypeInv
<1>9. ~cfg.ok /\ cfg.expected = 0
  BY <1>4
<1>10. QED
  BY <1>1, <1>8, <1>9 DEF FixKept, Configured

\* The interrupt writes at most the cell at the head, and moves the head past it.
LEMMA IsrTypes ==
  ASSUME TypeInv, NEW byte \in Bytes, asclin4IsrReceive(byte)
  PROVE  /\ ring' \in [Cells -> Bytes \cup {STALE}] /\ head' \in Cells
         /\ overrun' \in BOOLEAN
         /\ UNCHANGED <<tail, pc, headSeen, status, pollCounter, parser, cfg, nav, fusion,
                        unset, age>>
<1>1. UNCHANGED <<tail, pc, headSeen, status, pollCounter, parser, cfg, nav, fusion,
                  unset, age>>
  BY DEF asclin4IsrReceive, readVars, driverVars
<1>2. overrun' \in BOOLEAN
  <2>1. overrun' = (overrun \/ (Full /\ RingNext(head) # tail))
    BY DEF asclin4IsrReceive
  <2>2. QED
    BY <2>1
<1>3. ring' \in [Cells -> Bytes \cup {STALE}] /\ head' \in Cells
  <2>1. CASE RingNext(head) # tail
    <3>1. ring' = [ring EXCEPT ![head] = byte] /\ head' = RingNext(head)
      BY <2>1 DEF asclin4IsrReceive
    <3>2. QED
      BY <3>1, WrappedIsCell DEF TypeInv
  <2>2. CASE RingNext(head) = tail
    BY <2>2 DEF asclin4IsrReceive, TypeInv
  <2>3. QED
    BY <2>1, <2>2
<1>4. QED
  BY <1>1, <1>2, <1>3

\* A byte out leaves a rest.
LEMMA RestSent ==
  ASSUME TypeInv, sending # <<>>
  PROVE  /\ Head(sending) \in Bytes
         /\ Tail(sending) = <<>> \/ \E f \in Frames : Tail(sending) \in Rests(f)
<1>1. PICK f \in Frames : sending \in Rests(f)
  BY DEF TypeInv
<1>2. QED
  BY <1>1, RestGoesOn

LEMMA ReadBeginTypes == ASSUME TypeInv, Configured, ReadBegin PROVE TypeInv' /\ Configured'
<1>1. /\ pc = "idle" /\ pc' \in {"configure", "snapshot"}
      /\ pc' = "configure" => ~cfg.sent
      /\ status' = (pollCounter < GNSS_NOT_PRESENT_TICKS)
      /\ pollCounter' = IF status' THEN pollCounter + 1 ELSE pollCounter
      /\ UNCHANGED <<ring, head, tail, headSeen, overrun, unset, parser, cfg, replies,
                     sending>>
  BY DEF ReadBegin, GnssM9N_timeout, ringVars, driverVars, receiverVars
<1>2. status' \in BOOLEAN /\ pollCounter' \in Nat
  BY <1>1 DEF TypeInv
<1>3. TypeInv'
  BY <1>1, <1>2 DEF TypeInv
<1>4. QED
  BY <1>1, <1>3 DEF Configured

(* The burst: what is expected, what the receiver owes, and what was not   *)
(* accepted fit together.                                                  *)
LEMMA Burst ==
  ASSUME NEW outcome \in [1 .. SETTINGS -> {"discarded", "lost"} \cup Replies]
  PROVE  /\ ExpectedAcks(outcome) \in 0 .. SETTINGS
         /\ \A f \in Replies : Cardinality({i \in 1 .. SETTINGS : outcome[i] = f}) \in Nat
         /\ Cardinality({i \in 1 .. SETTINGS : outcome[i] = "ack"}) <= ExpectedAcks(outcome)
         /\ (\E i \in 1 .. SETTINGS : outcome[i] \in {"lost", "nak"})
              => Cardinality({i \in 1 .. SETTINGS : outcome[i] = "ack"}) + 1
                   <= ExpectedAcks(outcome)
<1> DEFINE all == 1 .. SETTINGS
           Of(f) == {i \in all : outcome[i] = f}
           counted == {i \in all : outcome[i] # "discarded"}
<1>1. IsFiniteSet(all) /\ Cardinality(all) = SETTINGS
  BY Numbers, FS_Interval
<1>2. \A f \in Replies : IsFiniteSet(Of(f)) /\ Cardinality(Of(f)) \in Nat
  <2>1. \A f \in Replies : Of(f) \in SUBSET all
    OBVIOUS
  <2>2. QED
    BY <1>1, <2>1, FS_Subset, FS_CardinalityType
<1>3. IsFiniteSet(counted) /\ Cardinality(counted) \in Nat /\ Cardinality(counted) <= SETTINGS
  <2>1. counted \in SUBSET all
    OBVIOUS
  <2>2. QED
    BY <1>1, <2>1, FS_Subset, FS_CardinalityType
<1>4. Of("ack") \in SUBSET counted
  OBVIOUS
<1>5. Cardinality(Of("ack")) <= Cardinality(counted)
  BY <1>3, <1>4, FS_Subset
<1>6. ASSUME NEW j \in all, outcome[j] \in {"lost", "nak"}
      PROVE  Cardinality(Of("ack")) + 1 <= Cardinality(counted)
  <2>1. j \notin Of("ack") /\ Of("ack") \cup {j} \in SUBSET counted
    BY <1>6
  <2>2. IsFiniteSet(Of("ack"))
    BY <1>2 DEF Replies
  <2>3. Cardinality(Of("ack") \cup {j}) = Cardinality(Of("ack")) + 1
    BY <2>1, <2>2, FS_AddElement
  <2>4. Cardinality(Of("ack") \cup {j}) <= Cardinality(counted)
    BY <1>3, <2>1, FS_Subset
  <2>5. QED
    BY <2>3, <2>4
<1>7. ExpectedAcks(outcome) = Cardinality(counted)
  BY DEF ExpectedAcks
<1>8. ExpectedAcks(outcome) \in 0 .. SETTINGS
  BY <1>3, <1>7, Numbers
<1>9. \A f \in Replies : Cardinality({i \in 1 .. SETTINGS : outcome[i] = f}) \in Nat
  BY <1>2
<1>10. Cardinality({i \in 1 .. SETTINGS : outcome[i] = "ack"}) <= ExpectedAcks(outcome)
  BY <1>5, <1>7
<1>11. (\E i \in 1 .. SETTINGS : outcome[i] \in {"lost", "nak"})
         => Cardinality({i \in 1 .. SETTINGS : outcome[i] = "ack"}) + 1 <= ExpectedAcks(outcome)
  BY <1>6, <1>7
<1>12. QED
  BY <1>8, <1>9, <1>10, <1>11

LEMMA ConfigureTypes ==
  ASSUME TypeInv, Configured, Configure
  PROVE  /\ TypeInv' /\ Configured'
         /\ cfg'.sent /\ cfg'.acks = cfg.acks /\ cfg'.ok = cfg.ok
         /\ replies'["ack"] + NotAccepted' <= cfg'.expected
<1>1. PICK outcome \in [1 .. SETTINGS -> Outcomes] :
        /\ cfg' = [cfg EXCEPT !.sent = TRUE, !.expected = ExpectedAcks(outcome),
                              !.discards = \E i \in 1 .. SETTINGS : outcome[i] = "discarded"]
        /\ replies' = [f \in Replies |-> Cardinality({i \in 1 .. SETTINGS : outcome[i] = f})]
        /\ unset' = \E i \in 1 .. SETTINGS : outcome[i] # "ack"
  BY DEF Configure
<1>2. /\ pc = "configure" /\ pc' = "snapshot"
      /\ UNCHANGED <<ring, head, tail, headSeen, status, pollCounter, overrun, parser, sending>>
  BY DEF Configure, ringVars
<1>3. outcome \in [1 .. SETTINGS -> {"discarded", "lost"} \cup Replies]
  <2>1. Outcomes \subseteq {"discarded", "lost"} \cup Replies
    BY DEF Outcomes
  <2>2. QED
    BY <2>1
<1>4. /\ ExpectedAcks(outcome) \in 0 .. SETTINGS
      /\ \A f \in Replies : Cardinality({i \in 1 .. SETTINGS : outcome[i] = f}) \in Nat
      /\ Cardinality({i \in 1 .. SETTINGS : outcome[i] = "ack"}) <= ExpectedAcks(outcome)
      /\ (\E i \in 1 .. SETTINGS : outcome[i] \in {"lost", "nak"})
           => Cardinality({i \in 1 .. SETTINGS : outcome[i] = "ack"}) + 1
                <= ExpectedAcks(outcome)
  BY <1>1, <1>3, Burst
<1>5. replies' \in [Replies -> Nat]
  BY <1>1, <1>4
<1>6. unset' \in BOOLEAN
  BY <1>1
<1>7. /\ cfg' \in CfgType
      /\ cfg'.sent /\ cfg'.expected = ExpectedAcks(outcome)
      /\ cfg'.discards <=> \E i \in 1 .. SETTINGS : outcome[i] = "discarded"
      /\ cfg'.acks = cfg.acks /\ cfg'.ok = cfg.ok
  <2> DEFINE any == \E i \in 1 .. SETTINGS : outcome[i] = "discarded"
  <2>1. any \in BOOLEAN
    OBVIOUS
  <2>2. cfg' = [cfg EXCEPT !.sent = TRUE, !.expected = ExpectedAcks(outcome), !.discards = any]
    BY <1>1
  <2> HIDE DEF any
  <2>3. /\ cfg' \in CfgType
        /\ cfg'.sent /\ cfg'.expected = ExpectedAcks(outcome) /\ cfg'.discards = any
        /\ cfg'.acks = cfg.acks /\ cfg'.ok = cfg.ok
    BY <1>4, <2>1, <2>2 DEF TypeInv, CfgType
  <2>4. QED
    BY <2>1, <2>3 DEF any
<1>8. TypeInv'
  BY <1>2, <1>5, <1>6, <1>7 DEF TypeInv
<1>9. replies'["ack"] = Cardinality({i \in 1 .. SETTINGS : outcome[i] = "ack"})
  BY <1>1 DEF Replies
<1>10. replies'["ack"] + NotAccepted' <= cfg'.expected
  <2>1. replies'["ack"] \in Nat /\ ExpectedAcks(outcome) \in Nat
    BY <1>4, <1>5 DEF Replies
  <2>2. NotAccepted' = 1 => \E i \in 1 .. SETTINGS : outcome[i] \in {"lost", "nak"}
    <3>1. NotAccepted' = 1 => unset' /\ ~cfg'.discards
      BY DEF NotAccepted
    <3>2. QED
      BY <1>1, <1>3, <1>7, <3>1 DEF Replies
  <2>3. NotAccepted' \in {0, 1}
    BY DEF NotAccepted
  <2>4. replies'["ack"] <= cfg'.expected /\ cfg'.expected \in Nat
    BY <1>4, <1>7, <1>9, <2>1
  <2>5. NotAccepted' = 1 => replies'["ack"] + 1 <= cfg'.expected
    BY <1>4, <1>7, <1>9, <2>2
  <2>6. QED
    BY <2>1, <2>3, <2>4, <2>5
<1>11. QED
  BY <1>2, <1>7, <1>8, <1>10 DEF Configured

LEMMA SnapshotTypes == ASSUME TypeInv, Configured, Snapshot PROVE TypeInv' /\ Configured'
<1>1. /\ pc = "snapshot" /\ pc' = "loop" /\ headSeen' = head
      /\ UNCHANGED <<ring, head, tail, status, pollCounter, overrun, unset, parser, cfg, replies,
                     sending>>
  BY DEF Snapshot, ringVars, driverVars, receiverVars, ghostVars
<1>2. TypeInv'
  BY <1>1 DEF TypeInv
<1>3. QED
  BY <1>1, <1>2 DEF Configured

\* What the driver's counters may become when a byte is parsed.
LEMMA ParseTypes == ASSUME TypeInv, Configured, ParseByte PROVE TypeInv' /\ Configured'
<1>1. /\ pc = "loop" /\ tail # headSeen
      /\ ring' = [ring EXCEPT ![tail] = STALE] /\ tail' = tail + 1 /\ pollCounter' = 0
      /\ pc' = IF tail' = RING_BUFFER_SIZE THEN "wrap" ELSE "loop"
      /\ cfg' \in {cfg, [cfg EXCEPT !.acks = (@ + 1) % ACK_MOD]}
      /\ UNCHANGED <<head, headSeen, status, overrun, unset, replies, sending>>
  BY DEF ParseByte, receiverVars
<1>2. tail \in Cells
  BY <1>1 DEF TypeInv
<1>3. ring' \in [Cells -> Bytes \cup {STALE}]
  BY <1>1 DEF TypeInv
<1>4. tail' \in Cells \/ (pc' = "wrap" /\ tail' = RING_BUFFER_SIZE)
  BY <1>1, <1>2, Numbers DEF Cells
<1>5. \A n \in Nat : n % ACK_MOD \in 0 .. ACK_MOD - 1
  BY Numbers, GnssAssumption
<1>6. /\ cfg' \in CfgType
      /\ cfg'.sent = cfg.sent /\ cfg'.expected = cfg.expected /\ cfg'.ok = cfg.ok
  <2>1. cfg.acks + 1 \in Nat
    BY Numbers DEF TypeInv, CfgType
  <2>2. QED
    BY <1>1, <1>5, <2>1 DEF TypeInv, CfgType
<1>7. parser' \in [state : {"IDLE", "UBX"}, last : Bytes, buffer : Seq(Bytes)]
  <2>1. PICK b \in Held(tail) : parser' = ParseStep(parser, b)
    BY DEF ParseByte
  <2>2. b \in Bytes
    BY <1>2, <2>1 DEF Held, TypeInv
  <2>3. Append(parser.buffer, b) \in Seq(Bytes) /\ <<>> \in Seq(Bytes)
    BY <2>2, AppendProperties, EmptySeq DEF TypeInv
  <2>4. /\ Idle(b) \in [state : {"IDLE", "UBX"}, last : Bytes, buffer : Seq(Bytes)]
        /\ Synced(parser, b) \in [state : {"IDLE", "UBX"}, last : Bytes, buffer : Seq(Bytes)]
    BY <2>2, <2>3 DEF Idle, Synced
  <2>5. QED
    BY <2>1, <2>2, <2>3, <2>4 DEF ParseStep, Collected
<1>8. TypeInv'
  BY <1>1, <1>3, <1>4, <1>6, <1>7 DEF TypeInv
<1>9. QED
  BY <1>1, <1>6, <1>8 DEF Configured

LEMMA WrapTypes == ASSUME TypeInv, Configured, WrapTail PROVE TypeInv' /\ Configured'
<1>1. /\ pc = "wrap" /\ pc' = "loop" /\ tail' = Wrapped(tail)
      /\ UNCHANGED <<ring, head, headSeen, status, pollCounter, overrun, unset, parser, cfg,
                     replies, sending>>
  BY DEF WrapTail, driverVars, receiverVars, ghostVars
<1>2. TypeInv'
  BY <1>1, WrappedIsCell DEF TypeInv
<1>3. QED
  BY <1>1, <1>2 DEF Configured

LEMMA ReadEndTypes == ASSUME TypeInv, Configured, ReadEnd PROVE TypeInv' /\ Configured'
<1>1. /\ pc = "loop" /\ pc' = "idle"
      /\ cfg' = [cfg EXCEPT !.ok = cfg.sent /\ cfg.acks >= cfg.expected]
      /\ UNCHANGED <<ring, head, tail, headSeen, pollCounter, overrun, unset, parser, replies,
                     sending>>
  BY DEF ReadEnd, ringVars, receiverVars
<1>2. status' = FALSE
  BY Zenon DEF ReadEnd
<1>3. status' \in BOOLEAN
  BY <1>2
<1>4. /\ cfg' \in CfgType
      /\ cfg'.sent = cfg.sent /\ cfg'.expected = cfg.expected
      /\ cfg'.ok <=> (cfg.sent /\ cfg.acks >= cfg.expected)
  <2> DEFINE enough == cfg.sent /\ cfg.acks >= cfg.expected
  <2>1. enough \in BOOLEAN
    BY DEF TypeInv, CfgType
  <2>2. cfg' = [cfg EXCEPT !.ok = enough]
    BY <1>1
  <2> HIDE DEF enough
  <2>3. /\ cfg' \in CfgType /\ cfg'.ok = enough
        /\ cfg'.sent = cfg.sent /\ cfg'.expected = cfg.expected
    BY <2>1, <2>2 DEF TypeInv, CfgType
  <2>4. QED
    BY <2>1, <2>3 DEF enough
<1>5. TypeInv'
  BY <1>1, <1>3, <1>4 DEF TypeInv
<1>6. QED
  BY <1>1, <1>4, <1>5 DEF Configured

\* The receiver touches nothing of the driver but the ring.
Driver == <<pc, headSeen, status, pollCounter, parser, cfg, nav, fusion, unset, age>>

LEMMA StartTypes ==
  ASSUME TypeInv, Configured, StartFix \/ StartReply
  PROVE  /\ TypeInv' /\ Configured' /\ UNCHANGED <<Driver, ring, head, tail, overrun, queue>>
         /\ sending = <<>>
<1>1. UNCHANGED <<Driver, ring, head, tail, overrun, queue>> /\ sending = <<>>
  BY DEF StartFix, StartReply, Driver, ringVars, readVars, driverVars, ghostVars
<1>2. \E f \in Frames : sending' = Wire(f)
  BY DEF StartFix, StartReply, Frames
<1>3. \E f \in Frames : sending' \in Rests(f)
  BY <1>2 DEF Rests
<1>4. replies' \in [Replies -> Nat]
  <2>1. CASE StartFix
    BY <2>1 DEF StartFix, TypeInv
  <2>2. CASE StartReply
    <3>1. PICK f \in Replies : replies[f] > 0 /\ replies' = [replies EXCEPT ![f] = @ - 1]
      BY <2>2 DEF StartReply
    <3>2. replies[f] - 1 \in Nat
      BY <3>1 DEF TypeInv
    <3>3. QED
      BY <3>1, <3>2 DEF TypeInv
  <2>3. QED
    BY <2>1, <2>2
<1>5. TypeInv'
  BY <1>1, <1>3, <1>4 DEF TypeInv, Driver
<1>6. QED
  BY <1>1, <1>5 DEF Configured, Driver

LEMMA SendTypes ==
  ASSUME TypeInv, Configured, SendByte
  PROVE  TypeInv' /\ Configured' /\ UNCHANGED <<Driver, tail, replies>>
<1>1. /\ sending # <<>> /\ sending' = Tail(sending) /\ replies' = replies
      /\ asclin4IsrReceive(Head(sending))
  BY DEF SendByte
<1>2. Head(sending) \in Bytes
  BY <1>1, RestSent
<1>3. sending' = <<>> \/ \E f \in Frames : sending' \in Rests(f)
  BY <1>1, RestSent
<1>4. /\ ring' \in [Cells -> Bytes \cup {STALE}] /\ head' \in Cells /\ overrun' \in BOOLEAN
      /\ UNCHANGED <<tail, pc, headSeen, status, pollCounter, parser, cfg, nav, fusion,
                     unset, age>>
  BY <1>1, <1>2, IsrTypes
<1>5. TypeInv'
  BY <1>1, <1>3, <1>4 DEF TypeInv
<1>6. QED
  BY <1>1, <1>4, <1>5 DEF Configured, Driver

LEMMA DisturbanceTypes ==
  ASSUME TypeInv, Configured, Disturbance
  PROVE  /\ TypeInv' /\ Configured' /\ UNCHANGED <<Driver, tail, replies>>
         /\ \E b \in Noise : asclin4IsrReceive(b)
         /\ sending' = sending \/ (sending # <<>> /\ sending' = Tail(sending))
<1>1. /\ replies' = replies
      /\ \E b \in Noise : asclin4IsrReceive(b)
      /\ sending' = sending \/ (sending # <<>> /\ sending' = Tail(sending))
  BY DEF Disturbance
<1>2. PICK b \in Noise : asclin4IsrReceive(b)
  BY <1>1
<1>3. sending' = <<>> \/ \E f \in Frames : sending' \in Rests(f)
  <2>1. CASE sending' = sending
    BY <2>1 DEF TypeInv
  <2>2. CASE sending # <<>> /\ sending' = Tail(sending)
    BY <2>2, RestSent
  <2>3. QED
    BY <1>1, <2>1, <2>2
<1>4. b \in Bytes
  BY DEF Bytes
<1>5. /\ ring' \in [Cells -> Bytes \cup {STALE}] /\ head' \in Cells /\ overrun' \in BOOLEAN
      /\ UNCHANGED <<tail, pc, headSeen, status, pollCounter, parser, cfg, nav, fusion,
                     unset, age>>
  BY <1>2, <1>4, IsrTypes
<1>6. TypeInv'
  BY <1>1, <1>3, <1>5 DEF TypeInv
<1>7. QED
  BY <1>1, <1>5, <1>6 DEF Configured, Driver

LEMMA PowerTypes ==
  ASSUME TypeInv, Configured, Power
  PROVE  /\ TypeInv' /\ Configured' /\ UNCHANGED <<Driver, ring, head, tail, overrun, queue>>
         /\ sending' = <<>> /\ replies' = [f \in Replies |-> 0]
<1>1. /\ UNCHANGED <<Driver, ring, head, tail, overrun, queue>>
      /\ sending' = <<>> /\ replies' = [f \in Replies |-> 0]
  BY DEF Power, Driver, ringVars, readVars, driverVars, ghostVars
<1>2. TypeInv'
  BY <1>1 DEF TypeInv, Driver
<1>3. QED
  BY <1>1, <1>2 DEF Configured, Driver

-----------------------------------------------------------------------------
(* A fix is published in the call that decoded it or the next: without a   *)
(* status it stays in g_nav, but then the call that decoded it has put the *)
(* poll counter back, and the next one has a status.                       *)
LEMMA FixKeptStep ==
  ASSUME TypeInv, FixKept, Next
  PROVE  FixKept' /\ (fusion' \notin {fusion, NoFix} => age > 0)
<1>1. CASE ReadBegin
  <2>1. /\ pc = "idle" /\ pc' # "idle"
        /\ status' = (pollCounter < GNSS_NOT_PRESENT_TICKS)
        /\ age' = IF age = 0 THEN 0 ELSE age - 1
        /\ UNCHANGED <<nav, fusion>>
    BY <1>1 DEF ReadBegin, GnssM9N_timeout, driverVars
  <2>2. ASSUME nav' \notin {fusion', NoFix} \cup Absurd
        PROVE  age' = 1 /\ status'
    <3>1. age = 2 /\ pollCounter = 0
      BY <2>1, <2>2 DEF FixKept
    <3>2. status'
      BY <2>1, <3>1, Numbers
    <3>3. QED
      BY <2>1, <3>1, <3>2
  <2>3. QED
    BY <2>1, <2>2 DEF FixKept
<1>2. CASE Configure
  <2>1. /\ pc # "idle" /\ pc' # "idle"
        /\ UNCHANGED <<nav, fusion, age, status, pollCounter>>
    BY <1>2 DEF Configure
  <2>2. QED
    BY <2>1 DEF FixKept
<1>3. CASE Snapshot
  <2>1. /\ pc # "idle" /\ pc' # "idle"
        /\ UNCHANGED <<nav, fusion, age, status, pollCounter>>
    BY <1>3 DEF Snapshot, driverVars, ghostVars
  <2>2. QED
    BY <2>1 DEF FixKept
<1>4. CASE ParseByte
  <2>1. /\ pc # "idle" /\ pc' # "idle" /\ pollCounter' = 0
        /\ (UNCHANGED <<nav, age>>) \/ age' = 2
        /\ UNCHANGED <<fusion, status>>
    BY <1>4 DEF ParseByte
  <2>2. QED
    BY <2>1 DEF FixKept
<1>5. CASE WrapTail
  <2>1. /\ pc # "idle" /\ pc' # "idle"
        /\ UNCHANGED <<nav, fusion, age, status, pollCounter>>
    BY <1>5 DEF WrapTail, driverVars, ghostVars
  <2>2. QED
    BY <2>1 DEF FixKept
<1>6. CASE ReadEnd
  <2>1. /\ pc # "idle"
        /\ fusion' = IF status /\ nav # NoFix /\ nav \notin Absurd THEN nav ELSE fusion
        /\ age' = IF fusion' = fusion THEN age ELSE 0
        /\ UNCHANGED <<nav, pollCounter>>
    BY <1>6 DEF ReadEnd, Fusion_setGnss
  <2>2. CASE status /\ nav # NoFix /\ nav \notin Absurd
    BY <2>1, <2>2 DEF FixKept
  <2>3. CASE ~(status /\ nav # NoFix /\ nav \notin Absurd)
    <3>1. fusion' = fusion /\ age' = age
      BY <2>1, <2>3
    <3>2. QED
      BY <2>1, <2>3, <3>1 DEF FixKept
  <2>4. QED
    BY <2>2, <2>3
<1>7. CASE StartFix \/ StartReply \/ SendByte \/ Disturbance \/ Power
  <2>1. ASSUME NEW b, asclin4IsrReceive(b)
        PROVE  UNCHANGED <<nav, fusion, age, status, pollCounter, pc>>
    BY <2>1 DEF asclin4IsrReceive, readVars, driverVars
  <2>2. UNCHANGED <<nav, fusion, age, status, pollCounter, pc>>
    <3>1. CASE StartFix \/ StartReply \/ Power
      BY <3>1 DEF StartFix, StartReply, Power, readVars, driverVars, ghostVars
    <3>2. CASE SendByte \/ Disturbance
      BY <2>1, <3>2 DEF SendByte, Disturbance
    <3>3. QED
      BY <1>7, <3>1, <3>2
  <2>3. QED
    BY <2>2 DEF FixKept
<1>8. QED
  BY <1>1, <1>2, <1>3, <1>4, <1>5, <1>6, <1>7 DEF Next, Reader

-----------------------------------------------------------------------------
(* The ring.  A byte goes in behind the unread ones, or is counted as lost.*)
LEMMA IsrRing ==
  ASSUME TypeInv, NEW byte \in Bytes, asclin4IsrReceive(byte), ~overrun, InRing, ~overrun'
  PROVE  InRing'
<1> USE Numbers
<1>1. /\ UNCHANGED <<tail, pc, headSeen>>
      /\ ~(Full /\ RingNext(head) # tail)
      /\ queue' = IF Full THEN queue ELSE Append(queue, byte)
  BY IsrTypes DEF asclin4IsrReceive
<1>2. RingNext(head) = tail => Full
  BY WrappedIsCell DEF Full
<1>3. CASE Full
  <2>1. UNCHANGED <<ring, head>>
    BY <1>1, <1>3 DEF asclin4IsrReceive
  <2>2. QED
    BY <1>1, <1>3, <2>1 DEF InRing, Unread, CellAt, Ahead, Wrapped
<1>4. CASE ~Full
  <2> DEFINE from == Wrapped(tail)
  <2>1. /\ ring' = [ring EXCEPT ![head] = byte] /\ head' = RingNext(head)
        /\ queue' = Append(queue, byte)
        /\ RingNext(head) # from
    BY <1>1, <1>2, <1>4 DEF asclin4IsrReceive, Full
  <2>2. /\ from \in Cells /\ head \in Cells /\ RingNext(head) \in Cells /\ from' = from
    BY <1>1, WrappedIsCell DEF TypeInv, Wrapped
  <2>3. /\ Unread = Ahead(head, from) /\ Unread' = Ahead(RingNext(head), from)
        /\ \A k : CellAt(k)' = CellAt(k)
    BY <2>1, <2>2 DEF Unread, CellAt
  <2>4. /\ Unread \in Nat /\ Unread' = Unread + 1 /\ CellAt(Unread) = head
        /\ \A k \in 0 .. Unread - 1 : CellAt(k) # head /\ CellAt(k) \in Cells
    <3> HIDE DEF from
    <3>1. /\ from \in Nat /\ from < RING_BUFFER_SIZE /\ head \in Nat /\ head < RING_BUFFER_SIZE
      BY <2>2 DEF Cells
    <3>2. RingNext(head) = IF head + 1 = RING_BUFFER_SIZE THEN 0 ELSE head + 1
      BY <3>1 DEF RingNext, Wrapped
    <3>3. \A k : CellAt(k) = IF from + k < RING_BUFFER_SIZE THEN from + k
                             ELSE from + k - RING_BUFFER_SIZE
      BY DEF CellAt, from
    <3>4. QED
      BY <2>1, <2>3, <3>1, <3>2, <3>3 DEF Ahead, Cells
  <2>5. /\ ring'[head] = byte
        /\ \A k \in 0 .. Unread - 1 : ring'[CellAt(k)] = ring[CellAt(k)]
    BY <2>1, <2>2, <2>4 DEF TypeInv
  <2>6. queue' \in Seq(Bytes) /\ Len(queue') = Unread'
    BY <2>1, <2>4, AppendProperties DEF InRing
  <2>7. \A i \in 1 .. Unread' : queue'[i] = ring'[CellAt(i - 1)']
    <3>1. /\ Len(queue) = Unread /\ queue \in Seq(Bytes)
          /\ \A i \in 1 .. Unread : queue[i] = ring[CellAt(i - 1)]
      BY DEF InRing
    <3>2. /\ \A i \in 1 .. Unread : queue'[i] = queue[i]
          /\ queue'[Unread + 1] = byte
      BY <2>1, <3>1, AppendProperties
    <3>3. SUFFICES ASSUME NEW i \in 1 .. Unread + 1 PROVE queue'[i] = ring'[CellAt(i - 1)]
      BY <2>3, <2>4
    <3>4. CASE i \in 1 .. Unread
      BY <2>4, <2>5, <3>1, <3>2, <3>4
    <3>5. CASE i = Unread + 1
      <4>1. CellAt(i - 1) = head
        BY <2>4, <3>5
      <4>2. QED
        BY <2>5, <3>2, <3>5, <4>1
    <3>6. QED
      BY <2>4, <3>4, <3>5
  <2>8. (pc \in {"loop", "wrap"} => Ahead(headSeen, from) <= Unread)'
    <3>1. Ahead(headSeen, from) \in Nat
      <4>1. headSeen \in Cells
        BY DEF TypeInv
      <4>2. Ahead(headSeen, from) \in Cells
        BY <2>2, <4>1, AheadIsMod
      <4>3. QED
        BY <4>2 DEF Cells
    <3>2. Ahead(headSeen, from)' = Ahead(headSeen, from)
      BY <1>1, <2>2 DEF Ahead
    <3>3. QED
      BY <1>1, <2>4, <3>1, <3>2 DEF InRing
  <2>9. QED
    BY <2>6, <2>7, <2>8 DEF InRing
<1>5. QED
  BY <1>3, <1>4

\* The byte parsed is the oldest, and it has not been parsed before.
LEMMA OldestFirst ==
  ASSUME TypeInv, InRing, pc = "loop", tail # headSeen
  PROVE  /\ tail \in Cells /\ Wrapped(tail) = tail /\ Unread \in Nat /\ Unread > 0
         /\ CellAt(0) = tail /\ ring[tail] \in Bytes /\ Held(tail) = {ring[tail]}
<1> USE Numbers
<1>1. tail \in Cells /\ Wrapped(tail) = tail /\ headSeen \in Cells
  BY WrappedIsCell DEF TypeInv
<1>2. Ahead(headSeen, tail) > 0
  BY <1>1 DEF Cells, Ahead
<1>3. Unread \in Nat /\ Unread > 0
  <2>1. Ahead(headSeen, tail) \in Nat /\ Unread \in Nat
    <3>1. Ahead(headSeen, tail) \in Cells /\ Unread \in Cells
      BY <1>1, AheadIsMod, ContentsAre
    <3>2. QED
      BY <3>1 DEF Cells
  <2>2. Ahead(headSeen, tail) <= Unread
    BY <1>1 DEF InRing
  <2>3. QED
    BY <1>2, <2>1, <2>2
<1>4. CellAt(0) = tail
  BY <1>1 DEF CellAt, Cells
<1>5. ring[tail] \in Bytes
  <2>1. queue[1] = ring[CellAt(1 - 1)] /\ 1 \in 1 .. Len(queue) /\ queue \in Seq(Bytes)
    BY <1>3 DEF InRing
  <2>2. queue[1] \in Bytes
    BY <2>1, ElementOfSeq
  <2>3. QED
    BY <1>4, <2>1, <2>2
<1>6. Held(tail) = {ring[tail]}
  BY <1>5, BytesKnown DEF Held
<1>7. QED
  BY <1>1, <1>3, <1>4, <1>5, <1>6

(* It is taken out, whether or not the tail stands past the end after it.  *)
LEMMA ParseRing == ASSUME TypeInv, ParseByte, InRing PROVE InRing'
<1> USE Numbers
<1>1. /\ pc = "loop" /\ tail # headSeen /\ ring' = [ring EXCEPT ![tail] = STALE]
      /\ tail' = tail + 1 /\ queue' = IF queue = <<>> THEN queue ELSE Tail(queue)
      /\ UNCHANGED <<head, headSeen>>
  BY DEF ParseByte
<1>2. /\ tail \in Cells /\ Wrapped(tail) = tail /\ Unread \in Nat /\ Unread > 0
      /\ CellAt(0) = tail /\ head \in Cells /\ headSeen \in Cells
  BY <1>1, OldestFirst DEF TypeInv
<1>3. /\ tail \in Nat /\ tail < RING_BUFFER_SIZE /\ head \in Nat /\ head < RING_BUFFER_SIZE
      /\ headSeen \in Nat /\ headSeen < RING_BUFFER_SIZE
  BY <1>2 DEF Cells
<1>4. Wrapped(tail)' = IF tail + 1 = RING_BUFFER_SIZE THEN 0 ELSE tail + 1
  BY <1>1, <1>3 DEF Wrapped
<1>5. /\ Unread = IF head >= tail THEN head - tail ELSE head - tail + RING_BUFFER_SIZE
      /\ Unread' = IF head >= Wrapped(tail)' THEN head - Wrapped(tail)'
                   ELSE head - Wrapped(tail)' + RING_BUFFER_SIZE
  BY <1>1, <1>2 DEF Unread, Ahead
<1>6. Unread' = Unread - 1 /\ Unread < RING_BUFFER_SIZE
  BY <1>2, <1>3, <1>4, <1>5
<1>7. \A k \in 0 .. Unread - 2 : CellAt(k)' = CellAt(k + 1) /\ CellAt(k + 1) # tail
                                   /\ CellAt(k + 1) \in Cells
  <2>1. SUFFICES ASSUME NEW k \in 0 .. Unread - 2
                 PROVE  /\ CellAt(k)' = CellAt(k + 1) /\ CellAt(k + 1) # tail
                        /\ CellAt(k + 1) \in Cells
    OBVIOUS
  <2>2. k \in Nat /\ k + 1 < RING_BUFFER_SIZE
    BY <1>2, <1>6
  <2>3. CellAt(k + 1) = IF tail + (k + 1) < RING_BUFFER_SIZE THEN tail + (k + 1)
                        ELSE tail + (k + 1) - RING_BUFFER_SIZE
    BY <1>2 DEF CellAt
  <2>4. CellAt(k)' = IF Wrapped(tail)' + k < RING_BUFFER_SIZE THEN Wrapped(tail)' + k
                     ELSE Wrapped(tail)' + k - RING_BUFFER_SIZE
    BY DEF CellAt
  <2>5. QED
    BY <1>3, <1>4, <2>2, <2>3, <2>4 DEF Cells
<1>8. /\ queue \in Seq(Bytes) /\ Len(queue) = Unread /\ queue # <<>>
      /\ \A i \in 1 .. Unread : queue[i] = ring[CellAt(i - 1)]
  BY <1>2, EmptySeq DEF InRing
<1>9. queue' = Tail(queue)
  BY <1>1, <1>8
<1>10. queue' \in Seq(Bytes) /\ Len(queue') = Unread'
  BY <1>6, <1>8, <1>9, HeadTailProperties
<1>11. \A i \in 1 .. Unread' : queue'[i] = ring'[CellAt(i - 1)']
  <2>1. SUFFICES ASSUME NEW i \in 1 .. Unread' PROVE queue'[i] = ring'[CellAt(i - 1)']
    OBVIOUS
  <2>2. queue'[i] = queue[i + 1]
    BY <1>8, <1>9, <1>10, HeadTailProperties
  <2>3. i \in Nat /\ i >= 1 /\ i + 1 \in 1 .. Unread /\ i - 1 \in 0 .. Unread - 2
    BY <1>2, <1>6
  <2>4. queue[i + 1] = ring[CellAt(i)]
    <3>1. (i + 1) - 1 = i
      BY <2>3
    <3>2. QED
      BY <1>8, <2>3, <3>1
  <2>5. CellAt(i - 1)' = CellAt(i) /\ CellAt(i) # tail /\ CellAt(i) \in Cells
    <3>1. (i - 1) + 1 = i
      BY <2>3
    <3>2. QED
      BY <1>7, <2>3, <3>1
  <2>6. ring'[CellAt(i)] = ring[CellAt(i)]
    BY <1>1, <2>5 DEF TypeInv
  <2>7. QED
    BY <2>2, <2>4, <2>5, <2>6
<1>12. (Ahead(headSeen, Wrapped(tail)) <= Unread)'
  <2>1. Ahead(headSeen, tail) <= Unread
    BY <1>1, <1>2 DEF InRing
  <2>2. Ahead(headSeen, Wrapped(tail))' = Ahead(headSeen, Wrapped(tail)')
    BY <1>1 DEF Ahead
  <2>3. Ahead(headSeen, Wrapped(tail)') <= Unread - 1
    BY <1>1, <1>2, <1>3, <1>4, <2>1 DEF Ahead
  <2>4. QED
    BY <1>6, <2>2, <2>3
<1>13. QED
  BY <1>10, <1>11, <1>12 DEF InRing

(* The other steps leave the ring as it is.                                *)
LEMMA SameRing ==
  ASSUME InRing, UNCHANGED <<ring, head, queue>>, Wrapped(tail)' = Wrapped(tail),
         pc' \in {"loop", "wrap"} => pc \in {"loop", "wrap"} /\ headSeen' = headSeen
  PROVE  InRing'
<1>1. Unread' = Unread /\ \A k : CellAt(k)' = CellAt(k)
  BY DEF Unread, CellAt, Ahead
<1>2. queue' \in Seq(Bytes) /\ Len(queue') = Unread'
  BY <1>1 DEF InRing
<1>3. \A i \in 1 .. Unread' : queue'[i] = ring'[CellAt(i - 1)']
  BY <1>1 DEF InRing
<1>4. (pc \in {"loop", "wrap"} => Ahead(headSeen, Wrapped(tail)) <= Unread)'
  BY <1>1 DEF InRing, Ahead
<1>5. QED
  BY <1>2, <1>3, <1>4 DEF InRing

\* The snapshot of the head takes in all that is unread.
LEMMA SnapshotRing == ASSUME TypeInv, Snapshot, InRing PROVE InRing'
<1>1. UNCHANGED <<ring, head, tail, queue>> /\ headSeen' = head
  BY DEF Snapshot, ringVars, ghostVars
<1>2. Unread' = Unread /\ \A k : CellAt(k)' = CellAt(k)
  BY <1>1 DEF Unread, CellAt, Ahead, Wrapped
<1>3. queue' \in Seq(Bytes) /\ Len(queue') = Unread'
  BY <1>1, <1>2 DEF InRing
<1>4. \A i \in 1 .. Unread' : queue'[i] = ring'[CellAt(i - 1)']
  BY <1>1, <1>2 DEF InRing
<1>5. Ahead(headSeen, Wrapped(tail))' = Unread'
  BY <1>1 DEF Unread, Ahead
<1>6. Unread' \in Nat
  BY <1>2, ContentsAre, Numbers DEF Cells
<1>7. QED
  BY <1>3, <1>4, <1>5, <1>6 DEF InRing

\* Putting the tail back moves it nowhere: the interrupt has read it as 0 before.
LEMMA WrapRing == ASSUME TypeInv, WrapTail, InRing PROVE InRing'
<1>1. /\ pc = "wrap" /\ tail' = Wrapped(tail) /\ UNCHANGED <<ring, head, queue, headSeen>>
  BY DEF WrapTail, ghostVars
<1>2. Wrapped(tail)' = Wrapped(tail)
  BY <1>1, Numbers DEF Wrapped
<1>3. QED
  BY <1>1, <1>2, SameRing

-----------------------------------------------------------------------------
(* The acknowledgements: owed, under way, in the ring, counted.            *)
AckCells == {c \in Cells : ring[c] = ACK2}

LEMMA SomeCells ==
  ASSUME NEW S \in SUBSET Cells
  PROVE  IsFiniteSet(S) /\ Cardinality(S) \in Nat
<1>1. IsFiniteSet(Cells)
  BY Numbers, FS_Interval DEF Cells
<1>2. QED
  BY <1>1, FS_Subset, FS_CardinalityType

LEMMA AckTypes ==
  ASSUME TypeInv
  PROVE  /\ IsFiniteSet(AckCells) /\ AcksInRing = Cardinality(AckCells) /\ AcksInRing \in Nat
         /\ AckSending \in {0, 1} /\ NotAccepted \in {0, 1}
         /\ replies["ack"] \in Nat /\ cfg.acks \in Nat /\ cfg.expected \in Nat
         /\ cfg.expected <= SETTINGS
<1>1. AckCells \in SUBSET Cells /\ AcksInRing = Cardinality(AckCells)
  BY DEF AckCells, AcksInRing
<1>2. IsFiniteSet(AckCells) /\ AcksInRing \in Nat
  BY <1>1, SomeCells
<1>3. AckSending \in {0, 1} /\ NotAccepted \in {0, 1}
  BY DEF AckSending, NotAccepted
<1>4. replies["ack"] \in Nat /\ cfg.acks \in Nat /\ cfg.expected \in 0 .. SETTINGS
  BY Numbers DEF TypeInv, CfgType, Replies
<1>5. QED
  BY <1>1, <1>2, <1>3, <1>4, Numbers

\* The interrupt puts at most this byte in.
LEMMA ByteIn ==
  ASSUME TypeInv, NEW byte \in Bytes, asclin4IsrReceive(byte)
  PROVE  AcksInRing' <= AcksInRing + AckIn(byte)
<1>1. /\ IsFiniteSet(AckCells) /\ AcksInRing = Cardinality(AckCells) /\ AcksInRing \in Nat
      /\ AcksInRing' = Cardinality(AckCells') /\ AcksInRing' \in Nat
  <2>1. IsFiniteSet(AckCells) /\ AcksInRing = Cardinality(AckCells) /\ AcksInRing \in Nat
    BY AckTypes
  <2>2. AcksInRing' = Cardinality(AckCells') /\ AcksInRing' \in Nat
    <3>1. AckCells' \in SUBSET Cells /\ AcksInRing' = Cardinality(AckCells')
      BY DEF AckCells, AcksInRing
    <3>2. QED
      BY <3>1, SomeCells
  <2>3. QED
    BY <2>1, <2>2
<1>2. \/ UNCHANGED ring
      \/ ring' = [ring EXCEPT ![head] = byte]
  BY DEF asclin4IsrReceive
<1>3. CASE UNCHANGED ring
  <2>1. AckCells' = AckCells
    BY <1>3 DEF AckCells
  <2>2. QED
    BY <1>1, <2>1 DEF AckIn
<1>4. CASE ring' = [ring EXCEPT ![head] = byte] /\ byte = ACK2
  <2>1. AckCells' \in SUBSET (AckCells \cup {head})
    BY <1>4 DEF AckCells, TypeInv
  <2>2. /\ IsFiniteSet(AckCells \cup {head})
        /\ Cardinality(AckCells \cup {head}) =
             IF head \in AckCells THEN AcksInRing ELSE AcksInRing + 1
    BY <1>1, FS_AddElement
  <2>3. Cardinality(AckCells') <= Cardinality(AckCells \cup {head})
    BY <2>1, <2>2, FS_Subset
  <2>4. QED
    BY <1>1, <1>4, <2>2, <2>3 DEF AckIn
<1>5. CASE ring' = [ring EXCEPT ![head] = byte] /\ byte # ACK2
  <2>1. AckCells' \in SUBSET AckCells
    BY <1>5 DEF AckCells, TypeInv
  <2>2. Cardinality(AckCells') <= Cardinality(AckCells)
    BY <1>1, <2>1, FS_Subset
  <2>3. QED
    BY <1>1, <1>5, <2>2 DEF AckIn
<1>6. QED
  BY <1>2, <1>3, <1>4, <1>5

\* The byte that leaves the line is the acknowledgement, or the rest still has it.
LEMMA ByteOut ==
  ASSUME TypeInv, sending # <<>>, sending' = Tail(sending)
  PROVE  AckSending' + AckIn(Head(sending)) <= AckSending
<1>1. PICK f \in Frames : sending \in Rests(f)
  BY DEF TypeInv
<1>2. AckSending = IF B(f, 2) = ACK2 THEN 1 ELSE 0
  BY <1>1, RestGoesOn DEF AckSending
<1>3. CASE Tail(sending) = <<>>
  <2>1. Head(sending) = B(f, 2) /\ AckSending' = 0
    BY <1>1, <1>3, RestGoesOn DEF AckSending
  <2>2. QED
    BY <1>2, <2>1 DEF AckIn
<1>4. CASE Tail(sending) # <<>>
  <2>1. Tail(sending) \in Rests(f) /\ Head(sending) # ACK2
    BY <1>1, <1>4, RestGoesOn
  <2>2. Tail(sending)[Len(Tail(sending))] = B(f, 2)
    BY <2>1, RestGoesOn
  <2>3. AckSending' = IF B(f, 2) = ACK2 THEN 1 ELSE 0
    BY <1>4, <2>2 DEF AckSending
  <2>4. QED
    BY <1>2, <2>1, <2>3 DEF AckIn
<1>5. QED
  BY <1>3, <1>4

\* A byte parsed is out of the ring; if it completes an acknowledgement it was its last.
LEMMA AckParsed ==
  ASSUME TypeInv, InRing, ParseByte
  PROVE  \/ cfg' = cfg /\ AcksInRing' <= AcksInRing
         \/ /\ cfg' = [cfg EXCEPT !.acks = (@ + 1) % ACK_MOD]
            /\ AcksInRing > 0 /\ AcksInRing' = AcksInRing - 1
<1>1. PICK b \in Held(tail) :
        cfg' = IF \E f \in Decoded(parser, b) : IsAck(f)
               THEN [cfg EXCEPT !.acks = (@ + 1) % ACK_MOD] ELSE cfg
  BY DEF ParseByte
<1>2. tail \in Cells /\ b = ring[tail] /\ b \in Bytes
  BY <1>1, OldestFirst DEF ParseByte
<1>3. AckCells' = AckCells \ {tail}
  <2>1. ring' = [ring EXCEPT ![tail] = STALE]
    BY DEF ParseByte
  <2>2. QED
    BY <1>2, <2>1, OneAck DEF AckCells, TypeInv
<1>4. IsFiniteSet(AckCells) /\ AcksInRing = Cardinality(AckCells) /\ AcksInRing \in Nat
  BY AckTypes
<1>5. AcksInRing' = IF tail \in AckCells THEN AcksInRing - 1 ELSE AcksInRing
  <2>1. Cardinality(AckCells \ {tail}) =
          IF tail \in AckCells THEN Cardinality(AckCells) - 1 ELSE Cardinality(AckCells)
    BY <1>4, FS_RemoveElement
  <2>2. AcksInRing' = Cardinality(AckCells')
    BY DEF AcksInRing, AckCells
  <2>3. QED
    BY <1>3, <1>4, <2>1, <2>2
<1>6. CASE \E f \in Decoded(parser, b) : IsAck(f)
  <2>1. Append(parser.buffer, b) = <<B("ack", 1), ACK2>>
    BY <1>6 DEF Decoded, IsAck, Collected, Body, ACK2
  <2>2. b = ACK2
    <3> DEFINE a == Append(parser.buffer, b)
               first == B("ack", 1)
    <3>1. /\ parser.buffer \in Seq(Bytes)
          /\ Len(a) = Len(parser.buffer) + 1 /\ a[Len(parser.buffer) + 1] = b
      BY <1>2, AppendProperties DEF TypeInv
    <3> HIDE DEF a, first
    <3>2. a = <<first, ACK2>>
      BY <2>1 DEF a, first
    <3>3. Len(a) = 2 /\ a[2] = ACK2
      BY <3>2
    <3>4. QED
      BY <3>1, <3>3
  <2>3. tail \in AckCells
    BY <1>2, <2>2 DEF AckCells
  <2>4. AckCells # {} /\ AcksInRing # 0
    BY <1>4, <2>3, FS_EmptySet
  <2>5. QED
    BY <1>1, <1>4, <1>5, <1>6, <2>3, <2>4
<1>7. CASE ~\E f \in Decoded(parser, b) : IsAck(f)
  BY <1>1, <1>4, <1>5, <1>7
<1>8. QED
  BY <1>6, <1>7

LEMMA ParsePromises ==
  ASSUME TypeInv, ParseByte, Promises
  PROVE  Promises'
<1>1. InRing'
  BY ParseRing DEF Promises
<1>2. /\ AcksInRing \in Nat /\ AckSending \in {0, 1} /\ NotAccepted \in {0, 1}
      /\ replies["ack"] \in Nat /\ cfg.acks \in Nat /\ cfg.expected \in Nat
      /\ cfg.expected <= SETTINGS
  BY AckTypes
<1>3. UNCHANGED <<sending, replies, unset>> /\ cfg'.discards = cfg.discards
  <2>1. UNCHANGED <<sending, replies, unset>>
    BY DEF ParseByte, receiverVars
  <2>2. cfg'.discards = cfg.discards
    BY AckParsed DEF Promises, TypeInv, CfgType
  <2>3. QED
    BY <2>1, <2>2
<1>4. AckSending' = AckSending /\ NotAccepted' = NotAccepted
  BY <1>3 DEF AckSending, NotAccepted
<1>5. cfg.acks + AcksInRing + AckSending + replies["ack"] + NotAccepted <= cfg.expected
  BY DEF Promises, AcksCounted
<1>6. AcksInRing' \in Nat
  <2>1. AckCells' \in SUBSET Cells /\ AcksInRing' = Cardinality(AckCells')
    BY DEF AckCells, AcksInRing
  <2>2. QED
    BY <2>1, SomeCells
<1>7. CASE cfg' = cfg /\ AcksInRing' <= AcksInRing
  BY <1>1, <1>2, <1>3, <1>4, <1>5, <1>6, <1>7 DEF Promises, AcksCounted
<1>8. CASE /\ cfg' = [cfg EXCEPT !.acks = (@ + 1) % ACK_MOD]
           /\ AcksInRing > 0 /\ AcksInRing' = AcksInRing - 1
  <2>1. cfg.acks + 1 \in 0 .. ACK_MOD - 1
    BY <1>2, <1>5, <1>8, Numbers
  <2>2. (cfg.acks + 1) % ACK_MOD = cfg.acks + 1
    BY <2>1, Numbers, GnssAssumption
  <2>3. cfg'.acks = cfg.acks + 1 /\ cfg'.expected = cfg.expected /\ cfg'.ok = cfg.ok
    BY <1>8, <2>2 DEF TypeInv, CfgType
  <2>4. AcksCounted'
    BY <1>2, <1>3, <1>4, <1>5, <1>8, <2>3 DEF AcksCounted
  <2>5. QED
    BY <1>1, <1>3, <2>3, <2>4 DEF Promises
<1>9. QED
  BY <1>7, <1>8, AckParsed DEF Promises

(* A byte from the line.  What it adds to the ring it takes from the rest. *)
LEMMA IsrPromises ==
  ASSUME TypeInv, NEW byte \in Bytes, asclin4IsrReceive(byte), ~overrun => Promises,
         UNCHANGED replies,
         AckSending' + AckIn(byte) <= AckSending,
         ~overrun'
  PROVE  Promises'
<1>1. ~overrun /\ UNCHANGED <<cfg, unset>>
  BY IsrTypes DEF asclin4IsrReceive
<1>2. InRing'
  BY <1>1, IsrRing DEF Promises
<1>3. /\ AcksInRing \in Nat /\ AckSending \in {0, 1} /\ NotAccepted \in {0, 1}
      /\ replies["ack"] \in Nat /\ cfg.acks \in Nat /\ cfg.expected \in Nat
  BY AckTypes
<1>4. AcksInRing' \in Nat /\ AckSending' \in Nat
  <2>1. AckCells' \in SUBSET Cells /\ AcksInRing' = Cardinality(AckCells')
    BY DEF AckCells, AcksInRing
  <2>2. QED
    BY <2>1, SomeCells DEF AckSending
<1>5. AcksInRing' <= AcksInRing + AckIn(byte)
  BY ByteIn
<1>6. NotAccepted' = NotAccepted
  BY <1>1 DEF NotAccepted
<1>7. AcksCounted'
  <2>1. AckIn(byte) \in {0, 1}
    BY DEF AckIn
  <2>2. cfg.acks + AcksInRing + AckSending + replies["ack"] + NotAccepted <= cfg.expected
    BY <1>1 DEF Promises, AcksCounted
  <2>3. cfg.acks + AcksInRing' + AckSending' + replies["ack"] + NotAccepted <= cfg.expected
    BY <1>3, <1>4, <1>5, <2>1, <2>2
  <2>4. QED
    BY <1>1, <1>6, <2>3 DEF AcksCounted
<1>8. QED
  BY <1>1, <1>2, <1>7 DEF Promises

\* A byte made up is none of an acknowledgement; a byte spoilt takes none away.
LEMMA NoiseIn ==
  ASSUME TypeInv, NEW byte \in Noise,
         sending' = sending \/ (sending # <<>> /\ sending' = Tail(sending))
  PROVE  AckSending' + AckIn(byte) <= AckSending
<1>1. AckIn(byte) = 0
  BY OneAck DEF AckIn
<1>2. AckSending' \in {0, 1} /\ AckSending \in {0, 1}
  BY DEF AckSending
<1>3. AckSending' <= AckSending
  <2>1. CASE sending' = sending
    BY <1>2, <2>1 DEF AckSending
  <2>2. CASE sending # <<>> /\ sending' = Tail(sending)
    <3>1. AckSending' + AckIn(Head(sending)) <= AckSending
      BY <2>2, ByteOut
    <3>2. AckIn(Head(sending)) \in {0, 1}
      BY DEF AckIn
    <3>3. QED
      BY <1>2, <3>1, <3>2
  <2>3. QED
    BY <2>1, <2>2
<1>4. \A x, y \in {0, 1} : x <= y => x + 0 <= y
  OBVIOUS
<1>5. QED
  BY <1>1, <1>2, <1>3, <1>4

LEMMA SendPromises ==
  ASSUME TypeInv, Configured, ~overrun => Promises, SendByte \/ Disturbance, ~overrun'
  PROVE  Promises'
<1>1. CASE SendByte
  <2>1. /\ sending # <<>> /\ sending' = Tail(sending) /\ replies' = replies
        /\ asclin4IsrReceive(Head(sending))
    BY <1>1 DEF SendByte
  <2>2. Head(sending) \in Bytes
    BY <2>1, RestSent
  <2>3. QED
    BY <2>1, <2>2, ByteOut, IsrPromises
<1>2. CASE Disturbance
  <2>1. PICK b \in Noise : asclin4IsrReceive(b)
    BY <1>2 DEF Disturbance
  <2>2. b \in Bytes
    BY DEF Bytes
  <2>3. /\ sending' = sending \/ (sending # <<>> /\ sending' = Tail(sending))
        /\ UNCHANGED replies
    BY <1>2 DEF Disturbance
  <2>4. AckSending' + AckIn(b) <= AckSending
    BY <2>3, NoiseIn
  <2>5. QED
    BY <2>1, <2>2, <2>3, <2>4, IsrPromises
<1>3. QED
  BY <1>1, <1>2

(* With the ring and the counters as they are, less owed keeps the count.  *)
LEMMA OwedPromises ==
  ASSUME TypeInv, TypeInv', Promises, UNCHANGED <<ring, cfg, unset>>, InRing',
         AckSending' + replies'["ack"] <= AckSending + replies["ack"]
  PROVE  Promises'
<1>1. /\ AcksInRing \in Nat /\ AckSending \in {0, 1} /\ NotAccepted \in {0, 1}
      /\ replies["ack"] \in Nat /\ cfg.acks \in Nat /\ cfg.expected \in Nat
  BY AckTypes
<1>2. AckSending' \in Nat /\ replies'["ack"] \in Nat
  BY DEF AckSending, TypeInv, Replies
<1>3. AcksInRing' = AcksInRing /\ NotAccepted' = NotAccepted
  BY DEF AcksInRing, NotAccepted
<1>4. AcksCounted'
  BY <1>1, <1>2, <1>3 DEF Promises, AcksCounted
<1>5. QED
  BY <1>4 DEF Promises

\* A frame begun was owed; a fix is no acknowledgement.
LEMMA StartPromises ==
  ASSUME TypeInv, Configured, StartFix \/ StartReply, Promises
  PROVE  Promises'
<1>1. /\ TypeInv' /\ UNCHANGED <<Driver, ring, head, tail, overrun, queue>> /\ sending = <<>>
  BY StartTypes
<1>2. InRing'
  BY <1>1, SameRing DEF Promises, Driver, Wrapped
<1>3. UNCHANGED <<ring, cfg, unset>>
  BY <1>1 DEF Driver
<1>4. AckSending = 0 /\ replies["ack"] \in Nat
  BY <1>1, AckTypes DEF AckSending
<1>5. ASSUME NEW f \in Frames, sending' = Wire(f)
      PROVE  AckSending' = IF f = "ack" THEN 1 ELSE 0
  <2>1. sending' \in Rests(f)
    BY <1>5 DEF Rests
  <2>2. sending' # <<>> /\ sending'[Len(sending')] = B(f, 2)
    BY <2>1, RestGoesOn
  <2>3. QED
    BY <2>2, OneAck DEF AckSending
<1>6. AckSending' + replies'["ack"] <= AckSending + replies["ack"]
  <2>1. CASE StartFix
    <3>1. PICK f \in Fixes : sending' = Wire(f)
      BY <2>1 DEF StartFix
    <3>2. f \in Frames /\ f # "ack" /\ replies' = replies
      BY <2>1, GnssAssumption DEF Frames, StartFix
    <3>3. QED
      BY <1>4, <1>5, <3>1, <3>2
  <2>2. CASE StartReply
    <3>1. PICK f \in Replies : /\ replies[f] > 0 /\ sending' = Wire(f)
                               /\ replies' = [replies EXCEPT ![f] = @ - 1]
      BY <2>2 DEF StartReply
    <3>2. f \in Frames /\ "ack" \in Replies
      BY DEF Frames, Replies
    <3>3. replies'["ack"] = IF f = "ack" THEN replies["ack"] - 1 ELSE replies["ack"]
      BY <3>1, <3>2 DEF TypeInv
    <3>4. QED
      BY <1>4, <1>5, <3>1, <3>2, <3>3
  <2>3. QED
    BY <2>1, <2>2
<1>7. QED
  BY <1>1, <1>2, <1>3, <1>6, OwedPromises

LEMMA PowerPromises == ASSUME TypeInv, Configured, Power, Promises PROVE Promises'
<1>1. /\ TypeInv' /\ UNCHANGED <<Driver, ring, head, tail, overrun, queue>>
      /\ sending' = <<>> /\ replies' = [f \in Replies |-> 0]
  BY PowerTypes
<1>2. InRing'
  BY <1>1, SameRing DEF Promises, Driver, Wrapped
<1>3. UNCHANGED <<ring, cfg, unset>>
  BY <1>1 DEF Driver
<1>4. AckSending' = 0 /\ replies'["ack"] = 0
  BY <1>1 DEF AckSending, Replies
<1>5. AckSending \in {0, 1} /\ replies["ack"] \in Nat
  BY AckTypes
<1>6. QED
  BY <1>1, <1>2, <1>3, <1>4, <1>5, OwedPromises

\* Before the burst nothing is owed, sent or counted.
LEMMA ConfigurePromises ==
  ASSUME TypeInv, Configured, Configure, Promises
  PROVE  Promises'
<1>1. /\ TypeInv' /\ Configured'
      /\ cfg'.sent /\ cfg'.acks = cfg.acks /\ cfg'.ok = cfg.ok
      /\ replies'["ack"] + NotAccepted' <= cfg'.expected
  BY ConfigureTypes
<1>2. /\ pc = "configure" /\ pc' = "snapshot" /\ UNCHANGED <<ring, head, tail, queue, sending>>
  BY DEF Configure, ringVars
<1>3. InRing'
  BY <1>2, SameRing DEF Promises, Wrapped
<1>4. ~cfg.sent /\ ~cfg.ok /\ cfg.expected = 0
  BY <1>2 DEF Configured
<1>5. /\ AcksInRing \in Nat /\ AckSending \in {0, 1} /\ NotAccepted \in {0, 1}
      /\ replies["ack"] \in Nat /\ cfg.acks \in Nat
  BY AckTypes
<1>6. AcksInRing = 0 /\ AckSending = 0 /\ cfg.acks = 0
  BY <1>4, <1>5 DEF Promises, AcksCounted
<1>7. AcksInRing' = AcksInRing /\ AckSending' = AckSending
  BY <1>2 DEF AcksInRing, AckSending
<1>8. /\ replies'["ack"] \in Nat /\ NotAccepted' \in {0, 1} /\ cfg'.expected \in Nat
  BY <1>1, Numbers DEF TypeInv, CfgType, Replies, NotAccepted
<1>9. AcksCounted'
  BY <1>1, <1>6, <1>7, <1>8 DEF AcksCounted
<1>10. QED
  BY <1>1, <1>3, <1>4, <1>9 DEF Promises

\* The end of the call: the verdict is the count.
LEMMA ReadEndPromises == ASSUME TypeInv, Configured, ReadEnd, Promises PROVE Promises'
<1>1. /\ cfg' = [cfg EXCEPT !.ok = cfg.sent /\ cfg.acks >= cfg.expected]
      /\ pc' = "idle" /\ UNCHANGED <<ring, head, tail, queue, sending, replies, unset>>
  BY DEF ReadEnd, ringVars, receiverVars
<1>2. /\ cfg'.acks = cfg.acks /\ cfg'.expected = cfg.expected
      /\ cfg'.discards = cfg.discards
      /\ cfg'.ok => cfg.acks >= cfg.expected
  <2> DEFINE enough == cfg.sent /\ cfg.acks >= cfg.expected
  <2>1. cfg' = [cfg EXCEPT !.ok = enough]
    BY <1>1
  <2> HIDE DEF enough
  <2>2. /\ cfg'.acks = cfg.acks /\ cfg'.expected = cfg.expected
        /\ cfg'.discards = cfg.discards /\ cfg'.ok = enough
    BY <2>1 DEF TypeInv, CfgType
  <2>3. QED
    BY <2>2 DEF enough
<1>3. InRing'
  BY <1>1, SameRing DEF Promises, Wrapped
<1>4. /\ AcksInRing' = AcksInRing /\ AckSending' = AckSending /\ NotAccepted' = NotAccepted
  BY <1>1, <1>2 DEF AcksInRing, AckSending, NotAccepted
<1>5. AcksCounted'
  BY <1>1, <1>2, <1>4 DEF Promises, AcksCounted
<1>6. cfg'.ok => NotAccepted = 0
  BY <1>2, AckTypes DEF Promises, AcksCounted
<1>7. cfg'.ok /\ ~cfg'.discards => ~unset'
  BY <1>1, <1>2, <1>6 DEF NotAccepted
<1>8. QED
  BY <1>3, <1>5, <1>7 DEF Promises

\* The reader's other steps.
LEMMA ReaderPromises ==
  ASSUME TypeInv, TypeInv', ReadBegin \/ Snapshot \/ WrapTail, Promises
  PROVE  Promises'
<1>1. UNCHANGED <<ring, cfg, unset, sending, replies>>
  BY DEF ReadBegin, Snapshot, WrapTail, ringVars, driverVars, receiverVars, ghostVars
<1>2. AckSending' = AckSending
  BY <1>1 DEF AckSending
<1>3. InRing'
  <2>1. CASE ReadBegin
    <3>1. UNCHANGED <<ring, head, tail, queue>> /\ pc' \notin {"loop", "wrap"}
      BY <2>1 DEF ReadBegin, ringVars
    <3>2. QED
      BY <3>1, SameRing DEF Promises, Wrapped
  <2>2. QED
    BY <2>1, SnapshotRing, WrapRing DEF Promises
<1>4. AckSending' + replies'["ack"] <= AckSending + replies["ack"]
  BY <1>1, <1>2, AckTypes
<1>5. QED
  BY <1>1, <1>3, <1>4, OwedPromises

-----------------------------------------------------------------------------
(* IInv is inductive.                                                      *)
LEMMA InitInv == Init => IInv
<1> SUFFICES ASSUME Init PROVE IInv
  OBVIOUS
<1>1. TypeInv /\ FixKept /\ Configured
  BY InitTypes
<1>2. /\ ring = [i \in Cells |-> STALE] /\ head = 0 /\ tail = 0 /\ pc = "idle"
      /\ sending = <<>> /\ replies = [f \in Replies |-> 0] /\ queue = <<>>
  BY DEF Init, Cells
<1>3. cfg = [sent |-> FALSE, expected |-> 0, discards |-> FALSE, acks |-> 0, ok |-> FALSE] /\ ~unset
  BY Zenon DEF Init
<1>4. InRing
  <2>1. Unread = 0
    BY <1>2, Numbers DEF Unread, Ahead, Wrapped
  <2>2. queue \in Seq(Bytes) /\ Len(queue) = 0
    BY <1>2, EmptySeq
  <2>3. QED
    BY <1>2, <2>1, <2>2 DEF InRing
<1>5. AcksCounted
  <2>1. AckCells = {} /\ AcksInRing = Cardinality(AckCells)
    BY <1>2, OneAck DEF AckCells, AcksInRing
  <2>2. AcksInRing = 0
    BY <2>1, FS_EmptySet
  <2>3. AckSending = 0 /\ NotAccepted = 0 /\ replies["ack"] = 0
    BY <1>2, <1>3 DEF AckSending, NotAccepted, Replies
  <2>4. cfg.acks = 0 /\ cfg.expected = 0
    BY <1>3
  <2>5. QED
    BY <2>2, <2>3, <2>4 DEF AcksCounted
<1>6. ~cfg.ok
  BY <1>3
<1>7. QED
  BY <1>1, <1>4, <1>5, <1>6 DEF IInv, Promises

LEMMA TypesStep == ASSUME TypeInv, Configured, Next PROVE TypeInv' /\ Configured'
BY ReadBeginTypes, ConfigureTypes, SnapshotTypes, ParseTypes, WrapTypes, ReadEndTypes,
   StartTypes, SendTypes, DisturbanceTypes, PowerTypes DEF Next, Reader

\* An overrun is not forgotten; only the interrupt can bring one.
LEMMA OverrunStays ==
  ASSUME Next, ~overrun'
  PROVE  ~overrun
<1>1. CASE SendByte \/ Disturbance
  <2>1. \E b : asclin4IsrReceive(b)
    BY <1>1 DEF SendByte, Disturbance
  <2>2. QED
    BY <2>1 DEF asclin4IsrReceive
<1>2. CASE Reader
  <2>1. UNCHANGED overrun
    BY <1>2 DEF Reader, ReadBegin, Configure, Snapshot, ParseByte, WrapTail, ReadEnd, ghostVars
  <2>2. QED
    BY <2>1
<1>3. CASE StartFix \/ StartReply \/ Power
  <2>1. UNCHANGED overrun
    BY <1>3 DEF StartFix, StartReply, Power, ghostVars
  <2>2. QED
    BY <2>1
<1>4. QED
  BY <1>1, <1>2, <1>3 DEF Next

LEMMA PromisesStep ==
  ASSUME TypeInv, TypeInv', Configured, ~overrun => Promises, Next, ~overrun'
  PROVE  Promises'
<1>1. Promises
  BY OverrunStays
<1>2. CASE Reader
  BY <1>1, <1>2, ReaderPromises, ConfigurePromises, ParsePromises, ReadEndPromises DEF Reader
<1>3. CASE SendByte \/ Disturbance
  BY <1>3, SendPromises
<1>4. CASE StartFix \/ StartReply
  BY <1>1, <1>4, StartPromises
<1>5. CASE Power
  BY <1>1, <1>5, PowerPromises
<1>6. QED
  BY <1>2, <1>3, <1>4, <1>5 DEF Next

LEMMA Stutter == ASSUME IInv, UNCHANGED vars PROVE IInv'
<1>1. UNCHANGED <<ring, head, tail, pc, headSeen, status, pollCounter, parser, cfg, nav, fusion,
                  replies, sending, overrun, queue, unset, age>>
  BY DEF vars, ringVars, readVars, driverVars, receiverVars, ghostVars
<1>2. TypeInv'
  BY <1>1 DEF IInv, TypeInv
<1>3. FixKept' /\ Configured'
  BY <1>1 DEF IInv, FixKept, Configured
<1>4. ASSUME ~overrun'
      PROVE  Promises'
  <2>1. Promises
    BY <1>1, <1>4 DEF IInv
  <2>2. InRing'
    BY <1>1, <2>1, SameRing DEF Promises, Wrapped
  <2>3. /\ AcksInRing' = AcksInRing /\ AckSending' = AckSending
        /\ NotAccepted' = NotAccepted
    BY <1>1 DEF AcksInRing, AckSending, NotAccepted
  <2>4. QED
    BY <1>1, <2>1, <2>2, <2>3 DEF Promises, AcksCounted
<1>5. QED
  BY <1>2, <1>3, <1>4 DEF IInv

LEMMA Inductive == IInv /\ [Next]_vars => IInv'
<1> SUFFICES ASSUME IInv, [Next]_vars PROVE IInv'
  OBVIOUS
<1>1. CASE Next
  <2>1. TypeInv' /\ Configured'
    BY <1>1, TypesStep DEF IInv
  <2>2. FixKept'
    BY <1>1, FixKeptStep DEF IInv
  <2>3. ~overrun' => Promises'
    BY <1>1, <2>1, PromisesStep DEF IInv
  <2>4. QED
    BY <2>1, <2>2, <2>3 DEF IInv
<1>2. CASE UNCHANGED vars
  BY <1>2, Stutter
<1>3. QED
  BY <1>1, <1>2

(* The state of driver, line and receiver: types, ring, fix and count.     *)
THEOREM DriverConsistent == Spec => []IInv
<1>1. QED
  BY InitInv, Inductive, PTL DEF Spec

\* A byte is taken over the oldest only while the tail stands past the end.
LEMMA OnlyPastTheEnd ==
  ASSUME TypeInv, [Next]_vars, ~overrun, overrun'
  PROVE  Full /\ tail = RING_BUFFER_SIZE
<1>1. Full /\ RingNext(head) # tail
  <2>1. CASE SendByte \/ Disturbance
    <3>1. \E b : asclin4IsrReceive(b)
      BY <2>1 DEF SendByte, Disturbance
    <3>2. QED
      BY <3>1 DEF asclin4IsrReceive
  <2>2. CASE Reader
    <3>1. UNCHANGED overrun
      BY <2>2 DEF Reader, ReadBegin, Configure, Snapshot, ParseByte, WrapTail, ReadEnd, ghostVars
    <3>2. QED
      BY <3>1
  <2>3. CASE StartFix \/ StartReply \/ Power \/ UNCHANGED vars
    <3>1. UNCHANGED overrun
      BY <2>3 DEF StartFix, StartReply, Power, vars, ghostVars
    <3>2. QED
      BY <3>1
  <2>4. QED
    BY <2>1, <2>2, <2>3 DEF Next
<1>2. tail \notin Cells
  BY <1>1, WrappedIsCell DEF Full
<1>3. QED
  BY <1>1, <1>2 DEF TypeInv

(* The receive ring of GnssM9N.c between its interrupt and its reader: no  *)
(* byte is lost, doubled or reordered without the overflow counter, until  *)
(* a full ring takes a byte over the oldest; and that can happen only to a *)
(* byte that comes while the tail stands past the end (GnssM9N.c:774).     *)
THEOREM RingKeepsBytes == Spec => NothingLostUncounted
<1>1. IInv => (~overrun => queue = Contents)
  <2> SUFFICES ASSUME IInv, ~overrun PROVE queue = Contents
    OBVIOUS
  <2>1. TypeInv /\ InRing
    BY DEF IInv, Promises
  <2>2. Contents = [i \in 1 .. Unread |-> ring[CellAt(i - 1)]] /\ Unread \in Cells
    BY <2>1, ContentsAre
  <2>3. Unread \in Nat
    BY <2>2 DEF Cells
  <2>4. /\ queue \in Seq(Bytes) /\ Len(queue) = Unread
        /\ \A i \in 1 .. Unread : queue[i] = ring[CellAt(i - 1)]
    BY <2>1 DEF InRing
  <2>5. queue \in [1 .. Unread -> Bytes]
    BY <2>4, LenProperties
  <2>6. QED
    BY <2>2, <2>4, <2>5
<1>2. IInv /\ [Next]_vars => [~overrun /\ overrun' => Full /\ tail = RING_BUFFER_SIZE]_vars
  BY OnlyPastTheEnd DEF IInv
<1>3. QED
  BY <1>1, <1>2, DriverConsistent, PTL DEF Spec, NothingLostUncounted

(* cfgOk of GnssM9N_read is a count of acknowledgements, and each counted  *)
(* one stands for another setting: as long as no byte of the burst was     *)
(* discarded and none taken over another in the ring, cfgOk means that the *)
(* receiver accepted every setting.                                        *)
THEOREM OkIsAccepted == Spec => []CfgOkMeansAccepted
<1>1. IInv => CfgOkMeansAccepted
  BY DEF IInv, Promises, CfgOkMeansAccepted
<1>2. QED
  BY <1>1, DriverConsistent, PTL

(* The copy of an old fix that g_nav keeps never reaches Fusion as a new   *)
(* one, whatever the receiver sends and however long it was silent.        *)
THEOREM OnlyFreshFixes == Spec => FixIsFresh
<1>1. IInv /\ [Next]_vars => [fusion' \notin {fusion, NoFix} => age > 0]_vars
  BY FixKeptStep DEF IInv
<1>2. QED
  BY <1>1, DriverConsistent, PTL DEF Spec, FixIsFresh
=============================================================================
