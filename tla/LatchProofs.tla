---------------------------- MODULE LatchProofs ----------------------------
(***************************************************************************)
(* Proofs about Latch.tla, for every set of words, every payload, every    *)
(* modulus of gen and any number of publishes.                             *)
(***************************************************************************)
EXTENDS Latch, TLAPS

-----------------------------------------------------------------------------
(* The inductive invariant.                                                *)

\* The object between two publishes and in the middle of one.
ObjectContents ==
  /\ ~storing => /\ buffered = {} /\ intended = committed
                 /\ object = committed
  /\ storing => /\ published < MaxPublish
                /\ \A w \in Words :
                     object[w] = IF w \in buffered THEN committed[w] ELSE intended[w]

\* How far gen has moved since the reader looked.
GenMoved ==
  rpc = "copy" =>
    gen = IF genBefore + stall >= GEN_MOD THEN genBefore + stall - GEN_MOD
                                          ELSE genBefore + stall

\* What a copy no publish has finished under is made of.
CopyContents ==
  rpc = "copy" /\ stall = 0 =>
    \A w \in Words \ left : copy[w] \in {committed[w], intended[w]}

\* A paced writer stores only while its last generation is taken.
PaceKept == fused /\ storing => lastGen = gen

Inv == TypeOK /\ ObjectContents /\ GenMoved /\ CopyContents /\ PaceKept

-----------------------------------------------------------------------------
LEMMA GenType ==
  ASSUME NEW g \in 0 .. (GEN_MOD - 1)
  PROVE  NextGen(g) \in 0 .. (GEN_MOD - 1)
BY LatchAssumption DEF NextGen

LEMMA InvInit ==
  ASSUME Init
  PROVE  Inv
<1>1. 0 \in 0 .. MaxPublish /\ 0 \in 0 .. (GEN_MOD - 1) /\ 0 \in 0 .. MaxStall
  BY LatchAssumption
<1>2. Zeroed \in Contents
  BY <1>1 DEF Zeroed, Contents
<1>3. TypeOK
  <2>1. /\ object \in Contents /\ copy \in Contents /\ taken \in Contents
        /\ committed \in Contents /\ intended \in Contents
    BY <1>2, Zenon DEF Init
  <2>2. /\ gen \in 0 .. (GEN_MOD - 1) /\ genBefore \in 0 .. (GEN_MOD - 1)
        /\ lastGen \in 0 .. (GEN_MOD - 1)
        /\ published \in 0 .. MaxPublish /\ stall \in 0 .. MaxStall
    BY <1>1, Zenon DEF Init
  <2>3. fused \in BOOLEAN /\ storing \in BOOLEAN /\ buffered \subseteq Words /\ left \subseteq Words
    BY Zenon DEF Init
  <2>4. rpc \in {"idle", "gen", "copy"} /\ attempt \in 1 .. 2
    BY DEF Init
  <2> QED BY <2>1, <2>2, <2>3, <2>4 DEF TypeOK
<1>4. ObjectContents /\ GenMoved /\ CopyContents /\ PaceKept
  BY DEF Init, ObjectContents, GenMoved, CopyContents, PaceKept
<1> QED BY <1>3, <1>4 DEF Inv

\* gen is back where the reader saw it only if no publish was finished.
LEMMA SameGen ==
  ASSUME Inv, rpc = "copy", gen = genBefore
  PROVE  stall = 0
<1>1. /\ genBefore \in 0 .. (GEN_MOD - 1) /\ stall \in 0 .. MaxStall
      /\ gen = IF genBefore + stall >= GEN_MOD THEN genBefore + stall - GEN_MOD
                                               ELSE genBefore + stall
  BY DEF Inv, TypeOK, GenMoved
<1> QED BY <1>1, LatchAssumption

\* What the consumer takes is made of the last finished publish and the next.
LEMMA TakenContents ==
  ASSUME Inv, CheckGen, taken' # taken
  PROVE  /\ taken' = copy /\ lastGen' = gen /\ IsNew /\ gen = genBefore
         /\ \A w \in Words : taken'[w] \in {committed[w], intended[w]}
<1>1. /\ rpc = "copy" /\ left = {} /\ gen = genBefore
      /\ IsNew /\ taken' = copy /\ lastGen' = genBefore
  BY DEF CheckGen, Accepted
<1>2. stall = 0
  BY <1>1, SameGen
<1> QED BY <1>1, <1>2 DEF Inv, CopyContents

-----------------------------------------------------------------------------
(* The steps of the writer.                                                *)

LEMMA BeginStep ==
  ASSUME Inv, BeginPublish
  PROVE  Inv'
<1>1. PICK ws \in Payloads :
        /\ buffered' = ws
        /\ intended' = [w \in Words |-> IF w \in ws THEN published + 1 ELSE committed[w]]
  BY DEF BeginPublish
<1>2. /\ ~storing /\ storing' = TRUE /\ published < MaxPublish
      /\ fused => lastGen = gen
      /\ UNCHANGED <<fused, object, gen, published, committed, stall>>
      /\ UNCHANGED <<rpc, attempt, genBefore, left, copy, taken, lastGen>>
  BY DEF BeginPublish, reader
<1>3. TypeOK'
  <2>1. published + 1 \in 0 .. MaxPublish
    BY <1>2, LatchAssumption DEF Inv, TypeOK
  <2>2. intended' \in Contents
    BY <1>1, <2>1 DEF Inv, TypeOK, Contents
  <2>3. buffered' \subseteq Words
    BY <1>1, LatchAssumption
  <2> QED BY <1>2, <2>2, <2>3 DEF Inv, TypeOK
<1>4. ObjectContents'
  BY <1>1, <1>2 DEF Inv, ObjectContents
<1>5. CopyContents'
  BY <1>2 DEF Inv, CopyContents, ObjectContents
<1>6. GenMoved' /\ PaceKept'
  BY <1>2 DEF Inv, GenMoved, PaceKept
<1> QED BY <1>3, <1>4, <1>5, <1>6 DEF Inv

LEMMA StoreStep ==
  ASSUME Inv, StoreReachesLmu
  PROVE  Inv'
<1>1. PICK w \in buffered :
        /\ object' = [object EXCEPT ![w] = intended[w]]
        /\ buffered' = buffered \ {w}
  BY DEF StoreReachesLmu
<1>2. /\ UNCHANGED <<fused, gen, storing, published, committed, intended, stall>>
      /\ UNCHANGED <<rpc, attempt, genBefore, left, copy, taken, lastGen>>
  BY DEF StoreReachesLmu, reader
<1>3. w \in Words /\ storing /\ object \in Contents /\ intended \in Contents
  BY DEF Inv, TypeOK, ObjectContents
<1>4. TypeOK'
  BY <1>1, <1>2, <1>3 DEF Inv, TypeOK, Contents
<1>5. ObjectContents'
  BY <1>1, <1>2, <1>3 DEF Inv, ObjectContents, Contents
<1>6. GenMoved' /\ CopyContents' /\ PaceKept'
  BY <1>2 DEF Inv, GenMoved, CopyContents, PaceKept
<1> QED BY <1>4, <1>5, <1>6 DEF Inv

LEMMA FinishStep ==
  ASSUME Inv, FinishPublish
  PROVE  Inv'
<1>1. /\ storing /\ buffered = {} /\ storing' = FALSE
      /\ rpc = "copy" => stall < MaxStall
      /\ gen' = NextGen(gen)
      /\ published' = published + 1 /\ committed' = intended
      /\ stall' = IF rpc = "copy" THEN stall + 1 ELSE 0
      /\ UNCHANGED <<fused, object, buffered, intended>>
      /\ UNCHANGED <<rpc, attempt, genBefore, left, copy, taken, lastGen>>
  BY DEF FinishPublish, Drained, reader
<1>2. /\ gen \in 0 .. (GEN_MOD - 1) /\ genBefore \in 0 .. (GEN_MOD - 1)
      /\ stall \in 0 .. MaxStall /\ published \in 0 .. MaxPublish
      /\ object \in Contents /\ committed \in Contents /\ intended \in Contents
  BY DEF Inv, TypeOK
<1>3. stall' \in 0 .. MaxStall
  BY <1>1, <1>2, LatchAssumption
<1>4. object = intended
  <2>1. \A w \in Words : object[w] = intended[w]
    BY <1>1 DEF Inv, ObjectContents
  <2> QED BY <1>2, <2>1 DEF Contents
<1>5. GenMoved'
  <2>1. CASE rpc = "copy"
    <3>1. gen = IF genBefore + stall >= GEN_MOD THEN genBefore + stall - GEN_MOD
                                                ELSE genBefore + stall
      BY <2>1 DEF Inv, GenMoved
    <3> QED BY <1>1, <1>2, <2>1, <3>1, LatchAssumption DEF GenMoved, NextGen
  <2>2. CASE rpc # "copy"
    BY <1>1, <2>2 DEF GenMoved
  <2> QED BY <2>1, <2>2
<1>6. CopyContents'
  BY <1>1, <1>2 DEF CopyContents
<1>7. ObjectContents' /\ PaceKept'
  BY <1>1, <1>4 DEF ObjectContents, PaceKept
<1>8. TypeOK'
  <2>1. published' \in 0 .. MaxPublish
    <3>1. published < MaxPublish
      BY <1>1 DEF Inv, ObjectContents
    <3> QED BY <1>1, <1>2, <3>1, LatchAssumption
  <2> QED BY <1>1, <1>2, <1>3, <2>1, GenType DEF Inv, TypeOK
<1> QED BY <1>5, <1>6, <1>7, <1>8 DEF Inv

-----------------------------------------------------------------------------
(* The steps of the reader.                                                *)

LEMMA ReaderStep ==
  ASSUME Inv, Reader
  PROVE  Inv'
<1>1. /\ UNCHANGED <<fused, object, gen, storing, buffered, published, committed, intended>>
      /\ stall' \in {0, stall}
  BY DEF Reader, BeginGet, ReadGen, CopyWord, CheckGen, writer
<1>2. ObjectContents'
  BY <1>1 DEF Inv, ObjectContents
<1>3. CASE BeginGet
  <2>1. /\ rpc' = "gen" /\ attempt' = 1 /\ stall' = stall
        /\ UNCHANGED <<genBefore, left, copy, taken, lastGen>>
    BY <1>3 DEF BeginGet
  <2> QED BY <1>1, <1>2, <2>1 DEF Inv, TypeOK, GenMoved, CopyContents, PaceKept
<1>4. CASE ReadGen
  <2>1. /\ rpc' = "copy" /\ genBefore' = gen /\ left' = Words /\ stall' = 0
        /\ UNCHANGED <<attempt, copy, taken, lastGen>>
    BY <1>4 DEF ReadGen
  <2>2. TypeOK'
    BY <1>1, <2>1, LatchAssumption DEF Inv, TypeOK
  <2>3. GenMoved'
    BY <1>1, <2>1, LatchAssumption DEF Inv, TypeOK, GenMoved
  <2>4. CopyContents' /\ PaceKept'
    BY <1>1, <2>1 DEF Inv, CopyContents, PaceKept
  <2> QED BY <1>2, <2>2, <2>3, <2>4 DEF Inv
<1>5. CASE CopyWord
  <2>1. PICK w \in left : /\ copy' = [copy EXCEPT ![w] = object[w]]
                          /\ left' = left \ {w}
    BY <1>5 DEF CopyWord
  <2>2. UNCHANGED <<rpc, attempt, genBefore, taken, lastGen, stall>>
    BY <1>5 DEF CopyWord
  <2>3. w \in Words /\ object \in Contents /\ copy \in Contents
    BY DEF Inv, TypeOK
  <2>4. TypeOK'
    BY <1>1, <2>1, <2>2, <2>3 DEF Inv, TypeOK, Contents
  <2>5. object[w] \in {committed[w], intended[w]}
    BY <2>3 DEF Inv, ObjectContents
  <2>6. CopyContents'
    BY <1>1, <2>1, <2>2, <2>3, <2>5 DEF Inv, CopyContents, Contents
  <2>7. GenMoved' /\ PaceKept'
    BY <1>1, <2>2 DEF Inv, GenMoved, PaceKept
  <2> QED BY <1>2, <2>4, <2>6, <2>7 DEF Inv
<1>6. CASE CheckGen
  <2>1. /\ rpc = "copy" /\ rpc' \in {"idle", "gen"} /\ attempt' \in 1 .. 2
        /\ UNCHANGED <<genBefore, left, copy, stall>>
        /\ \/ UNCHANGED <<taken, lastGen>>
           \/ gen = genBefore /\ taken' = copy /\ lastGen' = genBefore
    BY <1>6 DEF CheckGen, Accepted, Inv, TypeOK
  <2>2. TypeOK'
    BY <1>1, <2>1 DEF Inv, TypeOK
  <2>3. GenMoved' /\ CopyContents'
    BY <2>1 DEF GenMoved, CopyContents
  <2>4. PaceKept'
    BY <1>1, <2>1 DEF Inv, PaceKept
  <2> QED BY <1>2, <2>2, <2>3, <2>4 DEF Inv
<1> QED BY <1>3, <1>4, <1>5, <1>6 DEF Reader

LEMMA InvStep ==
  ASSUME Inv, [Next]_vars
  PROVE  Inv'
<1>1. CASE Writer
  BY <1>1, BeginStep, StoreStep, FinishStep DEF Writer
<1>2. CASE Reader
  BY <1>2, ReaderStep
<1>3. CASE UNCHANGED vars
  BY <1>3 DEF vars, writer, reader, Inv, TypeOK, ObjectContents, GenMoved,
              CopyContents, PaceKept
<1> QED BY <1>1, <1>2, <1>3 DEF Next

-----------------------------------------------------------------------------
(* The theorems.                                                           *)

\* The inductive invariant holds of every interleaving of the two cores.
THEOREM Invariance == Spec => []Inv
<1>1. Init => Inv
  BY InvInit
<1>2. Inv /\ [Next]_vars => Inv'
  BY InvStep
<1> QED BY <1>1, <1>2, PTL DEF Spec

\* Every variable of the protocol keeps its type.
THEOREM TypeCorrect == Spec => []TypeOK
<1>1. Inv => TypeOK
  BY DEF Inv
<1> QED BY <1>1, Invariance, PTL

\* Only CheckGen changes what the consumer holds.
LEMMA OnlyCheckTakes ==
  ASSUME [Next]_vars, taken' # taken
  PROVE  CheckGen
BY DEF Next, Writer, Reader, BeginPublish, StoreReachesLmu, FinishPublish,
       BeginGet, ReadGen, CopyWord, vars, reader

(* No word older than the last finished publish reaches the consumer, for  *)
(* any number of words, any writer speed and any interleaving.             *)
THEOREM WindowSafety == Spec => NothingStaleTaken
<1>1. Inv /\ [Next]_vars =>
        [taken' # taken => \A w \in Words : taken'[w] \in {committed[w], intended[w]}]_vars
  BY TakenContents, OnlyCheckTakes
<1> QED BY <1>1, Invariance, PTL DEF Spec, NothingStaleTaken

(* A consumer that takes a generation only once and keeps pace with the    *)
(* producer fuses whole samples only: the generation check alone does not  *)
(* give this, the check against the last consumed generation does.         *)
THEOREM WholeSamples == Spec => FusedSampleIsWhole
<1>1. ASSUME Inv, [Next]_vars, fused, taken' # taken
      PROVE  taken' = committed
  <2>1. CheckGen
    BY <1>1, OnlyCheckTakes
  <2>2. /\ taken' = copy /\ IsNew /\ gen = genBefore
        /\ \A w \in Words : taken'[w] \in {committed[w], intended[w]}
    BY <1>1, <2>1, TakenContents
  <2>3. ~storing
    BY <1>1, <2>2 DEF Inv, PaceKept, IsNew
  <2>4. \A w \in Words : taken'[w] = committed[w]
    BY <1>1, <2>2, <2>3 DEF Inv, ObjectContents
  <2> QED BY <1>1, <2>2, <2>4 DEF Inv, TypeOK, Contents
<1>2. Inv /\ [Next]_vars => [fused /\ taken' # taken => taken' = committed]_vars
  BY <1>1
<1> QED BY <1>2, Invariance, PTL DEF Spec, FusedSampleIsWhole
=============================================================================
