----------------------------- MODULE NvmProofs -----------------------------
(***************************************************************************)
(* Proofs about Nvm.tla, for every set of parameter values and every       *)
(* sequence modulus.                                                       *)
(***************************************************************************)
EXTENDS Nvm, TLAPS

-----------------------------------------------------------------------------
(* Pages, records and sequences.                                           *)

LEMMA PageTypes ==
  /\ {Erased, Garbled, Header, OldHeader, BadHeader, Block} \subseteq AnyPage
  /\ \A s \in Sequence, v \in Values : SeqPage(s, v) \in AnyPage /\ ValuePage(v) \in AnyPage
BY NvmAssumption
DEF Erased, Garbled, Header, OldHeader, BadHeader, Block, SeqPage, ValuePage,
    Page, AnyPage, NoSequence, Sequence

LEMMA TornType ==
  ASSUME NEW p \in Pages
  PROVE  Torn(p) \subseteq AnyPage
BY PageTypes DEF Torn

LEMMA RecordType ==
  ASSUME NEW s \in Sequence, NEW v \in Values
  PROVE  /\ Record(s, v) \in [Pages -> AnyPage]
         /\ holds(Record(s, v), s, v)
<1>1. Record(s, v) \in [Pages -> AnyPage]
  BY PageTypes DEF Record, Pages, NVM_RECORD_PAGES
<1>2. /\ Record(s, v)[1] = Header /\ Record(s, v)[2] = SeqPage(s, v)
      /\ Record(s, v)[3] = Block /\ Record(s, v)[4] = ValuePage(v)
  BY DEF Record
<1>3. SeqPage(s, v).kind = "seq" /\ SeqPage(s, v).seq = s /\ SeqPage(s, v).val = v
  BY DEF SeqPage, Page
<1> QED BY <1>1, <1>2, <1>3 DEF holds, valid

\* No page of an interrupted operation carries a sequence.
LEMMA SeqPageKinds ==
  /\ Erased.kind # "seq"
  /\ \A x \in Torn(2) : x.kind # "seq"
BY DEF Erased, Garbled, Torn, Page

\* A sequence and its successor compare as older and newer, also at the wrap.
LEMMA SequenceOrder ==
  ASSUME NEW s \in Sequence
  PROVE  /\ NextSequence(s) \in Sequence
         /\ Newer(NextSequence(s), s)
         /\ ~Newer(s, NextSequence(s))
BY NvmAssumption DEF NextSequence, Newer, Diff, Sequence

\* An interrupted erase never makes a record, and keeps none that it touched.
LEMMA HalfErasedKeeps ==
  ASSUME NEW sec \in [Pages -> AnyPage], NEW new \in HalfErased(sec)
  PROVE  /\ new \in [Pages -> AnyPage]
         /\ valid(new) => new = sec
<1>1. CASE new = sec
  BY <1>1
<1>2. CASE new # sec
  <2>1. PICK p1 \in {Erased} \cup Torn(1), p2 \in {Erased} \cup Torn(2),
             p3 \in {Erased} \cup Torn(3), p4 \in {Erased} \cup Torn(4) :
               new = <<p1, p2, p3, p4>>
    BY <1>2 DEF HalfErased
  <2>2. new[2] = p2
    BY <2>1
  <2>3. ~valid(new)
    BY <2>2, SeqPageKinds DEF valid
  <2>4. p1 \in AnyPage /\ p2 \in AnyPage /\ p3 \in AnyPage /\ p4 \in AnyPage
    BY PageTypes, TornType DEF Pages, NVM_RECORD_PAGES
  <2> QED BY <2>1, <2>3, <2>4 DEF Pages, NVM_RECORD_PAGES
<1> QED BY <1>1, <1>2

-----------------------------------------------------------------------------
(* The inductive invariant.                                                *)

\* Without an active record nothing was ever acknowledged, and sector 1 is free.
NothingActive ==
  ~s_haveActive => acked = Default /\ s_activeSequence = 0 /\ ~valid(flash[1])

(* A complete record in the sector the next save goes to is the direct     *)
(* successor of the active one, left by a save that was not acknowledged,  *)
(* or its direct predecessor.                                              *)
OtherSector ==
  valid(flash[Target]) =>
    \/ flash[Target][2].seq = SaveSequence /\ flash[Target][2].val \in tried
    \/ s_haveActive /\ NextSequence(flash[Target][2].seq) = s_activeSequence

\* A running save stores the RAM value, which cannot change meanwhile.
SaveStarted == pc # "idle" => ram \in tried

\* What a save has programmed so far: its own pages or damaged ones.
PagesWritten ==
  power /\ pc \in {"program", "verify"} =>
    \A q \in Pages : flash[Target][q] \in {SaveRecord[q], Erased} \cup Torn(q)

Inv == /\ TypeOK /\ LastGoodRecordStands /\ NothingActive /\ OtherSector
       /\ SaveStarted /\ PagesWritten

-----------------------------------------------------------------------------
(* One flash operation of a save.                                          *)

LEMMA TargetFacts ==
  ASSUME TypeOK
  PROVE  /\ Target \in Sectors /\ s_activeSector \in Sectors
         /\ s_haveActive => Target # s_activeSector
         /\ ~s_haveActive => Target = 0
         /\ SaveSequence \in Sequence
         /\ SaveRecord \in [Pages -> AnyPage]
         /\ flash[Target] \in [Pages -> AnyPage]
<1>1. /\ Target \in Sectors /\ s_activeSector \in Sectors
      /\ s_haveActive => Target # s_activeSector
      /\ ~s_haveActive => Target = 0
  BY DEF TypeOK, Target, Sectors
<1>2. SaveSequence \in Sequence
  BY SequenceOrder DEF TypeOK, SaveSequence
<1>3. SaveRecord \in [Pages -> AnyPage]
  BY <1>2, RecordType DEF TypeOK, SaveRecord
<1> QED BY <1>1, <1>2, <1>3 DEF TypeOK

\* A sector with only some of a record's pages is that record or no record.
LEMMA PartialRecord ==
  ASSUME NEW sec, NEW s \in Sequence, NEW v \in Values,
         \A q \in Pages : sec[q] \in {Record(s, v)[q], Erased} \cup Torn(q),
         valid(sec)
  PROVE  sec[2].seq = s /\ sec[2].val = v
<1>1. sec[2] \in {Record(s, v)[2], Erased} \cup Torn(2)
  BY DEF Pages, NVM_RECORD_PAGES
<1>2. sec[2].kind = "seq"
  BY DEF valid
<1>3. sec[2] = Record(s, v)[2]
  BY <1>1, <1>2, SeqPageKinds
<1>4. Record(s, v)[2] = SeqPage(s, v)
  BY DEF Record
<1> QED BY <1>3, <1>4 DEF SeqPage, Page

\* Whatever an operation of a save leaves in the target sector, the rest stands.
LEMMA SectorWrite ==
  ASSUME TypeOK, LastGoodRecordStands, NothingActive, OtherSector, ram \in tried,
         NEW new \in [Pages -> AnyPage],
         flash' = [flash EXCEPT ![Target] = new],
         UNCHANGED <<statics, acked, tried>>,
         valid(new) => \/ new = flash[Target]
                       \/ new[2].seq = SaveSequence /\ new[2].val = ram
  PROVE  /\ flash' \in [Sectors -> [Pages -> AnyPage]]
         /\ LastGoodRecordStands' /\ NothingActive' /\ OtherSector'
<1>1. /\ Target' = Target /\ SaveSequence' = SaveSequence
      /\ UNCHANGED <<s_haveActive, s_activeSector, s_activeSequence>>
  BY DEF Target, SaveSequence, statics
<1>2. flash \in [Sectors -> [Pages -> AnyPage]]
  BY DEF TypeOK
<1>3. flash'[Target] = new
  BY <1>2, TargetFacts
<1>4. LastGoodRecordStands'
  BY <1>1, <1>2, TargetFacts DEF LastGoodRecordStands
<1>5. NothingActive'
  <2>1. ~s_haveActive => flash'[1] = flash[1]
    BY <1>2, TargetFacts DEF Sectors
  <2> QED BY <1>1, <2>1 DEF NothingActive
<1>6. OtherSector'
  BY <1>1, <1>3 DEF OtherSector
<1> QED BY <1>2, <1>4, <1>5, <1>6, TargetFacts

\* A page that was programmed, wrongly programmed or not at all.
LEMMA PageWrite ==
  ASSUME Inv, power, pc = "program",
         NEW content \in {SaveRecord[page], Erased} \cup Torn(page),
         flash' = Written(content),
         UNCHANGED <<statics, acked, tried>>
  PROVE  /\ flash' \in [Sectors -> [Pages -> AnyPage]]
         /\ LastGoodRecordStands' /\ NothingActive' /\ OtherSector'
         /\ \A q \in Pages :
              flash'[Target][q] \in {SaveRecord[q], Erased} \cup Torn(q)
<1> DEFINE new == [flash[Target] EXCEPT ![page] = content]
<1>1. page \in Pages /\ flash \in [Sectors -> [Pages -> AnyPage]] /\ ram \in Values
  BY DEF Inv, TypeOK
<1>2. content \in AnyPage
  BY <1>1, TargetFacts, PageTypes, TornType DEF Inv
<1>3. new \in [Pages -> AnyPage]
  BY <1>2, TargetFacts DEF Inv
<1>4. flash' = [flash EXCEPT ![Target] = new]
  BY DEF Written
<1>5. \A q \in Pages : new[q] \in {SaveRecord[q], Erased} \cup Torn(q)
  BY <1>1, TargetFacts DEF Inv, PagesWritten
<1>6. valid(new) => new[2].seq = SaveSequence /\ new[2].val = ram
  <2> HIDE DEF new
  <2> QED BY <1>1, <1>5, TargetFacts, PartialRecord DEF Inv, SaveRecord
<1>7. ram \in tried
  BY DEF Inv, SaveStarted
<1>8. flash'[Target] = new
  BY <1>1, <1>4, TargetFacts DEF Inv
<1> HIDE DEF new
<1> QED BY <1>3, <1>4, <1>5, <1>6, <1>7, <1>8, SectorWrite DEF Inv

LEMMA EraseWrite ==
  ASSUME Inv, pc = "erase",
         NEW new \in HalfErased(flash[Target]),
         flash' = [flash EXCEPT ![Target] = new],
         UNCHANGED <<statics, acked, tried>>
  PROVE  /\ flash' \in [Sectors -> [Pages -> AnyPage]]
         /\ LastGoodRecordStands' /\ NothingActive' /\ OtherSector'
<1>1. new \in [Pages -> AnyPage] /\ (valid(new) => new = flash[Target])
  BY TargetFacts, HalfErasedKeeps DEF Inv
<1>2. ram \in tried
  BY DEF Inv, SaveStarted
<1> QED BY <1>1, <1>2, SectorWrite DEF Inv

-----------------------------------------------------------------------------
(* The boot picks the newest record.                                       *)

LEMMA BootChoice ==
  ASSUME Inv
  PROVE  /\ BootValid => /\ BootSector \in Sectors
                         /\ valid(flash[BootSector])
                         /\ flash[BootSector][2].seq \in Sequence
         /\ BootValue \in {acked} \cup tried
         /\ s_haveActive => BootValid
         /\ BootValid =>
              \/ /\ s_haveActive /\ BootSector = s_activeSector
                 /\ valid(flash[Target]) =>
                      NextSequence(flash[Target][2].seq) = s_activeSequence
              \/ /\ BootSector = Target
                 /\ flash[Target][2].seq = SaveSequence
<1>1. /\ Target \in Sectors /\ s_activeSector \in Sectors
      /\ s_haveActive => Target # s_activeSector
      /\ ~s_haveActive => Target = 0
      /\ s_activeSequence \in Sequence /\ SaveSequence \in Sequence
  BY TargetFacts DEF Inv, TypeOK
<1>2. CASE ~s_haveActive
  <2>1. ~valid(flash[1]) /\ acked = Default /\ Target = 0
    BY <1>1, <1>2 DEF Inv, NothingActive
  <2>2. BootValid <=> valid(flash[0])
    BY <2>1 DEF BootValid
  <2>3. CASE valid(flash[0])
    <3>1. BootSector = 0
      BY <2>1, <2>3 DEF BootSector
    <3>2. flash[0][2].seq = SaveSequence /\ flash[0][2].val \in tried
      BY <1>2, <2>1, <2>3 DEF Inv, OtherSector
    <3> QED BY <1>1, <1>2, <2>1, <2>2, <2>3, <3>1, <3>2 DEF BootValue, Sectors
  <2>4. CASE ~valid(flash[0])
    BY <1>2, <2>1, <2>2, <2>4 DEF BootValue
  <2> QED BY <2>3, <2>4
<1>3. CASE s_haveActive
  <2> DEFINE a == s_activeSector
             t == Target
  <2>1. valid(flash[a]) /\ flash[a][2].seq = s_activeSequence /\ flash[a][2].val = acked
    BY <1>3 DEF Inv, LastGoodRecordStands, holds
  <2>2. (a = 0 /\ t = 1) \/ (a = 1 /\ t = 0)
    BY <1>1, <1>3 DEF Sectors
  <2>3. BootValid
    BY <2>1, <2>2 DEF BootValid
  <2>4. CASE ~valid(flash[t])
    <3>1. BootSector = a
      BY <2>1, <2>2, <2>4 DEF BootSector
    <3> QED BY <1>1, <1>3, <2>1, <2>3, <2>4, <3>1 DEF BootValue
  <2>5. CASE valid(flash[t]) /\ flash[t][2].seq = SaveSequence
                             /\ flash[t][2].val \in tried
    <3>1. /\ Newer(flash[t][2].seq, flash[a][2].seq)
          /\ ~Newer(flash[a][2].seq, flash[t][2].seq)
      BY <1>1, <2>1, <2>5, SequenceOrder DEF SaveSequence
    <3>2. BootSector = t
      BY <2>1, <2>2, <2>5, <3>1 DEF BootSector
    <3> QED BY <1>1, <1>3, <2>3, <2>5, <3>2 DEF BootValue
  <2>6. CASE valid(flash[t]) /\ NextSequence(flash[t][2].seq) = s_activeSequence
    <3>1. flash[t][2].seq \in Sequence
      <4>1. flash[t][2] \in AnyPage /\ flash[t][2].kind = "seq"
        BY <1>1, <2>6 DEF Inv, TypeOK, Pages, NVM_RECORD_PAGES, valid
      <4>2. flash[t][2].seq \in 0 .. SEQ_MOD
        BY <4>1 DEF AnyPage
      <4>3. flash[t][2].seq # SEQ_MOD
        <5> SUFFICES ASSUME flash[t][2].seq = SEQ_MOD PROVE FALSE
          OBVIOUS
        <5>1. SEQ_MOD + 1 = s_activeSequence
          BY <2>6, NvmAssumption DEF NextSequence
        <5> QED BY <1>1, <5>1, NvmAssumption DEF Sequence
      <4> QED BY <4>2, <4>3, NvmAssumption DEF Sequence
    <3>2. /\ Newer(flash[a][2].seq, flash[t][2].seq)
          /\ ~Newer(flash[t][2].seq, flash[a][2].seq)
      BY <2>1, <2>6, <3>1, SequenceOrder
    <3>3. BootSector = a
      BY <2>1, <2>2, <2>6, <3>2 DEF BootSector
    <3> QED BY <1>1, <1>3, <2>1, <2>3, <2>6, <3>3 DEF BootValue
  <2> QED BY <1>3, <2>4, <2>5, <2>6 DEF Inv, OtherSector
<1> QED BY <1>2, <1>3

\* The records the boot leaves: the one it loaded, and its neighbour.
LEMMA BootStep ==
  ASSUME Inv, Nvm_bootInit
  PROVE  Inv'
<1>1. /\ s_haveActive' = BootValid
      /\ s_activeSector' = (IF BootValid THEN BootSector ELSE 0)
      /\ s_activeSequence' = (IF BootValid THEN flash[BootSector][2].seq ELSE 0)
      /\ ram' = BootValue /\ acked' = BootValue /\ tried' = {}
      /\ pc' = "idle" /\ page' = 1 /\ command' = "NONE" /\ flash' = flash
      /\ power' = TRUE
      /\ s_fault' = (~BootValid /\ \E i \in Sectors : corrupt(flash[i]))
  BY DEF Nvm_bootInit
<1>2. TypeOK'
  <2>1. BootValue \in Values /\ 1 \in Pages /\ 0 \in Sectors /\ 0 \in Sequence
    BY BootChoice, NvmAssumption DEF Inv, TypeOK, Pages, NVM_RECORD_PAGES, Sectors, Sequence
  <2>2. power' \in BOOLEAN /\ s_haveActive' \in BOOLEAN /\ s_fault' \in BOOLEAN
    <3>1. BootValid \in BOOLEAN /\ (~BootValid /\ \E i \in Sectors : corrupt(flash[i])) \in BOOLEAN
      BY Zenon DEF BootValid
    <3> QED BY <1>1, <3>1, Zenon
  <2>3. s_activeSector' \in Sectors /\ s_activeSequence' \in Sequence
    BY <1>1, <2>1, BootChoice
  <2> QED BY <1>1, <2>1, <2>2, <2>3 DEF Inv, TypeOK, Commands
<1>3. LastGoodRecordStands'
  BY <1>1, BootChoice DEF LastGoodRecordStands, holds, BootValue
<1>4. NothingActive'
  BY <1>1 DEF NothingActive, BootValid, BootValue
<1>5. OtherSector'
  <2>1. CASE ~BootValid
    BY <1>1, <2>1 DEF OtherSector, BootValid, Target
  <2>2. CASE /\ BootValid /\ s_haveActive /\ BootSector = s_activeSector
             /\ valid(flash[Target]) =>
                  NextSequence(flash[Target][2].seq) = s_activeSequence
    <3>1. Target' = Target /\ flash[Target]' = flash[Target] /\ s_haveActive'
      BY <1>1, <2>2 DEF Target
    <3>2. s_activeSequence' = s_activeSequence
      BY <1>1, <2>2 DEF Inv, LastGoodRecordStands, holds
    <3> QED BY <2>2, <3>1, <3>2, <1>1 DEF OtherSector
  <2>3. CASE /\ BootValid /\ BootSector = Target
             /\ flash[Target][2].seq = SaveSequence
    BY <1>1, <2>3, TargetFacts
    DEF Inv, OtherSector, LastGoodRecordStands, NothingActive, holds, Target,
        SaveSequence, Sectors
  <2> QED BY <2>1, <2>2, <2>3, BootChoice
<1>6. SaveStarted' /\ PagesWritten'
  BY <1>1 DEF SaveStarted, PagesWritten
<1> QED BY <1>2, <1>3, <1>4, <1>5, <1>6 DEF Inv

-----------------------------------------------------------------------------
(* The other steps.                                                        *)

LEMMA InvInit ==
  ASSUME Init
  PROVE  Inv
<1>1. \A i \in Sectors : flash[i] \in [Pages -> AnyPage] /\ ~valid(flash[i])
  <2> SUFFICES ASSUME NEW i \in Sectors
               PROVE  flash[i] \in [Pages -> AnyPage] /\ ~valid(flash[i])
    OBVIOUS
  <2>1. flash[i] = Blank \/ flash[i] = [Blank EXCEPT ![1] = OldHeader]
    BY DEF Init
  <2>2. flash[i] \in [Pages -> AnyPage]
    BY <2>1, PageTypes DEF Blank
  <2>3. flash[i][2] = Erased
    BY <2>1 DEF Blank, Pages, NVM_RECORD_PAGES
  <2> QED BY <2>2, <2>3, SeqPageKinds DEF valid
<1>2. flash \in [Sectors -> [Pages -> AnyPage]]
  <2>1. flash = [i \in Sectors |-> flash[i]]
    BY DEF Init
  <2> QED BY <1>1, <2>1
<1>3. TypeOK
  <2>1. /\ Default \in Values /\ 0 \in Sectors /\ 0 \in Sequence
        /\ 1 \in Pages /\ TRUE \in BOOLEAN /\ FALSE \in BOOLEAN
    BY NvmAssumption DEF Sectors, Sequence, Pages, NVM_RECORD_PAGES
  <2> QED BY <1>2, <2>1 DEF Init, TypeOK, Commands
<1>4. LastGoodRecordStands /\ SaveStarted /\ PagesWritten
  BY DEF Init, LastGoodRecordStands, SaveStarted, PagesWritten
<1>5. NothingActive
  BY <1>1 DEF Init, NothingActive, Sectors
<1>6. OtherSector
  BY <1>1, <1>3, TargetFacts DEF OtherSector
<1> QED BY <1>3, <1>4, <1>5, <1>6 DEF Inv

\* The steps that leave the flash and the records' bookkeeping alone.
LEMMA IdleStep ==
  ASSUME Inv, XcpDownload \/ LoadDefaults \/ StartSave
  PROVE  Inv'
<1>1. /\ UNCHANGED <<flash, power, s_fault, page, acked>>
      /\ UNCHANGED <<s_haveActive, s_activeSector, s_activeSequence>>
      /\ ram' \in Values /\ command' \in Commands
      /\ pc' \in {"idle", "erase"}
      /\ tried' \subseteq Values /\ tried \subseteq tried'
      /\ pc' # "idle" => ram' \in tried'
  BY NvmAssumption
  DEF XcpDownload, LoadDefaults, StartSave, statics, Inv, TypeOK, Commands
<1>2. TypeOK'
  BY <1>1 DEF Inv, TypeOK
<1>3. LastGoodRecordStands' /\ NothingActive'
  BY <1>1 DEF Inv, LastGoodRecordStands, NothingActive
<1>4. OtherSector'
  BY <1>1 DEF Inv, OtherSector, Target, SaveSequence
<1>5. SaveStarted' /\ PagesWritten'
  BY <1>1 DEF SaveStarted, PagesWritten
<1> QED BY <1>2, <1>3, <1>4, <1>5 DEF Inv

LEMMA EraseStep ==
  ASSUME Inv, EraseSector
  PROVE  Inv'
<1>1. /\ power /\ pc = "erase"
      /\ UNCHANGED <<power, ram, statics, acked, tried>>
      /\ UNCHANGED <<s_haveActive, s_activeSector, s_activeSequence>>
  BY DEF EraseSector, FailSave, statics
<1>2. PICK new : /\ flash' = [flash EXCEPT ![Target] = new]
                 /\ \/ new = Blank /\ pc' = "program" /\ page' = 1
                       /\ UNCHANGED <<command, s_fault>>
                    \/ new \in HalfErased(flash[Target]) /\ FailSave
  BY DEF EraseSector
<1>3. ram \in tried
  BY <1>1 DEF Inv, SaveStarted
<1>4. /\ new \in [Pages -> AnyPage]
      /\ valid(new) => new = flash[Target]
  <2>1. Blank \in [Pages -> AnyPage] /\ ~valid(Blank)
    BY PageTypes, SeqPageKinds DEF Blank, valid, Pages, NVM_RECORD_PAGES
  <2> QED BY <1>2, <2>1, TargetFacts, HalfErasedKeeps DEF Inv
<1>5. /\ flash' \in [Sectors -> [Pages -> AnyPage]]
      /\ LastGoodRecordStands' /\ NothingActive' /\ OtherSector'
  BY <1>1, <1>2, <1>3, <1>4, SectorWrite DEF Inv
<1>6. CASE pc' = "program" /\ page' = 1 /\ new = Blank /\ UNCHANGED <<command, s_fault>>
  <2>1. TypeOK'
    BY <1>1, <1>5, <1>6 DEF Inv, TypeOK, Pages, NVM_RECORD_PAGES
  <2>2. Target' = Target /\ flash'[Target] = Blank
    BY <1>1, <1>2, <1>6, TargetFacts DEF Inv, TypeOK, Target
  <2>3. PagesWritten'
    BY <2>2 DEF PagesWritten, Blank
  <2>4. SaveStarted'
    BY <1>1, <1>3 DEF SaveStarted
  <2> QED BY <1>5, <2>1, <2>3, <2>4 DEF Inv
<1>7. CASE FailSave
  <2>1. TypeOK'
    BY <1>1, <1>5, <1>7 DEF Inv, TypeOK, FailSave, Commands, Pages, NVM_RECORD_PAGES
  <2>2. PagesWritten' /\ SaveStarted'
    BY <1>7 DEF FailSave, PagesWritten, SaveStarted
  <2> QED BY <1>5, <2>1, <2>2 DEF Inv
<1> QED BY <1>2, <1>6, <1>7

LEMMA ProgramStep ==
  ASSUME Inv, ProgramPage
  PROVE  Inv'
<1>1. /\ power /\ pc = "program"
      /\ UNCHANGED <<power, ram, statics, acked, tried>>
      /\ UNCHANGED <<s_haveActive, s_activeSector, s_activeSequence>>
  BY DEF ProgramPage, FailSave, statics
<1>2. PICK content \in {SaveRecord[page], Erased} \cup Torn(page) :
        flash' = Written(content)
  BY DEF ProgramPage
<1>3. /\ flash' \in [Sectors -> [Pages -> AnyPage]]
      /\ LastGoodRecordStands' /\ NothingActive' /\ OtherSector'
      /\ \A q \in Pages :
           flash'[Target][q] \in {SaveRecord[q], Erased} \cup Torn(q)
  BY <1>1, <1>2, PageWrite
<1>4. /\ page' \in Pages /\ pc' \in {"idle", "program", "verify"}
      /\ command' \in Commands /\ s_fault' \in BOOLEAN
  <2>1. page \in Pages /\ command \in Commands /\ s_fault \in BOOLEAN
    BY DEF Inv, TypeOK
  <2>2. CASE FailSave
    BY <2>1, <2>2 DEF FailSave, Commands
  <2>3. CASE /\ page' = IF page = NVM_RECORD_PAGES THEN 1 ELSE page + 1
             /\ pc' = IF page = NVM_RECORD_PAGES THEN "verify" ELSE "program"
             /\ UNCHANGED <<command, s_fault>>
    BY <2>1, <2>3 DEF Pages, NVM_RECORD_PAGES
  <2> QED BY <2>2, <2>3 DEF ProgramPage
<1>5. TypeOK'
  BY <1>1, <1>3, <1>4 DEF Inv, TypeOK
<1>6. SaveStarted'
  BY <1>1 DEF Inv, SaveStarted
<1>7. PagesWritten'
  <2>1. Target' = Target /\ SaveRecord' = SaveRecord
    BY <1>1 DEF Target, SaveRecord, SaveSequence
  <2> QED BY <1>3, <2>1 DEF PagesWritten
<1> QED BY <1>3, <1>5, <1>6, <1>7 DEF Inv

LEMMA VerifyStep ==
  ASSUME Inv, Verify
  PROVE  Inv'
<1>1. power /\ pc = "verify" /\ UNCHANGED <<flash, power, ram, page>> /\ pc' = "idle"
  BY DEF Verify, FailSave
<1>2. SaveStarted' /\ PagesWritten'
  BY <1>1 DEF SaveStarted, PagesWritten
<1>3. CASE ReadBackOk /\ ~FailSave
  <2>1. /\ s_haveActive' = TRUE /\ s_activeSector' = Target
        /\ s_activeSequence' = SaveSequence /\ s_fault' = FALSE
        /\ command' = "NONE" /\ acked' = ram /\ tried' = {}
        /\ flash[Target] = SaveRecord
    BY <1>3 DEF Verify, ReadBackOk
  <2>2. TypeOK'
    BY <1>1, <2>1, TargetFacts DEF Inv, TypeOK, Commands
  <2>3. holds(flash[Target], SaveSequence, ram)
    BY <2>1, TargetFacts, RecordType DEF Inv, TypeOK, SaveRecord
  <2>4. LastGoodRecordStands' /\ NothingActive'
    BY <1>1, <2>1, <2>3 DEF LastGoodRecordStands, NothingActive
  <2>5. OtherSector'
    <3>1. CASE s_haveActive
      <4>1. Target' = s_activeSector
        BY <2>1, <3>1, TargetFacts DEF Inv, Target, Sectors
      <4>2. flash[s_activeSector][2].seq = s_activeSequence
        BY <3>1 DEF Inv, LastGoodRecordStands, holds
      <4> QED BY <1>1, <2>1, <4>1, <4>2 DEF OtherSector, SaveSequence
    <3>2. CASE ~s_haveActive
      <4>1. Target' = 1
        BY <2>1, <3>2, TargetFacts DEF Inv, Target
      <4> QED BY <1>1, <3>2, <4>1 DEF Inv, NothingActive, OtherSector
    <3> QED BY <3>1, <3>2
  <2> QED BY <1>2, <2>2, <2>4, <2>5 DEF Inv
<1>4. CASE FailSave
  <2>1. /\ UNCHANGED <<s_haveActive, s_activeSector, s_activeSequence, acked, tried>>
        /\ s_fault' = TRUE /\ command' = "NONE"
    BY <1>4 DEF FailSave, statics
  <2>2. TypeOK'
    BY <1>1, <2>1 DEF Inv, TypeOK, Commands
  <2>3. LastGoodRecordStands' /\ NothingActive'
    BY <1>1, <2>1 DEF Inv, LastGoodRecordStands, NothingActive
  <2>4. OtherSector'
    BY <1>1, <2>1 DEF Inv, OtherSector, Target, SaveSequence
  <2> QED BY <1>2, <2>2, <2>3, <2>4 DEF Inv
<1> QED BY <1>3, <1>4 DEF Verify

LEMMA PowerLossStep ==
  ASSUME Inv, PowerLoss
  PROVE  Inv'
<1>1. /\ power /\ ~power' /\ power' \in BOOLEAN
      /\ UNCHANGED <<ram, command, statics, s_fault, pc, page, acked, tried>>
      /\ UNCHANGED <<s_haveActive, s_activeSector, s_activeSequence>>
  <2>1. power' = FALSE
    BY DEF PowerLoss
  <2> QED BY <2>1 DEF PowerLoss, statics
<1>2. /\ flash' \in [Sectors -> [Pages -> AnyPage]]
      /\ LastGoodRecordStands' /\ NothingActive' /\ OtherSector'
  <2>1. CASE pc = "erase"
    BY <1>1, <2>1, EraseWrite DEF PowerLoss
  <2>2. CASE pc = "program"
    BY <1>1, <2>2, PageWrite DEF PowerLoss
  <2>3. CASE pc \in {"idle", "verify"}
    <3>1. flash' = flash
      BY <2>3 DEF PowerLoss
    <3>2. LastGoodRecordStands' /\ NothingActive'
      BY <1>1, <3>1 DEF Inv, LastGoodRecordStands, NothingActive
    <3>3. OtherSector'
      BY <1>1, <3>1 DEF Inv, OtherSector, Target, SaveSequence
    <3> QED BY <3>1, <3>2, <3>3 DEF Inv, TypeOK
  <2> QED BY <2>1, <2>2, <2>3 DEF PowerLoss
<1>3. TypeOK'
  BY <1>1, <1>2 DEF Inv, TypeOK
<1>4. SaveStarted' /\ PagesWritten'
  BY <1>1 DEF Inv, SaveStarted, PagesWritten
<1> QED BY <1>2, <1>3, <1>4 DEF Inv

LEMMA InvStep ==
  ASSUME Inv, [Next]_vars
  PROVE  Inv'
<1>1. CASE XcpDownload \/ LoadDefaults \/ StartSave
  BY <1>1, IdleStep
<1>2. CASE EraseSector
  BY <1>2, EraseStep
<1>3. CASE ProgramPage
  BY <1>3, ProgramStep
<1>4. CASE Verify
  BY <1>4, VerifyStep
<1>5. CASE PowerLoss
  BY <1>5, PowerLossStep
<1>6. CASE Nvm_bootInit
  BY <1>6, BootStep
<1>7. CASE UNCHANGED vars
  <2>1. /\ UNCHANGED <<flash, power, ram, command, s_fault, pc, page, acked, tried>>
        /\ UNCHANGED <<s_haveActive, s_activeSector, s_activeSequence>>
    BY <1>7 DEF vars, statics
  <2>2. TypeOK'
    BY <2>1 DEF Inv, TypeOK
  <2>3. LastGoodRecordStands' /\ NothingActive' /\ SaveStarted'
    BY <2>1 DEF Inv, LastGoodRecordStands, NothingActive, SaveStarted
  <2>4. OtherSector'
    BY <2>1 DEF Inv, OtherSector, Target, SaveSequence
  <2>5. PagesWritten'
    BY <2>1 DEF Inv, PagesWritten, Target, SaveRecord, SaveSequence
  <2> QED BY <2>2, <2>3, <2>4, <2>5 DEF Inv
<1> QED BY <1>1, <1>2, <1>3, <1>4, <1>5, <1>6, <1>7 DEF Next, Task

-----------------------------------------------------------------------------
(* The theorems.                                                           *)

\* The inductive invariant holds of every run of Nvm.c, power losses included.
THEOREM Invariance == Spec => []Inv
<1>1. Init => Inv
  BY InvInit
<1>2. Inv /\ [Next]_vars => Inv'
  BY InvStep
<1> QED BY <1>1, <1>2, PTL DEF Spec

\* Every variable of Nvm.c keeps its type.
THEOREM TypeCorrect == Spec => []TypeOK
<1>1. Inv => TypeOK
  BY DEF Inv
<1> QED BY <1>1, Invariance, PTL

(* Nvm.h:31-33: a power loss during a save, in the middle of an erase or   *)
(* of a page, never destroys the last good record.                         *)
THEOREM RecordSafety == Spec => []LastGoodRecordStands
<1>1. Inv => LastGoodRecordStands
  BY DEF Inv
<1> QED BY <1>1, Invariance, PTL

(* The next boot comes up with the last acknowledged value or with one     *)
(* whose save was started since, also across the wrap of the sequence.     *)
THEOREM BootSafety == Spec => []BootsLastOrTried
<1>1. Inv => BootsLastOrTried
  BY BootChoice DEF BootsLastOrTried
<1> QED BY <1>1, Invariance, PTL

\* Every step of Nvm.c is a step of the store, or leaves it as it is.
LEMMA StoreStep ==
  ASSUME Inv, [Next]_vars
  PROVE  [Store!Next]_(Store!vars)
<1> DEFINE busy == power /\ pc # "idle"
<1>1. CASE XcpDownload \/ LoadDefaults
  <2>1. /\ power /\ power' = power /\ pc = "idle" /\ pc' = "idle"
        /\ ram' \in Values /\ UNCHANGED <<acked, tried>>
    BY <1>1, NvmAssumption DEF XcpDownload, LoadDefaults, Inv, TypeOK
  <2> QED BY <2>1 DEF Store!Next, Store!Edit, Store!vars
<1>2. CASE StartSave
  <2>1. /\ power /\ power' = power /\ pc = "idle" /\ pc' = "erase"
        /\ UNCHANGED <<ram, acked>> /\ tried' = tried \cup {ram}
    BY <1>2 DEF StartSave
  <2>2. ~busy /\ busy' = TRUE
    BY <2>1
  <2> QED BY <2>1, <2>2 DEF Store!Next, Store!Begin
<1>3. CASE EraseSector \/ ProgramPage \/ (Verify /\ FailSave)
  <2>1. /\ power /\ power' = power /\ pc # "idle"
        /\ UNCHANGED <<ram, acked, tried>>
    BY <1>3 DEF EraseSector, ProgramPage, Verify, FailSave
  <2>2. CASE pc' = "idle"
    <3>1. busy /\ busy' = FALSE
      BY <2>1, <2>2
    <3> QED BY <2>1, <3>1 DEF Store!Next, Store!Refuse
  <2>3. CASE pc' # "idle"
    <3>1. busy' = busy
      BY <2>1, <2>3
    <3> QED BY <2>1, <3>1 DEF Store!vars
  <2> QED BY <2>2, <2>3
<1>4. CASE Verify /\ ~FailSave
  <2>1. /\ power /\ power' = power /\ pc = "verify" /\ pc' = "idle"
        /\ acked' = ram /\ tried' = {} /\ ram' = ram
    BY <1>4 DEF Verify
  <2>2. busy /\ busy' = FALSE
    BY <2>1
  <2> QED BY <2>1, <2>2 DEF Store!Next, Store!Acknowledge
<1>5. CASE PowerLoss
  <2>1. power /\ power' = FALSE /\ UNCHANGED <<ram, acked, tried>>
    BY <1>5 DEF PowerLoss
  <2>2. busy' = FALSE
    BY <2>1
  <2>3. CASE busy
    BY <2>1, <2>2, <2>3 DEF Store!Next, Store!Refuse
  <2>4. CASE ~busy
    <3>1. busy' = busy
      BY <2>1, <2>4
    <3> QED BY <2>1, <3>1 DEF Store!vars
  <2> QED BY <2>3, <2>4
<1>6. CASE Nvm_bootInit
  <2>1. /\ acked' \in {acked} \cup tried /\ ram' = acked'
        /\ tried' = {} /\ pc' = "idle"
    BY <1>6, BootChoice DEF Nvm_bootInit
  <2>2. busy' = FALSE
    BY <2>1
  <2> QED BY <2>1, <2>2 DEF Store!Next, Store!Reboot
<1>7. CASE UNCHANGED vars
  BY <1>7 DEF vars, Store!vars
<1> QED BY <1>1, <1>2, <1>3, <1>4, <1>5, <1>6, <1>7 DEF Next, Task

(* Nvm.c with its two flash sectors, its partial writes and its boot       *)
(* implements the store that saves at once or not at all.                  *)
THEOREM Refinement == Spec => StoreSpec
<1>1. Init => Store!Init
  BY DEF Init, Store!Init
<1>2. Inv /\ [Next]_vars => [Store!Next]_(Store!vars)
  BY StoreStep
<1> QED BY <1>1, <1>2, Invariance, PTL DEF Spec, StoreSpec, Store!Spec
=============================================================================
