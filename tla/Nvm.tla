-------------------------------- MODULE Nvm --------------------------------
(***************************************************************************)
(* Nvm.c: the persistent parameter block, its SAVE/DFLT handshake and the  *)
(* two-sector DFLASH ping-pong, with a power loss between any two flash    *)
(* operations and in the middle of each one.                               *)
(*                                                                         *)
(* A record is four 8-byte pages, programmed in this order: magic, layout  *)
(* and length; sequence and CRC; the block's magic and command words; the  *)
(* two parameters, abstracted to one value.  Nvm_task100ms blocks CPU0     *)
(* until the save is over, so the operator edits only between saves.  The  *)
(* block's own magic word is outside the XCP write window, so the          *)
(* self-check at the end of the task never fires and is left out.          *)
(***************************************************************************)
EXTENDS Integers

CONSTANTS
  Values,    \* contents of the parameters
  Default,   \* what nvm_loadDefaults writes
  Zero,      \* the content whose page reads as erased flash (all words 0)
  SEQ_MOD    \* modulus of the record sequence (2^32)

ASSUME NvmAssumption ==
  /\ Default \in Values
  /\ Zero \in Values
  /\ SEQ_MOD \in Nat /\ SEQ_MOD >= 4

Sectors  == {0, 1}
Sequence == 0 .. (SEQ_MOD - 1)
Commands == {"NONE", "SAVE", "DFLT"}
NoSequence == SEQ_MOD

-----------------------------------------------------------------------------
(* Pages and records.                                                      *)

Page(kind, s, v) == [kind |-> kind, seq |-> s, val |-> v]

Erased  == Page("erased",  NoSequence, Zero)
Garbled == Page("garbled", NoSequence, Zero)
Header  == Page("header",  NoSequence, Zero)
OldHeader == Page("layout", NoSequence, Zero)   \* magic of a record of another layout
BadHeader == Page("length", NoSequence, Zero)   \* magic and layout, wrong length
Block   == Page("block",   NoSequence, Zero)
SeqPage(s, v) == Page("seq", s, v)              \* the CRC stands for the value
ValuePage(v)  == IF v = Zero THEN Erased ELSE Page("value", NoSequence, v)

AnyPage == [kind : {"erased", "garbled", "header", "layout", "length", "block",
                    "seq", "value"},
            seq  : 0 .. SEQ_MOD,
            val  : Values]

Record(s, v) == <<Header, SeqPage(s, v), Block, ValuePage(v)>>

NVM_RECORD_PAGES == 4
Pages == 1 .. NVM_RECORD_PAGES
Blank == [p \in Pages |-> Erased]

\* What a page can hold when its erase or program operation did not complete.
Torn(p) == IF p = 1 THEN {Garbled, OldHeader, BadHeader} ELSE {Garbled}

\* nvm_classify
valid(sec) ==
  /\ sec[1] = Header /\ sec[3] = Block
  /\ sec[2].kind = "seq" /\ sec[4] = ValuePage(sec[2].val)
holds(sec, s, v) == valid(sec) /\ sec[2].seq = s /\ sec[2].val = v
corrupt(sec) == sec[1] = BadHeader \/ (sec[1] = Header /\ ~valid(sec))

\* The 32-bit increment and comparison of the sequence.
NextSequence(s) == IF s + 1 = SEQ_MOD THEN 0 ELSE s + 1
Diff(a, b)      == IF a >= b THEN a - b ELSE a - b + SEQ_MOD

\* Mutant: the plain comparison, which a wrapped sequence defeats.
Newer_Plain(a, b) == a > b

Newer(a, b) == 2 * Diff(a, b) < SEQ_MOD

-----------------------------------------------------------------------------
VARIABLES
  flash,             \* the two DFLASH sectors
  power,             \* the controller runs
  ram, command,      \* g_xcpNvm
  s_haveActive, s_activeSector, s_activeSequence, s_fault,
  pc,                \* where Nvm_task100ms stands: idle, erase, program or verify
  page,              \* next page to program
  \* history variables
  acked,             \* last value acknowledged to the operator or booted
  tried              \* values of the unacknowledged saves since then

statics == <<s_haveActive, s_activeSector, s_activeSequence>>
vars == <<flash, power, ram, command, statics, s_fault, pc, page, acked, tried>>

\* A board whose DFLASH is blank or holds records of an older layout.
Init ==
  /\ flash \in [Sectors -> {Blank, [Blank EXCEPT ![1] = OldHeader]}]
  /\ power = TRUE
  /\ ram = Default /\ command = "NONE"
  /\ s_haveActive = FALSE /\ s_activeSector = 0 /\ s_activeSequence = 0
  /\ s_fault = FALSE
  /\ pc = "idle" /\ page = 1
  /\ acked = Default /\ tried = {}

-----------------------------------------------------------------------------
(* The operator, between two runs of the task.                             *)

XcpDownload ==
  /\ power /\ pc = "idle"
  /\ \/ ram' \in Values /\ UNCHANGED command
     \/ command' \in Commands /\ UNCHANGED ram
  /\ UNCHANGED <<flash, power, statics, s_fault, pc, page, acked, tried>>

-----------------------------------------------------------------------------
(* Nvm_task100ms and nvm_saveBlock.                                        *)

LoadDefaults ==
  /\ power /\ pc = "idle" /\ command = "DFLT"
  /\ ram' = Default /\ command' = "NONE"
  /\ UNCHANGED <<flash, power, statics, s_fault, pc, page, acked, tried>>

StartSave ==
  /\ power /\ pc = "idle" /\ command = "SAVE"
  /\ pc' = "erase"
  /\ tried' = tried \cup {ram}
  /\ UNCHANGED <<flash, power, ram, command, statics, s_fault, page, acked>>

\* Mutant: always the first sector.
Target_First == 0

Target       == IF s_haveActive THEN 1 - s_activeSector ELSE 0
SaveSequence == NextSequence(s_activeSequence)
SaveRecord   == Record(SaveSequence, ram)

\* Mutant: a failed save leaves the command word to try again.
FailSave_Retry ==
  /\ pc' = "idle" /\ s_fault' = TRUE
  /\ UNCHANGED <<power, ram, command, statics, page, acked, tried>>

FailSave ==
  /\ pc' = "idle" /\ s_fault' = TRUE /\ command' = "NONE"
  /\ UNCHANGED <<power, ram, statics, page, acked, tried>>

(* What an interrupted or failed erase can leave of a sector.  The erase   *)
(* weakens all cells of the sector alike: either no page has lost its      *)
(* content yet, or none has kept it.                                       *)
HalfErased(sec) ==
  {sec} \cup {<<p1, p2, p3, p4>> :
     p1 \in {Erased} \cup Torn(1), p2 \in {Erased} \cup Torn(2),
     p3 \in {Erased} \cup Torn(3), p4 \in {Erased} \cup Torn(4)}

EraseSector ==
  /\ power /\ pc = "erase"
  /\ \/ /\ flash' = [flash EXCEPT ![Target] = Blank]
        /\ pc' = "program" /\ page' = 1
        /\ UNCHANGED <<power, ram, command, statics, s_fault, acked, tried>>
     \/ /\ \E sec \in HalfErased(flash[Target]) : flash' = [flash EXCEPT ![Target] = sec]
        /\ FailSave

\* The content of the page being programmed, for a write of that outcome.
Written(content) == [flash EXCEPT ![Target][page] = content]

(* A page the driver reports programmed may still read back wrong; a write *)
(* it reports failed may still have gone through.                          *)
ProgramPage ==
  /\ power /\ pc = "program"
  /\ \/ /\ \E content \in {SaveRecord[page]} \cup Torn(page) : flash' = Written(content)
        /\ page' = IF page = NVM_RECORD_PAGES THEN 1 ELSE page + 1
        /\ pc' = IF page = NVM_RECORD_PAGES THEN "verify" ELSE "program"
        /\ UNCHANGED <<power, ram, command, statics, s_fault, acked, tried>>
     \/ /\ \E content \in {SaveRecord[page], Erased} \cup Torn(page) :
             flash' = Written(content)
        /\ FailSave

ReadBackOk == flash[Target] = SaveRecord

Verify ==
  /\ power /\ pc = "verify"
  /\ \/ /\ ReadBackOk
        /\ s_haveActive' = TRUE
        /\ s_activeSector' = Target
        /\ s_activeSequence' = SaveSequence
        /\ s_fault' = FALSE /\ command' = "NONE"
        /\ pc' = "idle"
        /\ acked' = ram /\ tried' = {}
        /\ UNCHANGED <<power, ram, page>>
     \/ ~ReadBackOk /\ FailSave
  /\ UNCHANGED flash

-----------------------------------------------------------------------------
(* Power loss, in the middle of a flash operation or not, and the boot.    *)

PowerLoss ==
  /\ power /\ power' = FALSE
  /\ \/ /\ pc = "erase"
        /\ \E sec \in HalfErased(flash[Target]) : flash' = [flash EXCEPT ![Target] = sec]
     \/ /\ pc = "program"
        /\ \E content \in {SaveRecord[page], Erased} \cup Torn(page) :
             flash' = Written(content)
     \/ /\ pc \in {"idle", "verify"}
        /\ UNCHANGED flash
  /\ UNCHANGED <<ram, command, statics, s_fault, pc, page, acked, tried>>

\* The sector whose record Nvm_bootInit loads, out of the valid ones.
BootSector ==
  IF valid(flash[0]) /\ (valid(flash[1]) => ~Newer(flash[1][2].seq, flash[0][2].seq))
  THEN 0 ELSE 1
BootValid == valid(flash[0]) \/ valid(flash[1])

\* The value a boot would come up with.
BootValue == IF BootValid THEN flash[BootSector][2].val ELSE Default

Nvm_bootInit ==
  /\ ~power /\ power' = TRUE
  /\ s_haveActive' = BootValid
  /\ s_activeSector' = IF BootValid THEN BootSector ELSE 0
  /\ s_activeSequence' = IF BootValid THEN flash[BootSector][2].seq ELSE 0
  /\ ram' = BootValue /\ command' = "NONE"
  /\ s_fault' = (~BootValid /\ \E i \in Sectors : corrupt(flash[i]))
  /\ pc' = "idle" /\ page' = 1
  /\ acked' = BootValue /\ tried' = {}
  /\ UNCHANGED flash

Task == LoadDefaults \/ StartSave \/ EraseSector \/ ProgramPage \/ Verify

Next == XcpDownload \/ Task \/ PowerLoss \/ Nvm_bootInit

(* The scheduler calls the task for ever, and somebody switches the board  *)
(* on again; a power loss is never owed.                                   *)
Fairness == WF_vars(Task) /\ WF_vars(Nvm_bootInit)

Spec     == Init /\ [][Next]_vars
FairSpec == Spec /\ Fairness

-----------------------------------------------------------------------------
TypeOK ==
  /\ power \in BOOLEAN /\ ram \in Values /\ command \in Commands
  /\ s_haveActive \in BOOLEAN /\ s_activeSector \in Sectors
  /\ s_activeSequence \in Sequence /\ s_fault \in BOOLEAN
  /\ pc \in {"idle", "erase", "program", "verify"} /\ page \in Pages
  /\ acked \in Values /\ tried \subseteq Values
  /\ flash \in [Sectors -> [Pages -> AnyPage]]

(* Nvm.h:31-33, "a power loss during a save can never destroy the last     *)
(* good record": the record of the last acknowledged value stands complete *)
(* in its sector in every state, in the middle of a save and while the     *)
(* board is dark.                                                          *)
LastGoodRecordStands ==
  s_haveActive => holds(flash[s_activeSector], s_activeSequence, acked)

(* A boot comes up with the last acknowledged value, or with one whose     *)
(* save was started after it: nothing older, nothing mixed, no record of a *)
(* wrapped sequence taken for a newer one.                                 *)
BootsLastOrTried ==
  ~power => BootValue \in {acked} \cup tried

(* The block as its users see it.                                          *)
Store == INSTANCE NvmStore WITH stored <- acked, busy <- power /\ pc # "idle"

\* Nvm.c with its flash implements the store that saves at once or not at all.
StoreSpec == Store!Spec

(* The handshake of the command word: the master that wrote SAVE sees the  *)
(* word cleared, whether the flash works, fails or loses power.            *)
SaveAnswered == command = "SAVE" ~> command # "SAVE"
=============================================================================
