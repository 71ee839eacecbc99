------------------------------- MODULE Latch -------------------------------
(***************************************************************************)
(* The one-writer objects in the shared LMU block (SharedRam.h) and their  *)
(* generation protocol: g_navState, written by CPU1 and read by            *)
(* Housekeeping_100ms on CPU0, and g_baroLatch, g_gnssLatch and g_magLatch, *)
(* written by the sensor tasks of CPU0 and read by NavTask_step on CPU1.   *)
(*                                                                         *)
(* The writer stores payload words, executes the barrier and increments    *)
(* gen; the reader on the other core reads gen, copies the words, and      *)
(* accepts the copy when gen has not moved.  One shared access per step.   *)
(* Stores reach the LMU in any order between two barriers.  A word's       *)
(* content is the number of the publish that last stored it, so a word of  *)
(* a given publish is told from every other.                               *)
(***************************************************************************)
EXTENDS Integers

CONSTANTS
  Words,       \* the payload words of the object
  Payloads,    \* sets of words one publish may store
  GEN_MOD,     \* modulus of gen (2^32)
  MaxStall,    \* bound: most publishes finished during one copy
  MaxPublish   \* bound: publishes in a run

ASSUME LatchAssumption ==
  /\ Payloads \subseteq SUBSET Words
  /\ MaxPublish \in Nat
  /\ MaxStall \in Nat /\ GEN_MOD \in Nat /\ MaxStall < GEN_MOD

VARIABLES
  fused,      \* a latch of Fusion_update (baro, GNSS): its consumer takes a
              \* generation only once, and its writer is the slower one
  object,     \* word -> content, as the other core sees it
  gen,
  storing,    \* the writer is between its first store and the new gen
  buffered,   \* words whose store is still in the store buffer
  rpc,        \* the reader: idle, before reading gen, or copying
  attempt,    \* 1 or 2 within a get
  genBefore,
  left,       \* words still to copy
  copy,       \* the caller's candidate
  taken,      \* the consumer's last-good snapshot
  lastGen,    \* and its generation
  \* history variables
  published,  \* publishes finished
  committed,  \* contents of the object after the last of them
  intended,   \* contents the one under way will leave
  stall       \* publishes finished since genBefore was read

writer  == <<fused, object, gen, storing, buffered, published, committed, intended>>
reader  == <<rpc, attempt, genBefore, left, copy, taken, lastGen>>
vars    == <<writer, reader, stall>>

NextGen(g) == IF g + 1 = GEN_MOD THEN 0 ELSE g + 1

Zeroed == [w \in Words |-> 0]

Init ==
  /\ fused \in BOOLEAN
  /\ object = Zeroed /\ gen = 0 /\ storing = FALSE /\ buffered = {}
  /\ rpc = "idle" /\ attempt = 1 /\ genBefore = 0 /\ left = {}
  /\ copy = Zeroed /\ taken = Zeroed /\ lastGen = 0
  /\ published = 0 /\ committed = Zeroed /\ intended = Zeroed /\ stall = 0

-----------------------------------------------------------------------------
(* The writer: NavState_publish, Fusion_setBaroAlt, Fusion_setGnss,        *)
(* Ahrs_setMag.                                                            *)

BeginPublish ==
  /\ ~storing /\ buffered = {}
  /\ published < MaxPublish
  /\ fused => lastGen = gen
  /\ \E ws \in Payloads :
       /\ buffered' = ws
       /\ intended' = [w \in Words |-> IF w \in ws THEN published + 1 ELSE committed[w]]
  /\ storing' = TRUE
  /\ UNCHANGED <<fused, object, gen, published, committed, reader, stall>>

StoreReachesLmu ==
  /\ \E w \in buffered :
       /\ object'   = [object EXCEPT ![w] = intended[w]]
       /\ buffered' = buffered \ {w}
  /\ UNCHANGED <<fused, gen, storing, published, committed, intended, reader, stall>>

Drained == buffered = {}

FinishPublish ==
  /\ storing /\ Drained
  /\ rpc = "copy" => stall < MaxStall
  /\ gen' = NextGen(gen)
  /\ storing' = FALSE
  /\ published' = published + 1
  /\ committed' = intended
  /\ stall' = IF rpc = "copy" THEN stall + 1 ELSE 0
  /\ UNCHANGED <<fused, object, buffered, intended, reader>>

-----------------------------------------------------------------------------
(* The reader: NavState_get, baroLatch_get, gnssLatch_get, ahrs_refreshMag. *)

BeginGet ==
  /\ rpc = "idle"
  /\ rpc' = "gen" /\ attempt' = 1
  /\ UNCHANGED <<writer, genBefore, left, copy, taken, lastGen, stall>>

ReadGen ==
  /\ rpc = "gen"
  /\ rpc' = "copy" /\ genBefore' = gen /\ left' = Words /\ stall' = 0
  /\ UNCHANGED <<writer, attempt, copy, taken, lastGen>>

CopyWord ==
  /\ rpc = "copy"
  /\ \E w \in left :
       /\ copy' = [copy EXCEPT ![w] = object[w]]
       /\ left' = left \ {w}
  /\ UNCHANGED <<writer, rpc, attempt, genBefore, taken, lastGen, stall>>

\* Mutants: the second attempt is accepted anyway; every get is new; a larger gen is.
Accepted_Last == gen = genBefore \/ attempt = 2
IsNew_Always  == TRUE
IsNew_Greater == fused => genBefore > lastGen

Accepted == gen = genBefore

\* What Fusion_update asks before it fuses a sample; the others ask nothing.
IsNew == fused => genBefore # lastGen

CheckGen ==
  /\ rpc = "copy" /\ left = {}
  /\ \/ /\ Accepted
        /\ rpc' = "idle"
        /\ \/ IsNew /\ taken' = copy /\ lastGen' = genBefore
           \/ ~IsNew /\ UNCHANGED <<taken, lastGen>>
        /\ UNCHANGED attempt
     \/ /\ ~Accepted
        /\ rpc' = IF attempt = 1 THEN "gen" ELSE "idle"
        /\ attempt' = 2
        /\ UNCHANGED <<taken, lastGen>>
  /\ UNCHANGED <<writer, genBefore, left, copy, stall>>

-----------------------------------------------------------------------------
Writer == BeginPublish \/ StoreReachesLmu \/ FinishPublish
Reader == BeginGet \/ ReadGen \/ CopyWord \/ CheckGen

Next == Writer \/ Reader

(* Both cores run; the writer owes no new publish, but ends the one it     *)
(* began.                                                                  *)
Fairness == /\ WF_vars(StoreReachesLmu \/ FinishPublish)
            /\ WF_vars(Reader)

Spec     == Init /\ [][Next]_vars
FairSpec == Spec /\ Fairness

-----------------------------------------------------------------------------
Contents == [Words -> 0 .. MaxPublish]

TypeOK ==
  /\ fused \in BOOLEAN
  /\ object \in Contents /\ copy \in Contents /\ taken \in Contents
  /\ committed \in Contents /\ intended \in Contents
  /\ gen \in 0 .. (GEN_MOD - 1) /\ genBefore \in 0 .. (GEN_MOD - 1)
  /\ lastGen \in 0 .. (GEN_MOD - 1)
  /\ storing \in BOOLEAN /\ buffered \subseteq Words
  /\ rpc \in {"idle", "gen", "copy"} /\ attempt \in 1 .. 2 /\ left \subseteq Words
  /\ published \in 0 .. MaxPublish /\ stall \in 0 .. MaxStall

(* What the generation check is worth by itself: every word the consumer   *)
(* takes is the one of the last finished publish or of the one under way,  *)
(* never an older one, whatever the reader was overtaken by.               *)
NothingStaleTaken ==
  [][taken' # taken =>
       \A w \in Words : taken'[w] \in {committed[w], intended[w]}]_vars

(* The latches of Fusion_update, as long as the consumer keeps pace with   *)
(* the producer: what is fused is exactly one finished publish.  A copy    *)
(* torn by the next one carries the generation already fused and is        *)
(* dropped.                                                                *)
FusedSampleIsWhole ==
  [][fused /\ taken' # taken => taken' = committed]_vars

(* A failed or torn get heals: once the writer pauses, the consumer ends   *)
(* up with the last publish, entire, whatever gen has wrapped to.          *)
ConsumerCatchesUp == <>[](taken = committed)

(* NavState.h:111, "read gen -> copy payload -> re-read gen; if they   *)
(* match, the copy is consistent": a copy made while the payload of the    *)
(* next publish is being stored sees the same gen twice and mixes the two. *)
AcceptedCopyIsConsistent ==
  [][taken' # taken => taken' \in {committed, intended}]_vars
=============================================================================
