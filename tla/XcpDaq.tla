------------------------------- MODULE XcpDaq -------------------------------
(***************************************************************************)
(* The DAQ list of the XCP slave (Xcp.c): what each command does to the    *)
(* one dynamic list, and what the 100 ms task sends of it.  xcpRecv and    *)
(* xcpDaqCycle are called from tasks of the same scheduler, so both are    *)
(* one step.  Commands come from any UDP port: neither the sender nor      *)
(* whether it has connected is tested.                                     *)
(*                                                                         *)
(* A command shorter than the bytes its handler reads is executed with     *)
(* whatever the stack held there: it is one of the commands of its kind.   *)
(* The commands that leave the list alone (uploads, downloads, the         *)
(* information requests) are one, GET_STATUS.                              *)
(***************************************************************************)
EXTENDS Integers, Sequences

CONSTANTS
  XCP_DAQ_MAX_ODTS, XCP_DAQ_MAX_ENTRIES, XCP_DAQ_MAX_ODT_DATA,
  Objects,   \* what an entry may sample: an address and a size
  Size,      \* object -> bytes
  NoObject,  \* the address 0
  Clients, NoClient

Odts  == 0 .. (XCP_DAQ_MAX_ODTS - 1)
Slots == 0 .. (XCP_DAQ_MAX_ENTRIES - 1)

ASSUME XcpDaqAssumption ==
  /\ XCP_DAQ_MAX_ODTS \in Nat \ {0} /\ XCP_DAQ_MAX_ENTRIES \in Nat \ {0}
  /\ XCP_DAQ_MAX_ODT_DATA \in Nat
  /\ NoObject \notin Objects /\ Size \in [Objects \cup {NoObject} -> Nat]

VARIABLES
  daq,  \* entries, count per ODT, odts, allocated, running, ptr
  dest  \* s_masterAddr, s_masterPort

daqVars == <<daq, dest>>

DaqInit ==
  /\ daq = [entries |-> [o \in Odts |-> [e \in Slots |-> NoObject]],
            count |-> [o \in Odts |-> 0], odts |-> 0,
            allocated |-> FALSE, running |-> FALSE, ptr |-> <<0, 0>>]
  /\ dest = NoClient

-----------------------------------------------------------------------------
(* The commands, with the parameters that are read from them.              *)

Command(kind) == [cmd |-> kind]

Commands ==
  {Command(k) : k \in {"CONNECT", "DISCONNECT", "GET_STATUS", "SYNCH", "FREE_DAQ"}}
    \cup [cmd : {"ALLOC_DAQ"}, n : {1, 2}]
    \cup [cmd : {"ALLOC_ODT"}, n : 0 .. (XCP_DAQ_MAX_ODTS + 1)]
    \cup [cmd : {"ALLOC_ODT_ENTRY"}, odt : 0 .. XCP_DAQ_MAX_ODTS,
          n : 0 .. (XCP_DAQ_MAX_ENTRIES + 1)]
    \cup [cmd : {"SET_DAQ_PTR"}, odt : 0 .. XCP_DAQ_MAX_ODTS, entry : 0 .. XCP_DAQ_MAX_ENTRIES]
    \cup [cmd : {"WRITE_DAQ"}, obj : Objects \cup {NoObject}]
    \cup [cmd : {"START_STOP_DAQ_LIST", "START_STOP_SYNCH"}, mode : 0 .. 1]

\* Mutant: a running list goes on.
xcpDaqFree_KeepsRunning(d) ==
  [d EXCEPT !.allocated = FALSE, !.odts = 0, !.ptr = <<0, 0>>, !.count = [o \in Odts |-> 0]]

\* The entries are not cleared.
xcpDaqFree(d) ==
  [d EXCEPT !.running = FALSE, !.allocated = FALSE, !.odts = 0, !.ptr = <<0, 0>>,
            !.count = [o \in Odts |-> 0]]

\* XCP_ERR_OUT_OF_RANGE is answered, and nothing done.
OutOfRange(d, c) ==
  \/ c.cmd = "ALLOC_DAQ" /\ c.n # 1
  \/ /\ c.cmd \in {"ALLOC_ODT", "ALLOC_ODT_ENTRY", "SET_DAQ_PTR", "WRITE_DAQ",
                   "START_STOP_DAQ_LIST"}
     /\ ~d.allocated
  \/ c.cmd = "ALLOC_ODT" /\ c.n \notin 1 .. XCP_DAQ_MAX_ODTS
  \/ c.cmd = "ALLOC_ODT_ENTRY" /\ (c.odt >= d.odts \/ c.n \notin 1 .. XCP_DAQ_MAX_ENTRIES)
  \/ c.cmd = "SET_DAQ_PTR" /\ (c.odt >= d.odts \/ c.entry >= d.count[c.odt])
  \/ c.cmd = "WRITE_DAQ" /\ Size[c.obj] \notin 1 .. XCP_DAQ_MAX_ODT_DATA

\* Mutants: no auto-increment; past the last slot.
NextSlot_Same(e) == e
NextSlot_Past(e) == e + 1

NextSlot(e) == IF e < XCP_DAQ_MAX_ENTRIES - 1 THEN e + 1 ELSE e

WriteDaq(d, obj) ==
  [d EXCEPT !.entries[d.ptr[1]][d.ptr[2]] = obj,
            !.ptr = <<d.ptr[1], NextSlot(d.ptr[2])>>]

\* The list after a command that is in range.
Done(d, c) ==
  CASE c.cmd \in {"CONNECT", "DISCONNECT", "FREE_DAQ"} -> xcpDaqFree(d)
    [] c.cmd = "ALLOC_DAQ"           -> [d EXCEPT !.allocated = TRUE]
    [] c.cmd = "ALLOC_ODT"           -> [d EXCEPT !.odts = c.n]
    [] c.cmd = "ALLOC_ODT_ENTRY"     -> [d EXCEPT !.count[c.odt] = c.n]
    [] c.cmd = "SET_DAQ_PTR"         -> [d EXCEPT !.ptr = <<c.odt, c.entry>>]
    [] c.cmd = "WRITE_DAQ"           -> WriteDaq(d, c.obj)
    [] c.cmd = "START_STOP_DAQ_LIST" -> [d EXCEPT !.running = (c.mode = 1)]
    [] c.cmd = "START_STOP_SYNCH"    -> [d EXCEPT !.running = (c.mode = 1 /\ (@ \/ d.allocated))]
    [] OTHER -> d

Answer(d, c) == IF c.cmd = "SYNCH" \/ OutOfRange(d, c) THEN "err" ELSE "res"

xcpRecv(client, c) ==
  /\ daq' = IF OutOfRange(daq, c) THEN daq ELSE Done(daq, c)
  /\ dest' = IF c.cmd = "CONNECT" THEN client ELSE dest

-----------------------------------------------------------------------------
(* xcpDaqCycle.                                                            *)

\* Mutant: the last byte is left free.
Fits_Less(len, obj) == len + Size[obj] < XCP_DAQ_MAX_ODT_DATA

Fits(len, obj) == len + Size[obj] <= XCP_DAQ_MAX_ODT_DATA

\* What the first n entries of an ODT put into its frame.
Packed(d, odt, n) ==
  LET frame[i \in 0 .. n] ==
        IF i = 0 THEN [objs |-> <<>>, len |-> 0]
        ELSE LET f   == frame[i - 1]
                 obj == d.entries[odt][i - 1]
             IN  IF obj = NoObject \/ ~Fits(f.len, obj) THEN f
                 ELSE [objs |-> Append(f.objs, obj), len |-> f.len + Size[obj]]
  IN  frame[n]

Frame(d, odt) == [pid |-> odt, objs |-> Packed(d, odt, d.count[odt]).objs]

\* The frames of one cycle, in the order sent.
Frames(d) ==
  LET sent[n \in 0 .. d.odts] ==
        IF n = 0 THEN <<>>
        ELSE LET f == Frame(d, n - 1)
             IN  IF f.objs = <<>> THEN sent[n - 1] ELSE Append(sent[n - 1], f)
  IN  IF d.running THEN sent[d.odts] ELSE <<>>

-----------------------------------------------------------------------------
(* Any client sends any command.                                           *)
AnyCommand == \E client \in Clients, c \in Commands : xcpRecv(client, c)

DaqSpec == DaqInit /\ [][AnyCommand]_daqVars

(* No order of commands, whoever sends them, takes the write pointer, the  *)
(* counts or the entries the cycle copies out of the arrays; an allocation *)
(* that shrinks under the pointer included.                                *)
DaqInBounds ==
  /\ daq.ptr[1] \in Odts /\ daq.ptr[2] \in Slots
  /\ DOMAIN daq.entries = Odts
  /\ \A o \in Odts : DOMAIN daq.entries[o] = Slots
  /\ daq.odts \in 0 .. XCP_DAQ_MAX_ODTS
  /\ \A o \in Odts : daq.count[o] \in 0 .. XCP_DAQ_MAX_ENTRIES
  /\ daq.running => daq.allocated
=============================================================================
