------------------------------ MODULE XcpLink ------------------------------
(***************************************************************************)
(* The XCP slave and its master over UDP.  Datagrams are lost, none        *)
(* overtakes another on the cable.  The master is not part of the          *)
(* repository (a ground station, pyXCP): it configures the list command by *)
(* command and waits for each answer; when none comes within its second    *)
(* (tools/gen_a2l.py:379) it repeats the command or begins anew.  Answers  *)
(* do not name the command they belong to.  A frame is read by its PID     *)
(* alone, with the layout configured last.                                 *)
(***************************************************************************)
EXTENDS XcpDaq, SequencesExt

CONSTANTS
  Master,    \* the client that configures the list
  Plans,     \* layouts it may want: per ODT, the objects of its entries
  MaxQueue   \* bound: datagrams under way in either direction; more are lost

\* Entries that one frame holds: the running totals of their sizes do.
FitOneFrame(entries) ==
  \E load \in [0 .. Len(entries) -> 0 .. XCP_DAQ_MAX_ODT_DATA] :
    /\ load[0] = 0
    /\ \A i \in 1 .. Len(entries) : load[i] = load[i - 1] + Size[entries[i]]

\* The answer to CONNECT has told the master what a frame holds.
ASSUME XcpLinkAssumption ==
  /\ Master \in Clients /\ NoClient \notin Clients /\ MaxQueue \in Nat
  /\ \A p \in Plans :
       /\ p \in Seq(Seq(Objects)) /\ p # <<>>
       /\ \A o \in 1 .. Len(p) : FitOneFrame(p[o])

VARIABLES
  guest,     \* other clients send commands, and the master none
  toSlave, toMaster,
  plan,
  at,        \* the step of the dialogue
  phase      \* "send", "wait" for an answer, "stream"

masterVars == <<plan, at, phase>>
vars == <<daqVars, guest, toSlave, toMaster, masterVars>>

\* A step of a configuration: a command, about an ODT and an entry of it.
Step(cmd, odt, entry) == [cmd |-> cmd, odt |-> odt, entry |-> entry]

First == Step("CONNECT", 0, 0)

FollowingWrite(p, s) ==
  IF s.entry < Len(p[s.odt]) THEN Step("WRITE_DAQ", s.odt, s.entry + 1)
  ELSE IF s.odt < Len(p) THEN Step("SET_DAQ_PTR", s.odt + 1, 0)
  ELSE Step("START_STOP_DAQ_LIST", 0, 0)

Following(p, s) ==
  CASE s.cmd = "CONNECT"   -> Step("FREE_DAQ", 0, 0)
    [] s.cmd = "FREE_DAQ"  -> Step("ALLOC_DAQ", 0, 0)
    [] s.cmd = "ALLOC_DAQ" -> Step("ALLOC_ODT", 0, 0)
    [] s.cmd = "ALLOC_ODT" -> Step("ALLOC_ODT_ENTRY", 1, 0)
    [] s.cmd = "ALLOC_ODT_ENTRY" ->
         IF s.odt < Len(p) THEN Step("ALLOC_ODT_ENTRY", s.odt + 1, 0)
         ELSE Step("SET_DAQ_PTR", 1, 0)
    [] s.cmd \in {"SET_DAQ_PTR", "WRITE_DAQ"} -> FollowingWrite(p, s)

Datagram(p, s) ==
  CASE s.cmd = "ALLOC_DAQ" -> [cmd |-> s.cmd, n |-> 1]
    [] s.cmd = "ALLOC_ODT" -> [cmd |-> s.cmd, n |-> Len(p)]
    [] s.cmd = "ALLOC_ODT_ENTRY" -> [cmd |-> s.cmd, odt |-> s.odt - 1, n |-> Len(p[s.odt])]
    [] s.cmd = "SET_DAQ_PTR" -> [cmd |-> s.cmd, odt |-> s.odt - 1, entry |-> 0]
    [] s.cmd = "WRITE_DAQ" -> [cmd |-> s.cmd, obj |-> p[s.odt][s.entry]]
    [] s.cmd = "START_STOP_DAQ_LIST" -> [cmd |-> s.cmd, mode |-> 1]
    [] OTHER -> Command(s.cmd)

Init ==
  /\ DaqInit
  /\ guest \in BOOLEAN
  /\ toSlave = <<>> /\ toMaster = <<>>
  /\ plan \in Plans /\ at = First /\ phase = "send"

\* What does not fit on the way is lost.
Queued(q, msgs) == IF Len(q) + Len(msgs) <= MaxQueue THEN q \o msgs ELSE q

Guest ==
  /\ guest /\ AnyCommand
  /\ UNCHANGED <<guest, toSlave, toMaster, masterVars>>

-----------------------------------------------------------------------------
(* The slave.                                                              *)

Receive ==
  /\ toSlave # <<>>
  /\ LET c == Head(toSlave)
     IN  /\ xcpRecv(Master, c)
         /\ toMaster' = Queued(toMaster, <<[answer |-> Answer(daq, c)]>>)
  /\ toSlave' = Tail(toSlave)
  /\ UNCHANGED <<guest, masterVars>>

xcpDaqCycle ==
  /\ ~guest /\ dest = Master
  /\ toMaster' = Queued(toMaster, Frames(daq))
  /\ UNCHANGED <<daqVars, guest, toSlave, masterVars>>

Reboot ==
  /\ ~guest
  /\ daq' = [daq EXCEPT !.entries = [o \in Odts |-> [e \in Slots |-> NoObject]],
                        !.count = [o \in Odts |-> 0], !.odts = 0,
                        !.allocated = FALSE, !.running = FALSE, !.ptr = <<0, 0>>]
  /\ dest' = NoClient
  /\ UNCHANGED <<guest, toSlave, toMaster, masterVars>>

-----------------------------------------------------------------------------
(* The cable.                                                              *)

LoseCommand ==
  /\ \E i \in 1 .. Len(toSlave) : toSlave' = RemoveAt(toSlave, i)
  /\ UNCHANGED <<daqVars, guest, toMaster, masterVars>>

LoseAnswer ==
  /\ \E i \in 1 .. Len(toMaster) :
       "answer" \in DOMAIN toMaster[i] /\ toMaster' = RemoveAt(toMaster, i)
  /\ UNCHANGED <<daqVars, guest, toSlave, masterVars>>

\* Of the frames of one cycle.
LoseFrames ==
  /\ ~guest /\ dest = Master
  /\ Len(Frames(daq)) > 1
  /\ \E i \in 1 .. Len(Frames(daq)) : toMaster' = Queued(toMaster, <<Frames(daq)[i]>>)
  /\ UNCHANGED <<daqVars, guest, toSlave, masterVars>>

Lose == LoseCommand \/ LoseAnswer \/ LoseFrames

-----------------------------------------------------------------------------
(* The master.                                                             *)

Send ==
  /\ ~guest /\ phase = "send"
  /\ toSlave' = Queued(toSlave, <<Datagram(plan, at)>>)
  /\ phase' = "wait"
  /\ UNCHANGED <<daqVars, guest, toMaster, plan, at>>

TakeFrame ==
  /\ toMaster # <<>> /\ "pid" \in DOMAIN Head(toMaster)
  /\ toMaster' = Tail(toMaster)
  /\ UNCHANGED <<daqVars, guest, toSlave, masterVars>>

TakeAnswer ==
  /\ phase = "wait"
  /\ toMaster # <<>> /\ "answer" \in DOMAIN Head(toMaster)
  /\ toMaster' = Tail(toMaster)
  /\ \/ /\ Head(toMaster).answer = "err"
        /\ phase' = "send" /\ at' = First
     \/ /\ Head(toMaster).answer = "res" /\ at.cmd # "START_STOP_DAQ_LIST"
        /\ phase' = "send" /\ at' = Following(plan, at)
     \/ /\ Head(toMaster).answer = "res" /\ at.cmd = "START_STOP_DAQ_LIST"
        /\ phase' = "stream" /\ at' = at
  /\ UNCHANGED <<daqVars, guest, toSlave, plan>>

\* A repeated WRITE_DAQ would go to the next slot: the pointer is set again.
Repeated(s) == IF s.cmd = "WRITE_DAQ" THEN Step("SET_DAQ_PTR", s.odt, 0) ELSE s

NothingComes ==
  toSlave = <<>> /\ \A i \in 1 .. Len(toMaster) : "pid" \in DOMAIN toMaster[i]

Timeout ==
  /\ phase = "wait" /\ NothingComes
  /\ phase' = "send" /\ at' \in {First, Repeated(at)}
  /\ UNCHANGED <<daqVars, guest, toSlave, toMaster, plan>>

\* The user selects other signals.
Replan ==
  /\ phase = "stream"
  /\ plan' \in Plans
  /\ at' \in {First, Following(plan, First)} /\ phase' = "send"
  /\ UNCHANGED <<daqVars, guest, toSlave, toMaster>>

-----------------------------------------------------------------------------
Next ==
  \/ Guest \/ Receive \/ xcpDaqCycle \/ Reboot \/ Lose
  \/ Send \/ TakeFrame \/ TakeAnswer \/ Timeout \/ Replan

Spec == Init /\ [][Next]_vars

(* The tasks of the slave run, and the master goes on with its dialogue.   *)
FairSpec ==
  /\ Spec
  /\ WF_vars(Receive) /\ WF_vars(xcpDaqCycle)
  /\ WF_vars(Send) /\ WF_vars(TakeFrame \/ TakeAnswer) /\ WF_vars(Timeout)

-----------------------------------------------------------------------------
(* A frame the master takes as one of its list holds exactly the objects   *)
(* it configured for that PID, in their order: whatever was lost or late   *)
(* during the configuration, whatever an earlier one has left in the       *)
(* entries, and if the board restarted meanwhile.                          *)
DecodesAsConfigured ==
  [][TakeFrame /\ phase = "stream"
       => Head(toMaster).objs = plan[Head(toMaster).pid + 1]]_vars

(* From the answer to FREE_DAQ until START is sent no frame reaches the    *)
(* master: nothing is sent of a list under construction, and nothing of    *)
(* the one before is left on its way.                                      *)
SilentWhileConfiguring ==
  [][TakeFrame => at.cmd \in {"CONNECT", "FREE_DAQ", "START_STOP_DAQ_LIST"}]_vars

(* Once nothing more is lost and the master keeps its plan, every  *)
(* ODT of it arrives again and again.  It must have been connected since   *)
(* the last restart: the slave executes commands without, s_connected is   *)
(* tested nowhere, and then has no address to send frames to.              *)
Trouble == Reboot \/ Lose \/ Replan

Arrives(o) ==
  o <= Len(plan) => /\ phase = "stream" /\ toMaster # <<>>
                    /\ Head(toMaster) = [pid |-> o - 1, objs |-> plan[o]]

StreamFlows ==
  <>[][~Trouble]_vars /\ <>[](~guest /\ dest = Master) => \A o \in 1 .. 2 : []<>Arrives(o)
=============================================================================
