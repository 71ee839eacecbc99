------------------------------ MODULE XcpProofs ------------------------------
(***************************************************************************)
(* The DAQ list stays inside its arrays under every order of commands      *)
(* (XcpDaq), and the frames that reach a master are those it configured,   *)
(* whatever is lost on the way (XcpLink): for every size of the arrays,    *)
(* every plan that fits and every length of the queues.  What the loops of *)
(* xcpDaqCycle put into a frame is proved by induction on their index.     *)
(***************************************************************************)
EXTENDS XcpLink, WellFoundedInduction, NaturalsInduction, TLAPS

-----------------------------------------------------------------------------
(* Induction, stated for a set: its first element outside has none before. *)

Smaller == {pair \in Nat \X Nat : pair[1] < pair[2]}

(* The order of the naturals, as a set of pairs, is well-founded.          *)
LEMMA SmallerIsWellFounded == IsWellFoundedOn(Smaller, Nat)
  <1>1. OpToRel(<, Nat) = Smaller
    BY DEF OpToRel, Smaller
  <1> QED
    BY <1>1, NatLessThanWellFounded

(* A set with 0 and the successor of each of its numbers holds them all.   *)
LEMMA Induction ==
  ASSUME NEW S, 0 \in S, \A n \in Nat : n \in S => n + 1 \in S
  PROVE  Nat \subseteq S
  <1> SUFFICES ASSUME Nat \ S # {} PROVE FALSE
    OBVIOUS
  <1>1. PICK m \in Nat \ S : \A k \in Nat \ S : <<k, m>> \notin Smaller
    BY SmallerIsWellFounded, WFMin
  <1>2. m # 0 /\ m - 1 \in Nat
    BY <1>1
  <1>3. <<m - 1, m>> \in Smaller
    BY <1>2 DEF Smaller
  <1>4. m - 1 \in S
    BY <1>1, <1>2, <1>3
  <1> QED
    BY <1>1, <1>2, <1>4

-----------------------------------------------------------------------------
(* The list under any command.                                             *)

Lists ==
  [entries : [Odts -> [Slots -> Objects \cup {NoObject}]],
   count : [Odts -> 0 .. XCP_DAQ_MAX_ENTRIES], odts : 0 .. XCP_DAQ_MAX_ODTS,
   allocated : BOOLEAN, running : BOOLEAN, ptr : Odts \X Slots]

Consistent(d) == d \in Lists /\ (d.running => d.allocated)

DaqInv == Consistent(daq)

(* The commands with any number in them: a plan may be larger than the     *)
(* arrays.                                                                 *)
Requests ==
  {Command(k) : k \in {"CONNECT", "DISCONNECT", "GET_STATUS", "SYNCH", "FREE_DAQ"}}
    \cup [cmd : {"ALLOC_DAQ", "ALLOC_ODT"}, n : Nat]
    \cup [cmd : {"ALLOC_ODT_ENTRY"}, odt : Nat, n : Nat]
    \cup [cmd : {"SET_DAQ_PTR"}, odt : Nat, entry : Nat]
    \cup [cmd : {"WRITE_DAQ"}, obj : Objects \cup {NoObject}]
    \cup [cmd : {"START_STOP_DAQ_LIST", "START_STOP_SYNCH"}, mode : 0 .. 1]

(* Commands are requests.                                                  *)
LEMMA CommandsAreRequests == Commands \subseteq Requests
  BY XcpDaqAssumption DEF Commands, Requests

(* The first entry of the first ODT, where xcpDaqFree leaves the pointer,  *)
(* exists.                                                                 *)
LEMMA Origin == <<0, 0>> \in Odts \X Slots
  <1>1. 0 \in Odts /\ 0 \in Slots
    BY XcpDaqAssumption DEF Odts, Slots
  <1> QED
    BY <1>1

(* The initial list, as the linker clears it, is consistent.               *)
LEMMA EmptyList == DaqInit => DaqInv
  <1> SUFFICES ASSUME DaqInit PROVE DaqInv
    OBVIOUS
  <1>1. XCP_DAQ_MAX_ENTRIES \in Nat /\ XCP_DAQ_MAX_ODTS \in Nat
    BY XcpDaqAssumption
  <1>2. [o \in Odts |-> [e \in Slots |-> NoObject]] \in [Odts -> [Slots -> Objects \cup {NoObject}]]
    OBVIOUS
  <1>3. [o \in Odts |-> 0] \in [Odts -> 0 .. XCP_DAQ_MAX_ENTRIES]
    BY <1>1
  <1>4. 0 \in 0 .. XCP_DAQ_MAX_ODTS
    BY <1>1
  <1> QED
    BY <1>2, <1>3, <1>4, Origin DEF DaqInit, DaqInv, Consistent, Lists

(* xcpDaqFree leaves a list that is consistent, whatever it was before.    *)
LEMMA FreeKeeps ==
  ASSUME NEW d, Consistent(d)
  PROVE  Consistent(xcpDaqFree(d))
  <1>1. XCP_DAQ_MAX_ENTRIES \in Nat /\ XCP_DAQ_MAX_ODTS \in Nat
    BY XcpDaqAssumption
  <1>2. [o \in Odts |-> 0] \in [Odts -> 0 .. XCP_DAQ_MAX_ENTRIES]
    BY <1>1
  <1>3. 0 \in 0 .. XCP_DAQ_MAX_ODTS
    BY <1>1
  <1> QED
    BY <1>2, <1>3, Origin DEF Consistent, Lists, xcpDaqFree

(* The auto-increment of WRITE_DAQ stays inside the ODT.                   *)
LEMMA NextSlotInside == \A e \in Slots : NextSlot(e) \in Slots
  BY XcpDaqAssumption DEF Slots, NextSlot

(* WRITE_DAQ stores an object where the pointer stands, and moves it on.   *)
LEMMA WriteKeeps ==
  ASSUME NEW d, Consistent(d), NEW obj \in Objects \cup {NoObject}
  PROVE  Consistent(WriteDaq(d, obj))
  <1>1. d.ptr[1] \in Odts /\ d.ptr[2] \in Slots
    BY DEF Consistent, Lists
  <1>2. <<d.ptr[1], NextSlot(d.ptr[2])>> \in Odts \X Slots
    BY <1>1, NextSlotInside
  <1>3. [d.entries EXCEPT ![d.ptr[1]][d.ptr[2]] = obj]
          \in [Odts -> [Slots -> Objects \cup {NoObject}]]
    BY <1>1 DEF Consistent, Lists
  <1> QED
    BY <1>2, <1>3 DEF Consistent, Lists, WriteDaq

(* Every command that is not refused leaves a consistent list.             *)
LEMMA DoneKeeps ==
  ASSUME NEW d, Consistent(d), NEW c \in Requests, ~OutOfRange(d, c)
  PROVE  Consistent(Done(d, c))
  <1>1. XCP_DAQ_MAX_ENTRIES \in Nat /\ XCP_DAQ_MAX_ODTS \in Nat
    BY XcpDaqAssumption
  <1>2. CASE c.cmd \in {"CONNECT", "DISCONNECT", "FREE_DAQ"}
    BY <1>2, FreeKeeps DEF Done
  <1>3. CASE c.cmd = "ALLOC_DAQ"
    <2>1. Done(d, c) = [d EXCEPT !.allocated = TRUE]
      BY <1>3 DEF Done
    <2> QED
      BY <2>1 DEF Consistent, Lists
  <1>4. CASE c.cmd = "ALLOC_ODT"
    <2>1. Done(d, c) = [d EXCEPT !.odts = c.n]
      BY <1>4 DEF Done
    <2>2. c.n \in 0 .. XCP_DAQ_MAX_ODTS
      BY <1>1, <1>4 DEF OutOfRange
    <2> QED
      BY <2>1, <2>2 DEF Consistent, Lists
  <1>5. CASE c.cmd = "ALLOC_ODT_ENTRY"
    <2>1. Done(d, c) = [d EXCEPT !.count[c.odt] = c.n]
      BY <1>5 DEF Done
    <2>2. c.n \in 0 .. XCP_DAQ_MAX_ENTRIES
      BY <1>1, <1>5 DEF OutOfRange
    <2>3. [d.count EXCEPT ![c.odt] = c.n] \in [Odts -> 0 .. XCP_DAQ_MAX_ENTRIES]
      BY <2>2 DEF Consistent, Lists
    <2> QED
      BY <2>1, <2>3 DEF Consistent, Lists
  <1>6. CASE c.cmd = "SET_DAQ_PTR"
    <2>1. Done(d, c) = [d EXCEPT !.ptr = <<c.odt, c.entry>>]
      BY <1>6 DEF Done
    <2>2. c.odt \in Nat /\ c.entry \in Nat
      BY <1>1, <1>6 DEF Requests, Command
    <2>3. c.odt < d.odts /\ d.odts \in 0 .. XCP_DAQ_MAX_ODTS
      BY <1>6, <2>2 DEF OutOfRange, Consistent, Lists
    <2>4. c.odt \in Odts
      BY <1>1, <2>2, <2>3 DEF Odts
    <2>5. d.count[c.odt] \in 0 .. XCP_DAQ_MAX_ENTRIES
      BY <2>4 DEF Consistent, Lists
    <2>6. c.entry < d.count[c.odt]
      BY <1>6, <2>2, <2>5 DEF OutOfRange
    <2>7. c.entry \in Slots
      BY <1>1, <2>2, <2>5, <2>6 DEF Slots
    <2> QED
      BY <2>1, <2>4, <2>7 DEF Consistent, Lists
  <1>7. CASE c.cmd = "WRITE_DAQ"
    <2>1. c.obj \in Objects \cup {NoObject}
      BY <1>7 DEF Requests, Command
    <2> QED
      BY <1>7, <2>1, WriteKeeps DEF Done
  <1>8. CASE c.cmd = "START_STOP_DAQ_LIST"
    <2>1. Done(d, c) = [d EXCEPT !.running = (c.mode = 1)] /\ d.allocated
      BY <1>8 DEF Done, OutOfRange
    <2> QED
      BY <2>1 DEF Consistent, Lists
  <1>9. CASE c.cmd = "START_STOP_SYNCH"
    <2>1. Done(d, c) = [d EXCEPT !.running = (c.mode = 1 /\ (d.running \/ d.allocated))]
      BY <1>9 DEF Done, Consistent, Lists
    <2> QED
      BY <2>1 DEF Consistent, Lists
  <1>10. CASE c.cmd \in {"GET_STATUS", "SYNCH"}
    BY <1>10 DEF Done
  <1> QED
    BY <1>2, <1>3, <1>4, <1>5, <1>6, <1>7, <1>8, <1>9, <1>10 DEF Requests, Command

(* The list is consistent at all times, whatever the clients send.         *)
THEOREM Invariance == DaqSpec => []DaqInv
  <1>1. DaqInv /\ [AnyCommand]_daqVars => DaqInv'
    <2> SUFFICES ASSUME DaqInv, [AnyCommand]_daqVars PROVE DaqInv'
      OBVIOUS
    <2>1. CASE UNCHANGED daqVars
      BY <2>1 DEF daqVars, DaqInv
    <2>2. CASE AnyCommand
      <3>1. PICK client \in Clients, c \in Commands : xcpRecv(client, c)
        BY <2>2 DEF AnyCommand
      <3>2. CASE OutOfRange(daq, c)
        BY <3>1, <3>2 DEF xcpRecv, DaqInv
      <3>3. CASE ~OutOfRange(daq, c)
        BY <3>1, <3>3, DoneKeeps, CommandsAreRequests DEF xcpRecv, DaqInv
      <3> QED
        BY <3>2, <3>3
    <2> QED
      BY <2>1, <2>2
  <1> QED
    BY <1>1, EmptyList, PTL DEF DaqSpec

(* The write pointer, the counts and the entries that xcpDaqCycle copies   *)
(* stay inside the arrays, for every order of commands of any clients and  *)
(* every size of the arrays.                                               *)
THEOREM Bounds == DaqSpec => []DaqInBounds
  <1>1. DaqInv => DaqInBounds
    BY DEF DaqInv, Consistent, Lists, DaqInBounds
  <1> QED
    BY <1>1, Invariance, PTL

-----------------------------------------------------------------------------
(* The loops of xcpDaqCycle.                                               *)

(* The entries of an ODT that match the list of objects es, if that fits,  *)
(* are packed into its frame all, in their order.                          *)
LEMMA PacksWhatFits ==
  ASSUME NEW d, NEW odt, NEW es \in Seq(Objects), FitOneFrame(es),
         \A i \in 1 .. Len(es) : d.entries[odt][i - 1] = es[i]
  PROVE  Packed(d, odt, Len(es)).objs = es
  <1> DEFINE n == Len(es)
             Put(f, obj) ==
               IF obj = NoObject \/ ~Fits(f.len, obj) THEN f
               ELSE [objs |-> Append(f.objs, obj), len |-> f.len + Size[obj]]
             IsFrameOf(f) ==
               f = [i \in 0 .. n |-> IF i = 0 THEN [objs |-> <<>>, len |-> 0]
                                     ELSE Put(f[i - 1], d.entries[odt][i - 1])]
  <1>1. n \in Nat
    OBVIOUS
  <1>2. PICK load \in [0 .. n -> 0 .. XCP_DAQ_MAX_ODT_DATA] :
          /\ load[0] = 0
          /\ \A i \in 1 .. n : load[i] = load[i - 1] + Size[es[i]]
    BY DEF FitOneFrame
  <1> DEFINE g == [i \in 0 .. n |-> [objs |-> SubSeq(es, 1, i), len |-> load[i]]]
  <1>3. ASSUME NEW i \in 1 .. n
        PROVE  Put(g[i - 1], es[i]) = g[i]
    <2>1. i - 1 \in 0 .. n /\ i \in 0 .. n
      BY <1>1
    <2>2. es[i] # NoObject
      BY XcpDaqAssumption, <1>1
    <2>3. Fits(load[i - 1], es[i])
      BY <1>1, <1>2, <2>1, XcpDaqAssumption DEF Fits
    <2>4. Append(SubSeq(es, 1, i - 1), es[i]) = SubSeq(es, 1, i)
      BY <1>1
    <2>5. Put(g[i - 1], es[i])
            = [objs |-> Append(g[i - 1].objs, es[i]), len |-> g[i - 1].len + Size[es[i]]]
      BY <2>1, <2>2, <2>3
    <2> QED
      BY <1>2, <2>1, <2>4, <2>5
  <1>4. g[0] = [objs |-> <<>>, len |-> 0]
    BY <1>1, <1>2
  <1>5. \E f : IsFrameOf(f)
    <2>1. IsFrameOf(g)
      <3>1. g = [i \in 0 .. n |-> g[i]]
        OBVIOUS
      <3>2. \A i \in 1 .. n : g[i] = Put(g[i - 1], d.entries[odt][i - 1])
        <4> HIDE DEF Put, g
        <4> QED
          BY <1>1, <1>3
      <3>3. \A i \in 0 .. n :
              g[i] = IF i = 0 THEN [objs |-> <<>>, len |-> 0]
                     ELSE Put(g[i - 1], d.entries[odt][i - 1])
        <4> HIDE DEF Put, g
        <4> QED
          BY <1>1, <1>4, <3>2
      <3> HIDE DEF Put, g
      <3> QED
        BY <3>1, <3>3, Zenon
    <2> QED
      BY <2>1
  <1> DEFINE frame == CHOOSE f : IsFrameOf(f)
  <1>6. Packed(d, odt, n) = frame[n]
    BY DEF Packed
  <1>7. IsFrameOf(frame)
    BY <1>5
  <1> HIDE DEF frame
  <1>8. \A i \in Nat : i \in 0 .. n => frame[i] = g[i]
    <2> DEFINE S == {i \in Nat : i \in 0 .. n => frame[i] = g[i]}
    <2>1. 0 \in S
      BY <1>1, <1>4, <1>7
    <2>2. ASSUME NEW i \in Nat, i \in S
          PROVE  i + 1 \in S
      <3> SUFFICES ASSUME i + 1 \in 0 .. n PROVE frame[i + 1] = g[i + 1]
        OBVIOUS
      <3>1. i \in 0 .. n /\ i + 1 \in 1 .. n /\ (i + 1) - 1 = i
        BY <1>1
      <3>2. frame[i + 1] = Put(frame[i], d.entries[odt][i])
        <4> HIDE DEF Put
        <4> QED
          BY <1>1, <1>7, <3>1
      <3>3. d.entries[odt][i] = es[i + 1]
        BY <3>1
      <3>4. frame[i] = g[i]
        BY <2>2, <3>1
      <3> HIDE DEF Put, g
      <3> QED
        BY <1>3, <3>1, <3>2, <3>3, <3>4
    <2> HIDE DEF S
    <2>3. Nat \subseteq S
      BY <2>1, <2>2, Induction
    <2> QED
      BY <2>3 DEF S
  <1>9. frame[n].objs = SubSeq(es, 1, n)
    <2>1. frame[n] = g[n]
      <3> HIDE DEF g
      <3> QED
        BY <1>1, <1>8
    <2> QED
      BY <1>1, <2>1
  <1> QED
    BY <1>6, <1>9

(* What one cycle sends is a sequence of frames of its ODTs, and nothing   *)
(* of a list that does not run.                                            *)
LEMMA SendsItsFrames ==
  ASSUME NEW d, d.odts \in Nat
  PROVE  Frames(d) \in Seq({Frame(d, o) : o \in 0 .. d.odts - 1})
  <1> DEFINE T == {Frame(d, o) : o \in 0 .. d.odts - 1}
             Sent(q, f) == IF f.objs = <<>> THEN q ELSE Append(q, f)
             IsSent(s, n) ==
               s = [i \in 0 .. n |-> IF i = 0 THEN <<>> ELSE Sent(s[i - 1], Frame(d, i - 1))]
             Known(n) == /\ \E s : IsSent(s, n)
                         /\ \A s : IsSent(s, n) => s[n] \in Seq(T)
             S == {n \in Nat : n <= d.odts => Known(n)}
  <1> HIDE DEF Known
  <1>1. 0 \in S
    <2>1. IsSent([i \in 0 .. 0 |-> <<>>], 0)
      OBVIOUS
    <2>2. \A s : IsSent(s, 0) => s[0] = <<>>
      OBVIOUS
    <2>3. <<>> \in Seq(T)
      OBVIOUS
    <2> HIDE DEF IsSent, T
    <2> QED
      BY <2>1, <2>2, <2>3 DEF Known
  <1>2. ASSUME NEW n \in Nat, n \in S
        PROVE  n + 1 \in S
    <2> SUFFICES ASSUME n + 1 <= d.odts PROVE Known(n + 1)
      OBVIOUS
    <2>0. Known(n)
      BY <1>2
    <2>1. Frame(d, n) \in T
      OBVIOUS
    <2> HIDE DEF Sent, T
    <2>2. PICK s : IsSent(s, n)
      <3> HIDE DEF IsSent
      <3> QED
        BY <2>0 DEF Known
    <2> DEFINE r == [i \in 0 .. n + 1 |-> IF i <= n THEN s[i] ELSE Sent(s[n], Frame(d, n))]
    <2>3. IsSent(r, n + 1)
      BY <2>2
    <2>4. ASSUME NEW t, IsSent(t, n + 1)
          PROVE  t[n + 1] \in Seq(T)
      <3> DEFINE u == [i \in 0 .. n |-> t[i]]
      <3>1. IsSent(u, n)
        BY <2>4
      <3>2. u[n] \in Seq(T)
        <4> HIDE DEF IsSent, u
        <4> QED
          BY <2>0, <3>1 DEF Known
      <3>3. t[n + 1] = Sent(u[n], Frame(d, n))
        BY <2>4
      <3> HIDE DEF u
      <3> QED
        BY <2>1, <3>2, <3>3 DEF Sent
    <2> HIDE DEF IsSent
    <2> QED
      BY <2>3, <2>4 DEF Known
  <1>3. Known(d.odts)
    <2>1. d.odts \in S
      <3> HIDE DEF S
      <3> QED
        BY <1>1, <1>2, Induction
    <2> QED
      BY <2>1
  <1>4. Frames(d) = IF d.running THEN (CHOOSE s : IsSent(s, d.odts))[d.odts] ELSE <<>>
    BY DEF Frames
  <1> HIDE DEF IsSent, T
  <1>5. (CHOOSE s : IsSent(s, d.odts))[d.odts] \in Seq(T)
    BY <1>3 DEF Known
  <1>6. Frames(d) \in Seq(T)
    BY <1>4, <1>5
  <1> QED
    BY <1>6 DEF T

-----------------------------------------------------------------------------
(* The dialogue.  What the master knows of the list when it sends a        *)
(* command, and what may be on its way to it.                              *)

IsAnswer(m) == "answer" \in DOMAIN m

IsFrame(m) == "pid" \in DOMAIN m

Accepted(m) == IsAnswer(m) /\ m.answer = "res"

Writing == {"SET_DAQ_PTR", "WRITE_DAQ"}

UnderConstruction == {"ALLOC_DAQ", "ALLOC_ODT", "ALLOC_ODT_ENTRY"} \cup Writing

DialogueCommands == {"CONNECT", "FREE_DAQ", "START_STOP_DAQ_LIST"} \cup UnderConstruction

OnPlan(p, s) ==
  /\ s \in [cmd : DialogueCommands, odt : Nat, entry : Nat]
  /\ s.cmd \in {"ALLOC_ODT_ENTRY"} \cup Writing => s.odt \in 1 .. Len(p)
  /\ s.cmd = "SET_DAQ_PTR" => s.entry = 0
  /\ s.cmd = "WRITE_DAQ" => s.entry \in 1 .. Len(p[s.odt])

Counted(s, o) ==
  \/ s.cmd = "ALLOC_ODT_ENTRY" /\ o < s.odt
  \/ s.cmd \in {"START_STOP_DAQ_LIST"} \cup Writing

Stored(s, o, i) ==
  \/ s.cmd \in Writing /\ (o < s.odt \/ (o = s.odt /\ i < s.entry))
  \/ s.cmd = "START_STOP_DAQ_LIST"

(* What the commands before step s leave.                                  *)
Before(d, p, s) ==
  /\ s.cmd \in UnderConstruction => ~d.running
  /\ s.cmd \in {"ALLOC_ODT_ENTRY", "START_STOP_DAQ_LIST"} \cup Writing => d.odts = Len(p)
  /\ \A o \in 1 .. Len(p) : Counted(s, o) => d.count[o - 1] = Len(p[o])
  /\ \A o \in 1 .. Len(p) : \A i \in 1 .. Len(p[o]) :
       Stored(s, o, i) => d.entries[o - 1][i - 1] = p[o][i]

(* The pointer stands where the step is to write.                          *)
Ready(d, s) == s.cmd = "WRITE_DAQ" => d.ptr = <<s.odt - 1, s.entry - 1>>

Messages == [answer : {"res", "err"}] \cup {Frame(d, o) : d \in Lists, o \in Odts}

LinkTypes ==
  /\ guest \in BOOLEAN /\ plan \in Plans /\ OnPlan(plan, at)
  /\ phase \in {"send", "wait", "stream"}
  /\ toMaster \in Seq(Messages)

(* At most one command is under way, or its answer, and only while the     *)
(* master waits for it.                                                    *)
OneCommand ==
  /\ guest => phase = "send" /\ at = First /\ toMaster = <<>>
  /\ phase = "stream" => at.cmd = "START_STOP_DAQ_LIST"
  /\ toSlave # <<>> => /\ phase = "wait" /\ toSlave = <<Datagram(plan, at)>>
                       /\ \A i \in 1 .. Len(toMaster) : ~IsAnswer(toMaster[i])
  /\ \A i, j \in 1 .. Len(toMaster) :
       IsAnswer(toMaster[i]) => phase = "wait" /\ (IsAnswer(toMaster[j]) => i = j)

(* The list the master is connected to has all that the dialogue has set   *)
(* so far.  A step may be executed twice.                                  *)
ListFollows ==
  dest = Master =>
    /\ Before(daq, plan, at)
    /\ phase = "send" \/ toSlave # <<>> => Ready(daq, at)
    /\ \A i \in 1 .. Len(toMaster) :
         Accepted(toMaster[i]) /\ at.cmd # "START_STOP_DAQ_LIST" =>
           Before(daq, plan, Following(plan, at)) /\ Ready(daq, Following(plan, at))

(* No frame is on its way while the list is under construction, nor behind *)
(* the answer to FREE_DAQ; those since START are the plan's.               *)
FramesFollow ==
  \A i \in 1 .. Len(toMaster) :
    /\ IsFrame(toMaster[i]) => at.cmd \notin UnderConstruction
    /\ Accepted(toMaster[i]) /\ at.cmd = "FREE_DAQ" => i = Len(toMaster)
    /\ IsFrame(toMaster[i]) /\ at.cmd = "START_STOP_DAQ_LIST" =>
         toMaster[i].objs = plan[toMaster[i].pid + 1]

LinkInv == DaqInv /\ LinkTypes /\ OneCommand /\ ListFollows /\ FramesFollow

(* A message is an answer or a frame.                                      *)
LEMMA MessageKinds == \A m \in Messages : IsAnswer(m) <=> ~IsFrame(m)
  <1>1. \A m \in [answer : {"res", "err"}] : IsAnswer(m) /\ ~IsFrame(m)
    BY DEF IsAnswer, IsFrame
  <1>2. \A d \in Lists, o \in Odts : ~IsAnswer(Frame(d, o)) /\ IsFrame(Frame(d, o))
    BY DEF IsAnswer, IsFrame, Frame
  <1> QED
    BY <1>1, <1>2 DEF Messages

(* What a cycle sends are frames.                                          *)
LEMMA CycleSendsFrames ==
  ASSUME NEW d \in Lists
  PROVE  /\ Frames(d) \in Seq(Messages)
         /\ \A i \in 1 .. Len(Frames(d)) : IsFrame(Frames(d)[i]) /\ ~IsAnswer(Frames(d)[i])
  <1> DEFINE T == {Frame(d, o) : o \in 0 .. d.odts - 1}
  <1>1. d.odts \in Nat /\ 0 .. d.odts - 1 \subseteq Odts
    BY XcpDaqAssumption DEF Lists, Odts
  <1>2. T \subseteq Messages
    BY <1>1 DEF Messages
  <1>3. \A m \in T : IsFrame(m) /\ ~IsAnswer(m)
    BY DEF Frame, IsFrame, IsAnswer
  <1>4. Frames(d) \in Seq(T)
    BY <1>1, SendsItsFrames
  <1> HIDE DEF T
  <1>5. Frames(d) \in Seq(Messages)
    BY <1>2, <1>4
  <1>6. \A i \in 1 .. Len(Frames(d)) : Frames(d)[i] \in T
    BY <1>4
  <1> QED
    BY <1>3, <1>5, <1>6

(* A list that does not run sends nothing.                                 *)
LEMMA SilentWhenStopped == \A d : ~d.running => Frames(d) = <<>>
  BY DEF Frames

(* Once all of a plan is set the cycle sends its objects under its PIDs.   *)
LEMMA CycleSendsThePlan ==
  ASSUME NEW d \in Lists, NEW p \in Plans, NEW s, s.cmd = "START_STOP_DAQ_LIST",
         Before(d, p, s)
  PROVE  \A i \in 1 .. Len(Frames(d)) : Frames(d)[i].objs = p[Frames(d)[i].pid + 1]
  <1> DEFINE T == {Frame(d, o) : o \in 0 .. d.odts - 1}
  <1>1. d.odts \in Nat /\ d.odts = Len(p)
    BY DEF Lists, Before
  <1>2. ASSUME NEW o \in 0 .. d.odts - 1
        PROVE  Frame(d, o).objs = p[Frame(d, o).pid + 1]
    <2>1. o + 1 \in 1 .. Len(p) /\ (o + 1) - 1 = o
      BY <1>1
    <2>2. p[o + 1] \in Seq(Objects) /\ FitOneFrame(p[o + 1])
      BY <2>1, XcpLinkAssumption
    <2>3. d.count[o] = Len(p[o + 1])
      BY <2>1 DEF Before, Counted
    <2>4. \A i \in 1 .. Len(p[o + 1]) : d.entries[o][i - 1] = p[o + 1][i]
      BY <2>1 DEF Before, Stored
    <2>5. Packed(d, o, Len(p[o + 1])).objs = p[o + 1]
      BY <2>2, <2>4, PacksWhatFits
    <2> QED
      BY <2>3, <2>5 DEF Frame
  <1>3. Frames(d) \in Seq(T)
    BY <1>1, SendsItsFrames
  <1>4. \A m \in T : m.objs = p[m.pid + 1]
    BY <1>2
  <1> HIDE DEF T
  <1> QED
    BY <1>3, <1>4

-----------------------------------------------------------------------------
(* One step of the dialogue executed.                                      *)

(* A plan has at least one ODT, and each of them a list of objects.        *)
LEMMA PlanShape ==
  ASSUME NEW p \in Plans
  PROVE  /\ Len(p) \in Nat \ {0}
         /\ \A o \in 1 .. Len(p) : p[o] \in Seq(Objects) /\ Len(p[o]) \in Nat
  <1>1. p \in Seq(Seq(Objects)) /\ p # <<>>
    BY XcpLinkAssumption
  <1> QED
    BY <1>1

(* The dialogue stays on its plan.                                         *)
LEMMA FollowingIsOnPlan ==
  ASSUME NEW p \in Plans, NEW s, OnPlan(p, s), s.cmd # "START_STOP_DAQ_LIST"
  PROVE  OnPlan(p, Following(p, s))
  <1>1. CASE s.cmd \notin {"ALLOC_ODT_ENTRY"} \cup Writing
    BY <1>1, PlanShape
       DEF OnPlan, Following, Step, DialogueCommands, UnderConstruction, Writing
  <1>2. CASE s.cmd = "ALLOC_ODT_ENTRY"
    BY <1>2, PlanShape
       DEF OnPlan, Following, Step, DialogueCommands, UnderConstruction, Writing
  <1>3. CASE s.cmd \in Writing
    <2>1. Following(p, s) = FollowingWrite(p, s)
      BY <1>3 DEF Following, Writing
    <2>2. s.odt \in 1 .. Len(p) /\ s.entry \in Nat
      BY <1>3 DEF OnPlan, Writing
    <2> QED
      BY <2>1, <2>2, PlanShape
         DEF OnPlan, FollowingWrite, Step, DialogueCommands, UnderConstruction, Writing
  <1> QED
    BY <1>1, <1>2, <1>3

(* A new beginning is on every plan.                                       *)
LEMMA FirstIsOnPlan == \A p : OnPlan(p, First)
  BY DEF OnPlan, First, Step, DialogueCommands, UnderConstruction, Writing

(* The step to repeat after a timeout is on the same plan.                 *)
LEMMA RepeatedIsOnPlan ==
  ASSUME NEW p, NEW s, OnPlan(p, s)
  PROVE  OnPlan(p, Repeated(s))
  BY DEF OnPlan, Repeated, Step, DialogueCommands, UnderConstruction, Writing

(* What the master sends is a command of the step.                         *)
LEMMA DatagramIsRequest ==
  ASSUME NEW p \in Plans, NEW s, OnPlan(p, s)
  PROVE  Datagram(p, s) \in Requests /\ Datagram(p, s).cmd = s.cmd
  <1>1. s.cmd \in DialogueCommands /\ s.odt \in Nat /\ s.entry \in Nat
    BY DEF OnPlan
  <1>2. CASE s.cmd \in {"CONNECT", "FREE_DAQ"}
    BY <1>2 DEF Datagram, Requests, Command
  <1>3. CASE s.cmd \in {"ALLOC_DAQ", "ALLOC_ODT", "START_STOP_DAQ_LIST"}
    BY <1>3, PlanShape DEF Datagram, Requests
  <1>4. CASE s.cmd = "ALLOC_ODT_ENTRY"
    <2>1. s.odt \in 1 .. Len(p)
      BY <1>4 DEF OnPlan
    <2> QED
      BY <1>4, <2>1, PlanShape DEF Datagram, Requests
  <1>5. CASE s.cmd = "SET_DAQ_PTR"
    <2>1. s.odt \in 1 .. Len(p)
      BY <1>5 DEF OnPlan, Writing
    <2> QED
      BY <1>5, <2>1, PlanShape DEF Datagram, Requests
  <1>6. CASE s.cmd = "WRITE_DAQ"
    <2>1. s.odt \in 1 .. Len(p) /\ s.entry \in 1 .. Len(p[s.odt])
      BY <1>6 DEF OnPlan, Writing
    <2>2. p[s.odt][s.entry] \in Objects
      BY <2>1, PlanShape
    <2> QED
      BY <1>6, <2>2 DEF Datagram, Requests
  <1> QED
    BY <1>1, <1>2, <1>3, <1>4, <1>5, <1>6 DEF DialogueCommands, UnderConstruction, Writing

(* Executed, a step leaves what the next one needs, and all that it needed *)
(* itself: it may be repeated.                                             *)
LEMMA StepExecuted ==
  ASSUME NEW d, Consistent(d), NEW p \in Plans, NEW s, OnPlan(p, s),
         Before(d, p, s), Ready(d, s), ~OutOfRange(d, Datagram(p, s))
  PROVE  /\ Before(Done(d, Datagram(p, s)), p, s)
         /\ s.cmd # "START_STOP_DAQ_LIST" =>
              /\ Before(Done(d, Datagram(p, s)), p, Following(p, s))
              /\ Ready(Done(d, Datagram(p, s)), Following(p, s))
  <1> DEFINE c == Datagram(p, s)
             e == Done(d, c)
  <1> HIDE DEF e
  <1> SUFFICES /\ Before(e, p, s)
               /\ s.cmd # "START_STOP_DAQ_LIST" =>
                    Before(e, p, Following(p, s)) /\ Ready(e, Following(p, s))
    BY DEF e
  <1>1. c.cmd = s.cmd /\ s.cmd \in DialogueCommands
    BY DatagramIsRequest DEF OnPlan
  <1>2. CASE s.cmd \in {"CONNECT", "FREE_DAQ"}
    <2>1. e = xcpDaqFree(d)
      BY <1>1, <1>2 DEF Done, e
    <2>2. ~e.running
      BY <2>1 DEF xcpDaqFree, Consistent, Lists
    <2> QED
      BY <1>2, <2>1, <2>2
         DEF Before, Ready, Counted, Stored, Following, Step, UnderConstruction, Writing
  <1>3. CASE s.cmd = "ALLOC_DAQ"
    <2>1. e = [d EXCEPT !.allocated = TRUE]
      BY <1>1, <1>3 DEF Done, e
    <2> QED
      BY <1>3, <2>1
         DEF Before, Ready, Counted, Stored, Following, Step, UnderConstruction, Writing,
             Consistent, Lists
  <1>4. CASE s.cmd = "ALLOC_ODT"
    <2>1. e = [d EXCEPT !.odts = Len(p)]
      BY <1>4 DEF Done, e, Datagram
    <2> QED
      BY <1>4, <2>1, PlanShape
         DEF Before, Ready, Counted, Stored, Following, Step, UnderConstruction, Writing,
             Consistent, Lists
  <1>5. CASE s.cmd = "ALLOC_ODT_ENTRY"
    <2>1. s.odt \in 1 .. Len(p) /\ Len(p) \in Nat
      BY <1>5, PlanShape DEF OnPlan
    <2>2. e = [d EXCEPT !.count[s.odt - 1] = Len(p[s.odt])]
      BY <1>5 DEF Done, e, Datagram
    <2>3. d.odts = Len(p) /\ ~d.running
      BY <1>5 DEF Before, UnderConstruction
    <2>4. \A o \in 1 .. Len(p) : o - 1 \in Odts
      BY <2>1, <2>3, XcpDaqAssumption DEF Consistent, Lists, Odts
    <2>5. d.count \in [Odts -> 0 .. XCP_DAQ_MAX_ENTRIES]
      BY DEF Consistent, Lists
    <2>6. e.odts = Len(p) /\ ~e.running
      BY <2>2, <2>3 DEF Consistent, Lists
    <2>7. e.count = [d.count EXCEPT ![s.odt - 1] = Len(p[s.odt])]
      BY <2>2 DEF Consistent, Lists
    <2>8. ASSUME NEW o \in 1 .. Len(p), o <= s.odt
          PROVE  e.count[o - 1] = Len(p[o])
      <3>1. CASE o = s.odt
        BY <2>4, <2>5, <2>7, <3>1
      <3>2. CASE o < s.odt
        <4>1. d.count[o - 1] = Len(p[o])
          BY <1>5, <3>2 DEF Before, Counted
        <4>2. o - 1 # s.odt - 1
          BY <2>1, <3>2
        <4> QED
          BY <2>4, <2>5, <2>7, <4>1, <4>2
      <3> QED
        BY <2>1, <2>8, <3>1, <3>2
    <2>9. Before(e, p, s)
      BY <1>5, <2>1, <2>6, <2>8 DEF Before, Counted, Stored, Writing
    <2>10. Before(e, p, Following(p, s)) /\ Ready(e, Following(p, s))
      BY <1>5, <2>1, <2>6, <2>8
         DEF Before, Ready, Counted, Stored, Writing, Following, Step
    <2> QED
      BY <2>9, <2>10
  <1>6. CASE s.cmd = "SET_DAQ_PTR"
    <2>1. s.odt \in 1 .. Len(p) /\ s.entry = 0 /\ Len(p) \in Nat /\ Len(p[s.odt]) \in Nat
      BY <1>6, PlanShape DEF OnPlan, Writing
    <2>2. e = [d EXCEPT !.ptr = <<s.odt - 1, 0>>]
      BY <1>6 DEF Done, Datagram, e
    <2>3. /\ e.odts = d.odts /\ e.running = d.running /\ e.count = d.count
          /\ e.entries = d.entries /\ e.ptr = <<s.odt - 1, 0>>
      BY <2>2 DEF Consistent, Lists
    <2>4. Before(e, p, s)
      BY <1>6, <2>3 DEF Before, Counted, Stored
    <2>5. Following(p, s) = FollowingWrite(p, s)
      BY <1>6 DEF Following
    <2>6. Before(e, p, FollowingWrite(p, s))
      BY <1>6, <2>1, <2>3
         DEF Before, Counted, Stored, FollowingWrite, Step, UnderConstruction, Writing
    <2>7. Ready(e, FollowingWrite(p, s))
      BY <2>1, <2>3 DEF Ready, FollowingWrite, Step
    <2> QED
      BY <2>4, <2>5, <2>6, <2>7
  <1>7. CASE s.cmd = "WRITE_DAQ"
    <2>1. /\ s.odt \in 1 .. Len(p) /\ s.entry \in 1 .. Len(p[s.odt])
          /\ Len(p) \in Nat /\ \A o \in 1 .. Len(p) : Len(p[o]) \in Nat
      BY <1>7, PlanShape DEF OnPlan, Writing
    <2>2. d.ptr = <<s.odt - 1, s.entry - 1>>
      BY <1>7 DEF Ready
    <2>3. s.odt - 1 \in Odts /\ s.entry - 1 \in Slots
      BY <2>2 DEF Consistent, Lists
    <2>4. d.odts = Len(p) /\ ~d.running /\ \A o \in 1 .. Len(p) : d.count[o - 1] = Len(p[o])
      BY <1>7 DEF Before, UnderConstruction, Writing, Counted
    <2>5. \A o \in 1 .. Len(p) : o - 1 \in Odts /\ Len(p[o]) <= XCP_DAQ_MAX_ENTRIES
      <3>1. \A o \in 1 .. Len(p) : o - 1 \in Odts
        BY <2>1, <2>4, XcpDaqAssumption DEF Consistent, Lists, Odts
      <3>2. \A o \in Odts : d.count[o] \in 0 .. XCP_DAQ_MAX_ENTRIES
        BY DEF Consistent, Lists
      <3> QED
        BY <2>4, <3>1, <3>2, XcpDaqAssumption
    <2>6. \A o \in 1 .. Len(p) : \A i \in 1 .. Len(p[o]) : i - 1 \in Slots
      BY <2>1, <2>5, XcpDaqAssumption DEF Slots
    <2> DEFINE obj == p[s.odt][s.entry]
    <2>7. e = WriteDaq(d, obj)
      BY <1>7 DEF Done, Datagram, e
    <2>8. /\ e.odts = d.odts /\ e.running = d.running /\ e.count = d.count
          /\ e.entries = [d.entries EXCEPT ![s.odt - 1][s.entry - 1] = obj]
          /\ e.ptr = <<s.odt - 1, NextSlot(s.entry - 1)>>
      BY <2>2, <2>7 DEF WriteDaq, Consistent, Lists
    <2>9. d.entries \in [Odts -> [Slots -> Objects \cup {NoObject}]]
      BY DEF Consistent, Lists
    <2>10. \A o \in 1 .. Len(p) : \A i \in 1 .. Len(p[o]) :
             e.entries[o - 1][i - 1]
               = IF o = s.odt /\ i = s.entry THEN obj ELSE d.entries[o - 1][i - 1]
      <3>1. \A a \in Odts, b \in Slots :
              e.entries[a][b]
                = IF a = s.odt - 1 /\ b = s.entry - 1 THEN obj ELSE d.entries[a][b]
        BY <2>3, <2>8, <2>9
      <3> HIDE DEF obj
      <3> QED
        BY <2>1, <2>5, <2>6, <3>1
    <2>11. \A o \in 1 .. Len(p) : \A i \in 1 .. Len(p[o]) :
             (o < s.odt \/ (o = s.odt /\ i <= s.entry)) => e.entries[o - 1][i - 1] = p[o][i]
      <3>1. \A o \in 1 .. Len(p) : \A i \in 1 .. Len(p[o]) :
              (o < s.odt \/ (o = s.odt /\ i < s.entry)) => d.entries[o - 1][i - 1] = p[o][i]
        BY <1>7 DEF Before, Stored, Writing
      <3> SUFFICES ASSUME NEW o \in 1 .. Len(p), NEW i \in 1 .. Len(p[o]),
                          o < s.odt \/ (o = s.odt /\ i <= s.entry)
                   PROVE  e.entries[o - 1][i - 1] = p[o][i]
        OBVIOUS
      <3>2. CASE o = s.odt /\ i = s.entry
        BY <2>10, <3>2
      <3>3. CASE o < s.odt \/ (o = s.odt /\ i < s.entry)
        BY <2>1, <2>10, <3>1, <3>3
      <3> QED
        BY <2>1, <3>2, <3>3
    <2>12. Before(e, p, s)
      BY <1>7, <2>1, <2>4, <2>8, <2>11 DEF Before, Counted, Stored
    <2>13. Following(p, s) = FollowingWrite(p, s)
      BY <1>7 DEF Following
    <2>14. ~e.running /\ e.odts = Len(p) /\ \A o \in 1 .. Len(p) : e.count[o - 1] = Len(p[o])
      BY <2>4, <2>8
    <2>15. Before(e, p, FollowingWrite(p, s))
      <3> DEFINE t == FollowingWrite(p, s)
      <3> HIDE DEF t
      <3> SUFFICES Before(e, p, t)
        BY DEF t
      <3>1. CASE s.entry < Len(p[s.odt])
        <4>1. t.cmd = "WRITE_DAQ" /\ t.odt = s.odt /\ t.entry = s.entry + 1
          BY <3>1 DEF t, FollowingWrite, Step
        <4>2. \A o \in 1 .. Len(p) : \A i \in 1 .. Len(p[o]) :
                Stored(t, o, i) => e.entries[o - 1][i - 1] = p[o][i]
          BY <2>1, <2>11, <4>1 DEF Stored, Writing
        <4> QED
          BY <2>14, <4>2 DEF Before
      <3>2. CASE s.entry = Len(p[s.odt]) /\ s.odt < Len(p)
        <4>1. t.cmd = "SET_DAQ_PTR" /\ t.odt = s.odt + 1 /\ t.entry = 0
          BY <2>1, <3>2 DEF t, FollowingWrite, Step
        <4>2. \A o \in 1 .. Len(p) : \A i \in 1 .. Len(p[o]) :
                o <= s.odt => e.entries[o - 1][i - 1] = p[o][i]
          BY <2>1, <2>11, <3>2
        <4>3. \A o \in 1 .. Len(p) : \A i \in 1 .. Len(p[o]) :
                Stored(t, o, i) => e.entries[o - 1][i - 1] = p[o][i]
          BY <2>1, <4>1, <4>2 DEF Stored, Writing
        <4> QED
          BY <2>14, <4>3 DEF Before
      <3>3. CASE s.entry = Len(p[s.odt]) /\ s.odt = Len(p)
        <4>1. t.cmd = "START_STOP_DAQ_LIST"
          BY <2>1, <3>3 DEF t, FollowingWrite, Step
        <4>2. \A o \in 1 .. Len(p) : \A i \in 1 .. Len(p[o]) :
                e.entries[o - 1][i - 1] = p[o][i]
          BY <2>1, <2>11, <3>3
        <4> QED
          BY <2>4, <2>8, <4>1, <4>2 DEF Before, Counted, Stored, UnderConstruction, Writing
      <3> QED
        BY <2>1, <3>1, <3>2, <3>3
    <2>16. Ready(e, FollowingWrite(p, s))
      BY <2>1, <2>5, <2>8, XcpDaqAssumption DEF Ready, FollowingWrite, Step, NextSlot
    <2> QED
      BY <2>12, <2>13, <2>15, <2>16
  <1>8. CASE s.cmd = "START_STOP_DAQ_LIST"
    <2>1. e = [d EXCEPT !.running = TRUE]
      BY <1>8 DEF Done, e, Datagram
    <2> QED
      BY <1>8, <2>1 DEF Before, Counted, Stored, UnderConstruction, Writing, Consistent, Lists
  <1> QED
    BY <1>1, <1>2, <1>3, <1>4, <1>5, <1>6, <1>7, <1>8
       DEF DialogueCommands, UnderConstruction, Writing

-----------------------------------------------------------------------------
(* The queues.                                                             *)

(* What is left when the message at k is gone.                             *)
LEMMA RemoveOne ==
  ASSUME NEW S, NEW q \in Seq(S), NEW k \in 1 .. Len(q)
  PROVE  /\ RemoveAt(q, k) \in Seq(S)
         /\ Len(RemoveAt(q, k)) = Len(q) - 1
         /\ \A j \in 1 .. Len(q) - 1 : RemoveAt(q, k)[j] = q[IF j < k THEN j ELSE j + 1]
  <1>1. Len(q) \in Nat
    OBVIOUS
  <1> DEFINE a == SubSeq(q, 1, k - 1)
             b == SubSeq(q, k + 1, Len(q))
  <1>2. RemoveAt(q, k) = a \o b
    BY DEF RemoveAt
  <1>3. a \in Seq(S) /\ b \in Seq(S)
    BY <1>1
  <1>4. Len(a) = k - 1 /\ Len(b) = Len(q) - k
    BY <1>1
  <1>5. /\ \A j \in 1 .. k - 1 : a[j] = q[j]
        /\ \A j \in 1 .. Len(q) - k : b[j] = q[j + k]
    BY <1>1
  <1> HIDE DEF a, b
  <1>6. a \o b \in Seq(S) /\ Len(a \o b) = Len(q) - 1
    BY <1>1, <1>3, <1>4
  <1>7. ASSUME NEW j \in 1 .. Len(q) - 1
        PROVE  (a \o b)[j] = q[IF j < k THEN j ELSE j + 1]
    <2>1. CASE j < k
      BY <1>1, <1>3, <1>4, <1>5, <2>1
    <2>2. CASE ~(j < k)
      <3>1. (a \o b)[j] = b[j - (k - 1)]
        BY <1>1, <1>3, <1>4, <2>2
      <3>2. PICK i \in 1 .. Len(q) - k : i = j - (k - 1)
        BY <1>1, <2>2
      <3>3. b[i] = q[i + k] /\ i + k = j + 1
        BY <1>1, <1>5, <3>2
      <3> QED
        BY <2>2, <3>1, <3>2, <3>3
    <2> QED
      BY <1>1, <2>1, <2>2
  <1> QED
    BY <1>2, <1>6, <1>7

(* Taking the first is one case of it.                                     *)
LEMMA TailRemovesOne ==
  ASSUME NEW S, NEW q \in Seq(S), q # <<>>
  PROVE  Tail(q) = RemoveAt(q, 1)
  BY DEF RemoveAt

(* A full queue loses the new messages; another has them at its end.       *)
LEMMA QueuedIs ==
  ASSUME NEW S, NEW q \in Seq(S), NEW msgs \in Seq(S)
  PROVE  \/ Queued(q, msgs) = q
         \/ /\ Queued(q, msgs) \in Seq(S)
            /\ Len(Queued(q, msgs)) = Len(q) + Len(msgs)
            /\ \A i \in 1 .. Len(q) : Queued(q, msgs)[i] = q[i]
            /\ \A i \in Len(q) + 1 .. Len(q) + Len(msgs) : Queued(q, msgs)[i] = msgs[i - Len(q)]
  BY DEF Queued

-----------------------------------------------------------------------------
(* The steps of the link.                                                  *)

(* A request, whoever sends it, keeps the list consistent.                 *)
LEMMA RequestKeeps ==
  ASSUME DaqInv, NEW client, NEW c \in Requests, xcpRecv(client, c)
  PROVE  DaqInv'
  <1>1. CASE OutOfRange(daq, c)
    BY <1>1 DEF xcpRecv, DaqInv
  <1>2. CASE ~OutOfRange(daq, c)
    BY <1>2, DoneKeeps DEF xcpRecv, DaqInv
  <1> QED
    BY <1>1, <1>2

(* Nothing is under way at the start.                                      *)
LEMMA LinkStarts == Init => LinkInv
  <1> SUFFICES ASSUME Init PROVE LinkInv
    OBVIOUS
  <1>1. DaqInv
    BY EmptyList DEF Init
  <1>2. LinkTypes
    BY FirstIsOnPlan DEF Init, LinkTypes
  <1>3. OneCommand /\ FramesFollow
    BY DEF Init, OneCommand, FramesFollow
  <1>4. ListFollows
    BY XcpLinkAssumption DEF Init, DaqInit, ListFollows
  <1> QED
    BY <1>1, <1>2, <1>3, <1>4 DEF LinkInv

(* Nothing is required of the list at the first two steps.                 *)
LEMMA NothingBeforeFree ==
  ASSUME NEW d, NEW p, NEW s, s.cmd \in {"CONNECT", "FREE_DAQ"}
  PROVE  Before(d, p, s) /\ Ready(d, s)
  BY DEF Before, Ready, Counted, Stored, UnderConstruction, Writing

(* Other clients command while the master is silent.                       *)
LEMMA GuestKeeps == LinkInv /\ Guest => LinkInv'
  <1> SUFFICES ASSUME LinkInv, Guest PROVE LinkInv'
    OBVIOUS
  <1>1. PICK client \in Clients, c \in Commands : xcpRecv(client, c)
    BY DEF Guest, AnyCommand
  <1>2. DaqInv'
    BY <1>1, RequestKeeps, CommandsAreRequests DEF LinkInv
  <1>3. UNCHANGED <<guest, toSlave, toMaster, plan, at, phase>> /\ guest
    BY DEF Guest, masterVars
  <1>4. LinkTypes' /\ OneCommand' /\ FramesFollow'
    BY <1>3 DEF LinkInv, LinkTypes, OneCommand, FramesFollow
  <1>5. toMaster = <<>> /\ at.cmd = "CONNECT"
    BY <1>3 DEF LinkInv, OneCommand, First, Step
  <1>6. ListFollows'
    <2>1. Before(daq', plan, at) /\ Ready(daq', at)
      BY <1>5, NothingBeforeFree
    <2> QED
      BY <1>3, <1>5, <2>1 DEF ListFollows
  <1> QED
    BY <1>2, <1>4, <1>6 DEF LinkInv

(* A message is gone: lost on its way, or a frame taken.                   *)
LEMMA MessageGoes ==
  ASSUME LinkInv, NEW k \in 1 .. Len(toMaster), toMaster' = RemoveAt(toMaster, k),
         UNCHANGED <<daqVars, guest, toSlave, plan, at, phase>>
  PROVE  LinkInv'
  <1> DEFINE n == Len(toMaster)
             from(j) == IF j < k THEN j ELSE j + 1
  <1>1. toMaster \in Seq(Messages) /\ n \in Nat
    BY DEF LinkInv, LinkTypes
  <1>2. /\ toMaster' \in Seq(Messages) /\ Len(toMaster') = n - 1
        /\ \A j \in 1 .. n - 1 : toMaster'[j] = toMaster[from(j)]
    BY <1>1, RemoveOne
  <1>3. \A j \in 1 .. n - 1 : from(j) \in 1 .. n
    BY <1>1
  <1>4. \A i, j \in 1 .. n - 1 : from(i) = from(j) => i = j
    BY <1>1
  <1>5. \A j \in 1 .. n - 1 : from(j) = n => j = n - 1
    BY <1>1
  <1>6. ~guest
    BY <1>1 DEF LinkInv, OneCommand
  <1>7. UNCHANGED <<daq, dest, guest, toSlave, plan, at, phase>>
    BY DEF daqVars
  <1> HIDE DEF n, from
  <1>8. DaqInv' /\ LinkTypes'
    BY <1>2, <1>7 DEF LinkInv, DaqInv, LinkTypes
  <1>9. OneCommand'
    <2>1. phase' = "stream" => at'.cmd = "START_STOP_DAQ_LIST"
      BY <1>7 DEF LinkInv, OneCommand
    <2>2. toSlave' # <<>> =>
            /\ phase' = "wait" /\ toSlave' = <<Datagram(plan', at')>>
            /\ \A i \in 1 .. n - 1 : ~IsAnswer(toMaster'[i])
      BY <1>2, <1>3, <1>7 DEF LinkInv, OneCommand, n
    <2>3. \A i, j \in 1 .. n - 1 :
            IsAnswer(toMaster'[i]) => phase' = "wait" /\ (IsAnswer(toMaster'[j]) => i = j)
      BY <1>2, <1>3, <1>4, <1>7 DEF LinkInv, OneCommand, n
    <2> QED
      BY <1>2, <1>6, <1>7, <2>1, <2>2, <2>3 DEF OneCommand
  <1>10. ListFollows'
    BY <1>2, <1>3, <1>7 DEF LinkInv, ListFollows, n
  <1>11. FramesFollow'
    BY <1>2, <1>3, <1>5, <1>7 DEF LinkInv, FramesFollow, n
  <1> QED
    BY <1>8, <1>9, <1>10, <1>11 DEF LinkInv

(* Frames of a cycle are on their way, all of them or what is left.        *)
LEMMA FramesCome ==
  ASSUME LinkInv, ~guest, dest = Master, NEW fs \in Seq(Messages),
         \A i \in 1 .. Len(fs) : \E j \in 1 .. Len(Frames(daq)) : fs[i] = Frames(daq)[j],
         toMaster' = Queued(toMaster, fs),
         UNCHANGED <<daqVars, guest, toSlave, plan, at, phase>>
  PROVE  LinkInv'
  <1>1. UNCHANGED <<daq, dest, guest, toSlave, plan, at, phase>>
    BY DEF daqVars
  <1>2. daq \in Lists /\ plan \in Plans /\ toMaster \in Seq(Messages)
    BY DEF LinkInv, DaqInv, Consistent, LinkTypes
  <1>3. CASE toMaster' = toMaster
    BY <1>1, <1>3 DEF LinkInv, DaqInv, LinkTypes, OneCommand, ListFollows, FramesFollow
  <1>4. CASE toMaster' # toMaster
    <2> DEFINE n == Len(toMaster)
    <2>1. n \in Nat /\ Len(fs) \in Nat
      BY <1>2
    <2>2. /\ toMaster' \in Seq(Messages) /\ Len(toMaster') = n + Len(fs)
          /\ \A i \in 1 .. n : toMaster'[i] = toMaster[i]
          /\ \A i \in n + 1 .. n + Len(fs) : toMaster'[i] = fs[i - n]
      BY <1>2, <1>4, QueuedIs
    <2> HIDE DEF n
    <2>3. \A i \in 1 .. Len(toMaster') : i \in 1 .. n \/ i \in n + 1 .. n + Len(fs)
      BY <2>1, <2>2
    <2>4. \A i \in n + 1 .. n + Len(fs) :
            \E j \in 1 .. Len(Frames(daq)) : toMaster'[i] = Frames(daq)[j]
      BY <2>1, <2>2
    <2>5. \A i \in n + 1 .. n + Len(fs) : IsFrame(toMaster'[i]) /\ ~IsAnswer(toMaster'[i])
      BY <1>2, <2>4, CycleSendsFrames
    <2>6. DaqInv' /\ LinkTypes'
      BY <1>1, <2>2 DEF LinkInv, DaqInv, LinkTypes
    <2>7. OneCommand'
      <3>1. phase' = "stream" => at'.cmd = "START_STOP_DAQ_LIST"
        BY <1>1 DEF LinkInv, OneCommand
      <3>2. toSlave' # <<>> =>
              /\ phase' = "wait" /\ toSlave' = <<Datagram(plan', at')>>
              /\ \A i \in 1 .. Len(toMaster') : ~IsAnswer(toMaster'[i])
        BY <1>1, <2>2, <2>3, <2>5 DEF LinkInv, OneCommand, n
      <3>3. \A i, j \in 1 .. Len(toMaster') :
              IsAnswer(toMaster'[i]) => phase' = "wait" /\ (IsAnswer(toMaster'[j]) => i = j)
        BY <1>1, <2>2, <2>3, <2>5 DEF LinkInv, OneCommand, n
      <3> QED
        BY <1>1, <3>1, <3>2, <3>3 DEF OneCommand
    <2>8. ListFollows'
      BY <1>1, <2>2, <2>3, <2>5 DEF LinkInv, ListFollows, Accepted, n
    <2>9. Before(daq, plan, at)
      BY DEF LinkInv, ListFollows
    <2>10. daq.running
      <3>1. Len(fs) # 0
        BY <1>2, <1>4, <2>1, <2>2 DEF n
      <3>2. Frames(daq) # <<>>
        BY <2>1, <3>1
      <3> QED
        BY <3>2, SilentWhenStopped
    <2>11. at.cmd \notin UnderConstruction
      BY <2>9, <2>10 DEF Before
    <2>12. at.cmd = "FREE_DAQ" => \A i \in 1 .. n : ~Accepted(toMaster[i])
      <3> SUFFICES ASSUME at.cmd = "FREE_DAQ", NEW i \in 1 .. n, Accepted(toMaster[i])
                   PROVE  FALSE
        OBVIOUS
      <3>1. Before(daq, plan, Following(plan, at))
        BY DEF LinkInv, ListFollows, n
      <3>2. Following(plan, at).cmd \in UnderConstruction
        BY DEF Following, Step, UnderConstruction
      <3> QED
        BY <2>10, <3>1, <3>2 DEF Before
    <2>13. at.cmd = "START_STOP_DAQ_LIST" =>
             \A i \in n + 1 .. n + Len(fs) : toMaster'[i].objs = plan[toMaster'[i].pid + 1]
      BY <1>2, <2>4, <2>9, CycleSendsThePlan
    <2>14. FramesFollow'
      BY <1>1, <2>2, <2>3, <2>5, <2>11, <2>12, <2>13
         DEF LinkInv, FramesFollow, Accepted, n
    <2> QED
      BY <2>6, <2>7, <2>8, <2>14 DEF LinkInv
  <1> QED
    BY <1>3, <1>4

(* The slave executes the command under way and answers it.                *)
LEMMA ReceiveKeeps == LinkInv /\ Receive => LinkInv'
  <1> SUFFICES ASSUME LinkInv, Receive PROVE LinkInv'
    OBVIOUS
  <1> DEFINE c == Datagram(plan, at)
             answer == [answer |-> Answer(daq, c)]
             n == Len(toMaster)
  <1>1. /\ plan \in Plans /\ OnPlan(plan, at) /\ toMaster \in Seq(Messages) /\ n \in Nat
        /\ Consistent(daq)
    BY DEF LinkInv, LinkTypes, DaqInv
  <1>2. /\ toSlave = <<c>> /\ phase = "wait" /\ ~guest
        /\ \A i \in 1 .. n : ~IsAnswer(toMaster[i])
    BY DEF LinkInv, OneCommand, Receive
  <1>3. /\ xcpRecv(Master, c) /\ toMaster' = Queued(toMaster, <<answer>>)
        /\ toSlave' = <<>> /\ UNCHANGED <<guest, plan, at, phase>>
    BY <1>2 DEF Receive, masterVars
  <1>4. c \in Requests /\ c.cmd = at.cmd
    BY <1>1, DatagramIsRequest
  <1> HIDE DEF c
  <1>5. answer \in Messages /\ IsAnswer(answer)
    BY DEF Answer, Messages, IsAnswer
  <1>6. Accepted(answer) => ~OutOfRange(daq, c)
    BY DEF Accepted, Answer
  <1> HIDE DEF answer
  <1>7. \/ toMaster' = toMaster
        \/ /\ toMaster' \in Seq(Messages) /\ Len(toMaster') = n + 1
           /\ \A i \in 1 .. n : toMaster'[i] = toMaster[i]
           /\ toMaster'[n + 1] = answer
    <2> DEFINE msgs == <<answer>>
    <2>1. msgs \in Seq(Messages) /\ Len(msgs) = 1 /\ msgs[1] = answer
      BY <1>5
    <2>2. toMaster' = Queued(toMaster, msgs)
      BY <1>3
    <2> HIDE DEF msgs
    <2>3. CASE toMaster' # toMaster
      <3>1. /\ toMaster' \in Seq(Messages) /\ Len(toMaster') = n + Len(msgs)
            /\ \A i \in 1 .. n : toMaster'[i] = toMaster[i]
            /\ \A i \in n + 1 .. n + Len(msgs) : toMaster'[i] = msgs[i - n]
        BY <1>1, <2>1, <2>2, <2>3, QueuedIs
      <3> HIDE DEF n
      <3>2. n + 1 \in n + 1 .. n + Len(msgs) /\ (n + 1) - n = 1
        BY <1>1, <2>1
      <3>3. toMaster'[n + 1] = answer
        BY <2>1, <3>1, <3>2
      <3> QED
        BY <2>1, <3>1, <3>3
    <2> QED
      BY <2>3
  <1> HIDE DEF n
  <1>8. \A i \in 1 .. Len(toMaster') :
          \/ i \in 1 .. n /\ toMaster'[i] = toMaster[i]
          \/ i = n + 1 /\ Len(toMaster') = n + 1 /\ toMaster'[i] = answer
    BY <1>1, <1>7 DEF n
  <1>9. DaqInv' /\ LinkTypes'
    BY <1>1, <1>3, <1>4, <1>7, RequestKeeps DEF LinkInv, LinkTypes
  <1>10. OneCommand'
    BY <1>2, <1>3, <1>8 DEF LinkInv, OneCommand
  <1>11. ASSUME dest' = Master
         PROVE  /\ Before(daq', plan, at)
                /\ Accepted(answer) /\ at.cmd # "START_STOP_DAQ_LIST" =>
                     Before(daq', plan, Following(plan, at)) /\ Ready(daq', Following(plan, at))
    <2>1. CASE c.cmd = "CONNECT"
      <3>1. Following(plan, at).cmd = "FREE_DAQ"
        BY <1>4, <2>1 DEF Following, Step
      <3>2. Before(daq', plan, at)
        <4>1. at.cmd \in {"CONNECT", "FREE_DAQ"}
          BY <1>4, <2>1
        <4> QED
          BY <4>1, NothingBeforeFree
      <3>3. Before(daq', plan, Following(plan, at)) /\ Ready(daq', Following(plan, at))
        BY <3>1, NothingBeforeFree
      <3> QED
        BY <3>2, <3>3
    <2>2. CASE c.cmd # "CONNECT"
      <3>1. dest = Master
        BY <1>3, <1>11, <2>2 DEF xcpRecv
      <3>2. Before(daq, plan, at) /\ Ready(daq, at)
        BY <1>2, <3>1 DEF LinkInv, ListFollows
      <3>3. CASE OutOfRange(daq, c)
        BY <1>3, <1>6, <3>2, <3>3 DEF xcpRecv
      <3>4. CASE ~OutOfRange(daq, c)
        <4>1. daq' = Done(daq, c)
          BY <1>3, <3>4 DEF xcpRecv
        <4> QED
          BY <1>1, <3>2, <3>4, <4>1, StepExecuted DEF c
      <3> QED
        BY <3>3, <3>4
    <2> QED
      BY <2>1, <2>2
  <1>12. \A i \in 1 .. n : ~Accepted(toMaster[i])
    BY <1>2 DEF Accepted
  <1>13. ListFollows'
    BY <1>2, <1>3, <1>8, <1>11, <1>12 DEF ListFollows
  <1>14. ~IsFrame(answer)
    BY <1>5, MessageKinds
  <1>15. FramesFollow'
    BY <1>3, <1>8, <1>12, <1>14 DEF LinkInv, FramesFollow, n
  <1> QED
    BY <1>9, <1>10, <1>13, <1>15 DEF LinkInv

(* The cycle sends what the master may see at this step.                   *)
LEMMA CycleKeeps == LinkInv /\ (xcpDaqCycle \/ LoseFrames) => LinkInv'
  <1>1. ASSUME LinkInv, xcpDaqCycle
        PROVE  LinkInv'
    <2>1. Frames(daq) \in Seq(Messages)
      BY <1>1, CycleSendsFrames DEF LinkInv, DaqInv, Consistent
    <2> QED
      BY <1>1, <2>1, FramesCome DEF xcpDaqCycle, masterVars
  <1>2. ASSUME LinkInv, LoseFrames
        PROVE  LinkInv'
    <2>1. Frames(daq) \in Seq(Messages)
      BY <1>2, CycleSendsFrames DEF LinkInv, DaqInv, Consistent
    <2>2. PICK i \in 1 .. Len(Frames(daq)) : toMaster' = Queued(toMaster, <<Frames(daq)[i]>>)
      BY <1>2 DEF LoseFrames
    <2> DEFINE fs == <<Frames(daq)[i]>>
    <2>3. fs \in Seq(Messages) /\ Len(fs) = 1 /\ fs[1] = Frames(daq)[i]
      BY <2>1
    <2>4. /\ ~guest /\ dest = Master
          /\ UNCHANGED <<daqVars, guest, toSlave, plan, at, phase>>
      BY <1>2 DEF LoseFrames, masterVars
    <2>5. toMaster' = Queued(toMaster, fs)
      BY <2>2
    <2>6. \A k \in 1 .. Len(fs) : \E j \in 1 .. Len(Frames(daq)) : fs[k] = Frames(daq)[j]
      BY <2>3
    <2> HIDE DEF fs
    <2> QED
      BY <1>2, <2>3, <2>4, <2>5, <2>6, FramesCome
  <1> QED
    BY <1>1, <1>2

(* After a restart the slave has no address to send to.                    *)
LEMMA RebootKeeps == LinkInv /\ Reboot => LinkInv'
  <1> SUFFICES ASSUME LinkInv, Reboot PROVE LinkInv'
    OBVIOUS
  <1>1. DaqInv'
    <2>1. XCP_DAQ_MAX_ENTRIES \in Nat /\ XCP_DAQ_MAX_ODTS \in Nat
      BY XcpDaqAssumption
    <2>2. /\ [o \in Odts |-> [e \in Slots |-> NoObject]]
               \in [Odts -> [Slots -> Objects \cup {NoObject}]]
          /\ [o \in Odts |-> 0] \in [Odts -> 0 .. XCP_DAQ_MAX_ENTRIES]
          /\ 0 \in 0 .. XCP_DAQ_MAX_ODTS
      BY <2>1
    <2> QED
      BY <2>2, Origin DEF LinkInv, DaqInv, Consistent, Lists, Reboot
  <1>2. dest' # Master /\ UNCHANGED <<guest, toSlave, toMaster, plan, at, phase>>
    BY XcpLinkAssumption DEF Reboot, masterVars
  <1>3. LinkTypes' /\ OneCommand' /\ FramesFollow'
    BY <1>2 DEF LinkInv, LinkTypes, OneCommand, FramesFollow
  <1> QED
    BY <1>1, <1>2, <1>3 DEF LinkInv, ListFollows

(* A command is lost.                                                      *)
LEMMA LoseCommandKeeps == LinkInv /\ LoseCommand => LinkInv'
  <1> SUFFICES ASSUME LinkInv, LoseCommand PROVE LinkInv'
    OBVIOUS
  <1>1. UNCHANGED <<daq, dest, guest, toMaster, plan, at, phase>>
    BY DEF LoseCommand, daqVars, masterVars
  <1>2. PICK i \in 1 .. Len(toSlave) : toSlave' = RemoveAt(toSlave, i)
    BY DEF LoseCommand
  <1>3. toSlave = <<Datagram(plan, at)>> /\ phase = "wait"
    BY <1>2 DEF LinkInv, OneCommand
  <1>4. toSlave' = <<>>
    BY <1>2, <1>3 DEF RemoveAt
  <1> QED
    BY <1>1, <1>3, <1>4
       DEF LinkInv, DaqInv, LinkTypes, OneCommand, ListFollows, FramesFollow

(* The master sends the command of its step.                               *)
LEMMA SendKeeps == LinkInv /\ Send => LinkInv'
  <1> SUFFICES ASSUME LinkInv, Send PROVE LinkInv'
    OBVIOUS
  <1>1. /\ ~guest /\ phase = "send" /\ phase' = "wait"
        /\ UNCHANGED <<daq, dest, guest, toMaster, plan, at>>
    BY DEF Send, daqVars
  <1>2. toSlave = <<>> /\ \A i \in 1 .. Len(toMaster) : ~IsAnswer(toMaster[i])
    BY <1>1 DEF LinkInv, OneCommand
  <1>3. toSlave' \in {<<>>, <<Datagram(plan, at)>>}
    BY <1>2 DEF Send, Queued
  <1>4. DaqInv' /\ LinkTypes' /\ FramesFollow'
    BY <1>1 DEF LinkInv, DaqInv, LinkTypes, FramesFollow
  <1>5. OneCommand'
    BY <1>1, <1>2, <1>3 DEF OneCommand
  <1>6. ListFollows'
    BY <1>1, <1>2 DEF LinkInv, ListFollows, Accepted
  <1> QED
    BY <1>4, <1>5, <1>6 DEF LinkInv

(* A frame is taken, or an answer lost.                                    *)
LEMMA TakeFrameKeeps == LinkInv /\ (TakeFrame \/ LoseAnswer) => LinkInv'
  <1>1. ASSUME LinkInv, TakeFrame
        PROVE  LinkInv'
    <2>1. toMaster \in Seq(Messages) /\ toMaster # <<>>
      BY <1>1 DEF LinkInv, LinkTypes, TakeFrame
    <2>2. toMaster' = RemoveAt(toMaster, 1) /\ 1 \in 1 .. Len(toMaster)
      BY <1>1, <2>1, TailRemovesOne DEF TakeFrame
    <2> QED
      BY <1>1, <2>2, MessageGoes DEF TakeFrame, masterVars
  <1>2. ASSUME LinkInv, LoseAnswer
        PROVE  LinkInv'
    BY <1>2, MessageGoes DEF LoseAnswer, masterVars
  <1> QED
    BY <1>1, <1>2

(* Nothing has come: the master repeats the step, or begins anew.          *)
LEMMA TimeoutKeeps == LinkInv /\ Timeout => LinkInv'
  <1> SUFFICES ASSUME LinkInv, Timeout PROVE LinkInv'
    OBVIOUS
  <1>1. /\ toSlave = <<>> /\ phase = "wait" /\ phase' = "send" /\ ~guest
        /\ at' \in {First, Repeated(at)}
        /\ UNCHANGED <<daq, dest, guest, toSlave, toMaster, plan>>
    BY DEF LinkInv, OneCommand, Timeout, NothingComes, daqVars
  <1>2. \A i \in 1 .. Len(toMaster) : ~IsAnswer(toMaster[i])
    BY MessageKinds DEF LinkInv, LinkTypes, Timeout, NothingComes, IsFrame
  <1>3. DaqInv' /\ LinkTypes' /\ OneCommand'
    BY <1>1, <1>2, FirstIsOnPlan, RepeatedIsOnPlan
       DEF LinkInv, DaqInv, LinkTypes, OneCommand
  <1>4. at'.cmd \in UnderConstruction => at.cmd \in UnderConstruction
    BY <1>1 DEF First, Repeated, Step, UnderConstruction, Writing
  <1>5. at'.cmd = "START_STOP_DAQ_LIST" => at.cmd = "START_STOP_DAQ_LIST"
    BY <1>1 DEF First, Repeated, Step
  <1>6. FramesFollow'
    BY <1>1, <1>2, <1>4, <1>5 DEF LinkInv, FramesFollow, Accepted
  <1>7. ASSUME Before(daq, plan, at)
        PROVE  Before(daq, plan, at') /\ Ready(daq, at')
    <2>1. CASE at' = First
      BY <2>1, NothingBeforeFree DEF First, Step
    <2>2. CASE at' = at /\ at.cmd # "WRITE_DAQ"
      BY <1>7, <2>2 DEF Ready
    <2>3. CASE at.cmd = "WRITE_DAQ" /\ at' = Step("SET_DAQ_PTR", at.odt, 0)
      <3>1. at'.cmd = "SET_DAQ_PTR" /\ at'.odt = at.odt /\ at'.entry = 0
        BY <2>3 DEF Step
      <3>2. at.odt \in Nat /\ at.entry \in Nat \ {0}
        BY <2>3 DEF LinkInv, LinkTypes, OnPlan
      <3>3. \A o \in 1 .. Len(plan) : \A i \in 1 .. Len(plan[o]) :
              Stored(at', o, i) => Stored(at, o, i)
        BY <2>3, <3>1, <3>2 DEF Stored, Writing
      <3>4. ~daq.running /\ daq.odts = Len(plan)
        BY <1>7, <2>3 DEF Before, UnderConstruction, Writing
      <3>5. \A o \in 1 .. Len(plan) : daq.count[o - 1] = Len(plan[o])
        BY <1>7, <2>3 DEF Before, Counted, Writing
      <3> QED
        BY <1>7, <3>1, <3>3, <3>4, <3>5 DEF Before, Ready
    <2> QED
      BY <1>1, <2>1, <2>2, <2>3 DEF Repeated
  <1>8. ListFollows'
    BY <1>1, <1>2, <1>7 DEF LinkInv, ListFollows, Accepted
  <1> QED
    BY <1>3, <1>6, <1>8 DEF LinkInv

(* Another plan is wanted.                                                 *)
LEMMA ReplanKeeps == LinkInv /\ Replan => LinkInv'
  <1> SUFFICES ASSUME LinkInv, Replan PROVE LinkInv'
    OBVIOUS
  <1>1. /\ phase = "stream" /\ phase' = "send" /\ plan' \in Plans
        /\ at' \in {First, Following(plan, First)}
        /\ UNCHANGED <<daq, dest, guest, toSlave, toMaster>>
    BY DEF Replan, daqVars
  <1>2. ~guest /\ toSlave = <<>> /\ \A i \in 1 .. Len(toMaster) : ~IsAnswer(toMaster[i])
    BY <1>1 DEF LinkInv, OneCommand
  <1>3. at'.cmd \in {"CONNECT", "FREE_DAQ"} /\ OnPlan(plan', at')
    BY <1>1 DEF First, Following, Step, OnPlan, DialogueCommands, UnderConstruction, Writing
  <1>4. DaqInv' /\ LinkTypes' /\ OneCommand'
    BY <1>1, <1>2, <1>3 DEF LinkInv, DaqInv, LinkTypes, OneCommand
  <1>5. FramesFollow'
    BY <1>1, <1>2, <1>3 DEF FramesFollow, Accepted, UnderConstruction, Writing
  <1>6. Before(daq', plan', at') /\ Ready(daq', at')
    BY <1>3, NothingBeforeFree
  <1>7. ListFollows'
    BY <1>1, <1>2, <1>6 DEF ListFollows, Accepted
  <1> QED
    BY <1>4, <1>5, <1>7 DEF LinkInv

(* The answer to the command moves the dialogue on, or back to its start.  *)
LEMMA TakeAnswerKeeps == LinkInv /\ TakeAnswer => LinkInv'
  <1> SUFFICES ASSUME LinkInv, TakeAnswer PROVE LinkInv'
    OBVIOUS
  <1> DEFINE n == Len(toMaster)
  <1>1. /\ toMaster \in Seq(Messages) /\ toMaster # <<>> /\ phase = "wait"
        /\ IsAnswer(Head(toMaster)) /\ toMaster' = Tail(toMaster)
        /\ UNCHANGED <<daq, dest, guest, toSlave, plan>>
    BY DEF LinkInv, LinkTypes, TakeAnswer, IsAnswer, daqVars
  <1>2. /\ n \in Nat \ {0} /\ Head(toMaster) = toMaster[1]
        /\ toMaster' \in Seq(Messages) /\ Len(toMaster') = n - 1
        /\ \A j \in 1 .. n - 1 : toMaster'[j] = toMaster[j + 1]
    BY <1>1
  <1>3. 1 \in 1 .. n /\ \A j \in 1 .. n - 1 : j + 1 \in 1 .. n /\ j + 1 # 1
    BY <1>2
  <1> HIDE DEF n
  <1>4. ~guest /\ toSlave = <<>>
    BY <1>1, <1>2, <1>3 DEF LinkInv, OneCommand, n
  <1>5. \A j \in 1 .. n - 1 : ~IsAnswer(toMaster'[j])
    <2>1. \A j \in 1 .. n - 1 : ~IsAnswer(toMaster[j + 1])
      BY <1>1, <1>2, <1>3 DEF LinkInv, OneCommand, n
    <2> QED
      BY <1>2, <2>1
  <1>6. \A j \in 1 .. n - 1 : IsFrame(toMaster'[j]) => IsFrame(toMaster[j + 1])
    BY <1>2
  <1>7. plan \in Plans /\ OnPlan(plan, at) /\ DaqInv'
    BY <1>1 DEF LinkInv, LinkTypes, DaqInv
  <1>8. CASE /\ Head(toMaster).answer = "err" /\ phase' = "send" /\ at' = First
    <2>1. LinkTypes' /\ OneCommand'
      BY <1>1, <1>2, <1>4, <1>5, <1>7, <1>8, FirstIsOnPlan
         DEF LinkInv, LinkTypes, OneCommand
    <2>2. at'.cmd = "CONNECT"
      BY <1>8 DEF First, Step
    <2>3. FramesFollow'
      BY <1>2, <2>2 DEF FramesFollow, UnderConstruction, Writing
    <2>4. Before(daq', plan', at') /\ Ready(daq', at')
      BY <2>2, NothingBeforeFree
    <2>5. ListFollows'
      BY <1>2, <1>5, <2>4 DEF ListFollows, Accepted
    <2> QED
      BY <1>7, <2>1, <2>3, <2>5 DEF LinkInv
  <1>9. CASE /\ Head(toMaster).answer = "res" /\ at.cmd # "START_STOP_DAQ_LIST"
             /\ phase' = "send" /\ at' = Following(plan, at)
    <2>1. LinkTypes' /\ OneCommand'
      BY <1>1, <1>2, <1>4, <1>5, <1>7, <1>9, FollowingIsOnPlan
         DEF LinkInv, LinkTypes, OneCommand
    <2>2. Accepted(toMaster[1])
      BY <1>1, <1>2, <1>9 DEF Accepted
    <2>3. dest = Master => Before(daq, plan, at') /\ Ready(daq, at')
      BY <1>3, <1>9, <2>2 DEF LinkInv, ListFollows, n
    <2>4. ListFollows'
      BY <1>1, <1>2, <1>5, <2>3 DEF ListFollows, Accepted
    <2>5. CASE at.cmd = "CONNECT"
      <3>1. at'.cmd = "FREE_DAQ"
        BY <1>9, <2>5 DEF Following, Step
      <3> QED
        BY <1>2, <1>5, <1>7, <2>1, <2>4, <3>1
           DEF LinkInv, FramesFollow, Accepted, UnderConstruction, Writing
    <2>6. CASE at.cmd # "CONNECT"
      <3>1. \A j \in 1 .. n - 1 : ~IsFrame(toMaster'[j])
        <4>1. CASE at.cmd = "FREE_DAQ"
          <5>1. n = 1
            BY <1>3, <2>2, <4>1 DEF LinkInv, FramesFollow, n
          <5> QED
            BY <5>1
        <4>2. CASE at.cmd \in UnderConstruction
          BY <1>3, <1>6, <4>2 DEF LinkInv, FramesFollow, n
        <4> QED
          BY <1>7, <1>9, <2>6, <4>1, <4>2 DEF OnPlan, DialogueCommands
      <3> QED
        BY <1>2, <1>5, <1>7, <2>1, <2>4, <3>1 DEF LinkInv, FramesFollow, Accepted
    <2> QED
      BY <2>5, <2>6
  <1>10. CASE /\ Head(toMaster).answer = "res" /\ at.cmd = "START_STOP_DAQ_LIST"
              /\ phase' = "stream" /\ at' = at
    <2>1. LinkTypes' /\ OneCommand'
      BY <1>1, <1>2, <1>4, <1>5, <1>7, <1>10 DEF LinkInv, LinkTypes, OneCommand
    <2>2. ListFollows'
      BY <1>1, <1>2, <1>5, <1>10 DEF LinkInv, ListFollows, Accepted, Ready
    <2>3. \A j \in 1 .. n - 1 :
            IsFrame(toMaster[j + 1]) => toMaster[j + 1].objs = plan[toMaster[j + 1].pid + 1]
      BY <1>3, <1>10 DEF LinkInv, FramesFollow, n
    <2>4. \A j \in 1 .. n - 1 :
            IsFrame(toMaster'[j]) => toMaster'[j].objs = plan[toMaster'[j].pid + 1]
      BY <1>2, <2>3
    <2>5. at'.cmd \notin UnderConstruction /\ at'.cmd # "FREE_DAQ"
      BY <1>10 DEF UnderConstruction, Writing
    <2>6. FramesFollow'
      BY <1>1, <1>2, <2>4, <2>5 DEF FramesFollow
    <2> QED
      BY <1>7, <2>1, <2>2, <2>6 DEF LinkInv
  <1> QED
    BY <1>8, <1>9, <1>10 DEF TakeAnswer

-----------------------------------------------------------------------------
(* The link.                                                               *)

(* At all times the list the master is connected to has what the dialogue  *)
(* has set so far, and nothing else is on its way to the master.           *)
THEOREM LinkInvariance == Spec => []LinkInv
  <1>1. LinkInv /\ [Next]_vars => LinkInv'
    <2> SUFFICES ASSUME LinkInv, [Next]_vars PROVE LinkInv'
      OBVIOUS
    <2>1. CASE UNCHANGED vars
      BY <2>1 DEF vars, daqVars, masterVars, LinkInv, DaqInv, LinkTypes, OneCommand,
                  ListFollows, FramesFollow
    <2>2. CASE Next
      BY <2>2, GuestKeeps, ReceiveKeeps, CycleKeeps, RebootKeeps, LoseCommandKeeps, SendKeeps,
         TakeFrameKeeps, TimeoutKeeps, ReplanKeeps, TakeAnswerKeeps DEF Next, Lose
    <2> QED
      BY <2>1, <2>2
  <1> QED
    BY <1>1, LinkStarts, PTL DEF Spec

(* The arrays are never left either with a master that repeats commands    *)
(* and asks for more than they hold.                                       *)
THEOREM LinkBounds == Spec => []DaqInBounds
  <1>1. LinkInv => DaqInBounds
    BY DEF LinkInv, DaqInv, Consistent, Lists, DaqInBounds
  <1> QED
    BY <1>1, LinkInvariance, PTL

(* Between the answer to FREE_DAQ and START no frame reaches the master.   *)
THEOREM Silence == Spec => SilentWhileConfiguring
  <1>1. LinkInv /\ TakeFrame => at.cmd \in {"CONNECT", "FREE_DAQ", "START_STOP_DAQ_LIST"}
    <2> SUFFICES ASSUME LinkInv, TakeFrame
                 PROVE  at.cmd \in {"CONNECT", "FREE_DAQ", "START_STOP_DAQ_LIST"}
      OBVIOUS
    <2>1. /\ toMaster \in Seq(Messages) /\ toMaster # <<>> /\ IsFrame(Head(toMaster))
          /\ at.cmd \in DialogueCommands
      BY DEF LinkInv, LinkTypes, OnPlan, TakeFrame, IsFrame
    <2>2. 1 \in 1 .. Len(toMaster) /\ Head(toMaster) = toMaster[1]
      BY <2>1
    <2>3. at.cmd \notin UnderConstruction
      BY <2>1, <2>2 DEF LinkInv, FramesFollow
    <2> QED
      BY <2>1, <2>3 DEF DialogueCommands
  <1>2. LinkInv => [TakeFrame => at.cmd \in {"CONNECT", "FREE_DAQ", "START_STOP_DAQ_LIST"}]_vars
    BY <1>1
  <1> QED
    BY <1>2, LinkInvariance, PTL DEF SilentWhileConfiguring

(* A frame the master takes as one of its list holds the objects of its    *)
(* plan for that PID, whatever was lost, repeated or restarted before.     *)
THEOREM Decoding == Spec => DecodesAsConfigured
  <1>1. LinkInv /\ TakeFrame /\ phase = "stream"
          => Head(toMaster).objs = plan[Head(toMaster).pid + 1]
    <2> SUFFICES ASSUME LinkInv, TakeFrame, phase = "stream"
                 PROVE  Head(toMaster).objs = plan[Head(toMaster).pid + 1]
      OBVIOUS
    <2>1. /\ toMaster \in Seq(Messages) /\ toMaster # <<>> /\ IsFrame(Head(toMaster))
          /\ at.cmd = "START_STOP_DAQ_LIST"
      BY DEF LinkInv, LinkTypes, OneCommand, TakeFrame, IsFrame
    <2>2. 1 \in 1 .. Len(toMaster) /\ Head(toMaster) = toMaster[1]
      BY <2>1
    <2> QED
      BY <2>1, <2>2 DEF LinkInv, FramesFollow
  <1>2. LinkInv => [TakeFrame /\ phase = "stream"
                      => Head(toMaster).objs = plan[Head(toMaster).pid + 1]]_vars
    BY <1>1
  <1> QED
    BY <1>2, LinkInvariance, PTL DEF DecodesAsConfigured

=============================================================================
