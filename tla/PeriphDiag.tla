----------------------------- MODULE PeriphDiag -----------------------------
(***************************************************************************)
(* The fault detection of one fitted peripheral (PeriphDiag.c): what a     *)
(* sensor task reports after each read, and what the 100 ms update makes   *)
(* of it.  The entries of different peripherals do not touch each other.   *)
(***************************************************************************)
EXTENDS Integers

CONSTANTS
  PD_TIMEOUT_TICKS, PD_STUCK_TICKS, PD_IMPLAUSIBLE_TICKS, PD_BUS_STUCK_TICKS,
  COUNTER_MAX,  \* where the counters saturate (0xFFFF)
  NoValue       \* lastLive before the first report

ASSUME PeriphDiagAssumption ==
  /\ {PD_TIMEOUT_TICKS, PD_STUCK_TICKS, PD_IMPLAUSIBLE_TICKS, PD_BUS_STUCK_TICKS}
       \subseteq 1 .. COUNTER_MAX
  /\ COUNTER_MAX \in Nat

PeriphDiag_init ==
  [everOk |-> FALSE, sawOk |-> FALSE, sawImplausible |-> FALSE, lastLive |-> NoValue,
   silentTicks |-> 0, frozenTicks |-> 0, implausibleTicks |-> 0]

\* Mutant: the counter wraps.
Counted_Wraps(n) == (n + 1) % (COUNTER_MAX + 1)

Counted(n) == IF n < COUNTER_MAX THEN n + 1 ELSE n

pd_track(ticks, active) == IF active THEN Counted(ticks) ELSE 0

PeriphDiag_report(st, readOk, plausible, liveness) ==
  IF ~readOk THEN st
  ELSE [st EXCEPT !.sawOk = TRUE, !.everOk = TRUE,
                  !.sawImplausible = @ \/ ~plausible,
                  !.frozenTicks = pd_track(@, liveness = st.lastLive),
                  !.lastLive = liveness]

\* Mutant: the flags of a window are kept.
WindowConsumed_Kept(st) == st

WindowConsumed(st) == [st EXCEPT !.sawOk = FALSE, !.sawImplausible = FALSE]

\* The counters PeriphDiag_update leaves.
PeriphDiag_update(st) ==
  WindowConsumed([st EXCEPT !.silentTicks = pd_track(@, ~st.sawOk),
                            !.implausibleTicks = pd_track(@, st.sawImplausible)])

\* The bits it returns, from those counters.
StatusBits(st) ==
  (IF ~st.everOk THEN {"noResponse"}
   ELSE IF st.silentTicks >= PD_TIMEOUT_TICKS THEN {"timeout"} ELSE {})
  \cup (IF st.frozenTicks >= PD_STUCK_TICKS THEN {"stuck"} ELSE {})
  \cup (IF st.implausibleTicks >= PD_IMPLAUSIBLE_TICKS THEN {"implausible"} ELSE {})
=============================================================================
