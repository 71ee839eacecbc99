------------------------------- MODULE MCDshot -------------------------------
(***************************************************************************)
(* The two ways an ESC answers (Dshot.c): telemetry bytes that four ESCs   *)
(* put on one wire, and the reply on the motor's own line.  A behaviour    *)
(* follows one of them.                                                    *)
(***************************************************************************)
EXTENDS Dshot, DshotReply

VARIABLE subject

MCvars == <<subject, vars, replyVars>>

MCInit ==
  /\ subject \in {"telemetry", "reply"}
  /\ Init /\ ReplyInit
  /\ subject = "telemetry" => sent = CHOOSE m \in Messages : TRUE
  /\ subject = "reply" => mute = {}

Telemetry == subject = "telemetry" /\ UNCHANGED <<subject, replyVars>>
Reply     == subject = "reply" /\ UNCHANGED <<subject, vars>>

\* An answer ends with its window.
ReplyEnded == Reply /\ outcome # "window" /\ UNCHANGED replyVars

MCNext == (Telemetry /\ Next) \/ (Reply /\ ReplyNext) \/ ReplyEnded

MCSpec ==
  /\ MCInit /\ [][MCNext]_MCvars
  /\ WF_MCvars(Telemetry /\ Dshot_task) /\ WF_MCvars(Telemetry /\ EscByte)

\* Bytes with every nibble in either place.
Crossed == UNION {{16 * n + n, 16 * n, n} : n \in 0 .. 15}

\* Speed words of every exponent with these low bytes: of each the longest period, so that
\* truncation shows.  Of the extended telemetry every tag.
MCPeriods ==
  Crossed \cup {m * 2^e + 2^e - 1 : m \in {256 + b : b \in Crossed}, e \in 0 .. 7}
MCTags == {2, 4, 6, 8, 10, 12, 14}
MCPayloads == {16 * n + n : n \in 0 .. 15}
=============================================================================
