------------------------------ MODULE MCHealth ------------------------------
(* The instance of Health that the runs check.                             *)
EXTENDS Health

\* The sensor task and Housekeeping, 20 ms and 100 ms in the code.
MCPeriod == <<1, 2>>

\* Both registers show in the data when they are not set, as the BMP581's
\* press_en and its start of conversions.
MCShown == {1, 2}
=============================================================================
