--------------------------- MODULE MCDailyFiles ---------------------------
(***************************************************************************)
(* Small instances for TLC: the service, or the service and one `--once`   *)
(* process, over the underlying and the option file of one ticker.         *)
(***************************************************************************)
EXTENDS DailyFiles

OneWriter  == {"service"}
TwoWriters == {"service", "once"}

OneFile  == {"options"}
TwoFiles == {"underlying", "options"}
=============================================================================
