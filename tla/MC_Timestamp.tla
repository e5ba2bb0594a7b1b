---------------------------- MODULE MC_Timestamp ----------------------------
(***************************************************************************)
(* The text of a log line.  Times 1..14 in days of 4 seconds with a        *)
(* 1-second zone offset: calls for the current, an earlier and a repeated  *)
(* time, on the same and on different local days.  Byte counts: a 2-byte  *)
(* buf, messages of 0, 1 and 2 bytes (empty, fitting, truncated), one     *)
(* header and one strerror length.  Levels LL_PERROR, LL_ERROR,           *)
(* LL_WARNING, LL_MESSAGE and LL_DEBUG1 against LogFileLevel 0 give every  *)
(* colour, the ": strerror" and "\n" cases, and a filtered call.           *)
(***************************************************************************)
EXTENDS LineFormat, TLC

MCLineLevels == -3..1
=============================================================================
