---------------------------- MODULE LogFileConfig ----------------------------
(***************************************************************************)
(* The configuration calls of the file sink with their return values:      *)
(* log_file_set_filename, log_file_set_level and log_file_open return 0 or *)
(* -1, log_file_close and log_file_set_version return nothing.  rc is what *)
(* the last configuration call returned and openRc what the log_file_open  *)
(* it made returned (NULL when it made none).  Both are history: no call   *)
(* reads them.  The state changes are those of LogFile.                    *)
(***************************************************************************)
EXTENDS LogFile

VARIABLES
  rc,        \* return value of the last configuration call
  openRc     \* return value of the log_file_open that call made

rcVars == <<rc, openRc>>

RcTypeOK ==
  /\ rc \in {0, -1, NULL}
  /\ openRc \in {0, -1, NULL}

RcInit ==
  /\ rc = NULL
  /\ openRc = NULL

\* What log_file_open returns: -1 without a name or when fopen fails.
open_rc(name, ok) == IF name = NULL \/ ~ok THEN -1 ELSE 0

(***************************************************************************)
(* log_file_set_filename(file): 0 when the name is unchanged; -1 when no   *)
(* log is open ("not running yet"), the name being kept; otherwise the    *)
(* re-open, and 0 whatever log_file_open returned.                         *)
(***************************************************************************)
SetFilename(file, ok) ==
  IF file = LogFileName
  THEN /\ UNCHANGED fileVars
       /\ rc' = 0
       /\ openRc' = NULL
  ELSE /\ log_file_set_filename(file, ok)
       /\ rc' = IF LogFileFP = NULL THEN -1 ELSE 0
       /\ openRc' = IF LogFileFP = NULL THEN NULL ELSE open_rc(file, ok)

(***************************************************************************)
(* log_file_set_level(level): -1 outside 0..5, 0 when unchanged; else the  *)
(* new level is applied, opening a closed log for a level above 0, and 0   *)
(* is returned whatever log_file_open returned.                            *)
(***************************************************************************)
SetLevel(level, ok) ==
  IF level \notin 0..5 \/ level = LogFileLevel
  THEN /\ UNCHANGED fileVars
       /\ rc' = IF level \notin 0..5 THEN -1 ELSE 0
       /\ openRc' = NULL
  ELSE /\ log_file_set_level(level, ok)
       /\ rc' = 0
       /\ openRc' = IF level # 0 /\ LogFileFP = NULL THEN open_rc(LogFileName, ok) ELSE NULL

\* A direct call of log_file_open returns its own result.
Open(ok) ==
  /\ FileOpen(ok)
  /\ rc' = open_rc(LogFileName, ok)
  /\ openRc' = rc'

\* log_file_close and log_file_set_version return nothing.
Close ==
  /\ FileClose
  /\ rc' = NULL
  /\ openRc' = NULL

SetVersion(v) ==
  /\ log_file_set_version(v)
  /\ rc' = NULL
  /\ openRc' = NULL

ConfigNext(SetLevels) ==
  \/ \E f \in FileNames \cup {NULL}, ok \in BOOLEAN : SetFilename(f, ok)
  \/ \E l \in SetLevels, ok \in BOOLEAN : SetLevel(l, ok)
  \/ \E v \in Versions : SetVersion(v)
  \/ \E ok \in BOOLEAN : Open(ok)
  \/ Close

-----------------------------------------------------------------------------
(***************************************************************************)
(* Spec section 7: an open failure is reported to the immediate caller by  *)
(* a failure result.  A configuration call whose log_file_open failed      *)
(* returns -1.                                                             *)
(***************************************************************************)
OpenFailureReported == openRc = -1 => rc = -1
=============================================================================
