------------------------------- MODULE LogFile -------------------------------
(***************************************************************************)
(* The file sink of src/mutt/logging.c: the globals LogFileFP,             *)
(* LogFileName, LogFileLevel and LogFileVersion, the operations            *)
(* log_file_set_filename, log_file_set_level, log_file_set_version,        *)
(* log_file_open and log_file_close, and the dispatcher log_disp_file.     *)
(*                                                                         *)
(* LogFileFP is the name of the file the handle was opened on (NULL when   *)
(* closed).  The variable files holds every log file's content as a        *)
(* sequence of lines; files are opened "a+", so content survives a close.  *)
(* mutt_message (the verbose confirmations) is an external notifier and    *)
(* changes no state of this component; timestamps are left out here and   *)
(* modelled in Timestamp.                                                  *)
(***************************************************************************)
EXTENDS LogBase

CONSTANTS
  FileNames,  \* names a log file can be given (model values)
  Versions    \* values given to log_file_set_version (model values)

VARIABLES
  LogFileFP,       \* NULL, or the name the open handle was opened on
  LogFileName,
  LogFileLevel,
  LogFileVersion,
  files            \* files[f]: the lines written to log file f

fileVars == <<LogFileFP, LogFileName, LogFileLevel, LogFileVersion, files>>

\* "[ts] NeoMutt<version> debugging at level <n>" and "[ts] Closing log."
OpenLine == [kind: {"open"}, level: 0..5, version: Versions \cup {NULL}]
CloseLine == [kind: {"close"}]
FileLine == RecLine \cup OpenLine \cup CloseLine

OpenBanner(level) == [kind |-> "open", level |-> level, version |-> LogFileVersion]
CloseBanner == [kind |-> "close"]

FileTypeOK ==
  /\ LogFileFP \in FileNames \cup {NULL}
  /\ LogFileName \in FileNames \cup {NULL}
  /\ LogFileLevel \in 0..5
  /\ LogFileVersion \in Versions \cup {NULL}
  /\ files \in [FileNames -> Seq(FileLine)]

FileInit ==
  /\ LogFileFP = NULL
  /\ LogFileName = NULL
  /\ LogFileLevel = 0
  /\ LogFileVersion = NULL
  /\ files = [f \in FileNames |-> <<>>]

(***************************************************************************)
(* log_file_close, as a function of the handle and the files: write the    *)
(* closing banner to the open file (the handle is then released).          *)
(***************************************************************************)
log_file_close(fp, fs) ==
  IF fp = NULL THEN fs ELSE [fs EXCEPT ![fp] = Append(@, CloseBanner)]

\* Seeded fault: an open handle is not closed before the new open.
log_file_open_NoClose(name, level, ok) ==
  IF name = NULL
  THEN UNCHANGED <<LogFileFP, files>>
  ELSE /\ LogFileFP' = IF ok THEN name ELSE NULL
       /\ files' = IF ok THEN [files EXCEPT ![name] = Append(@, OpenBanner(level))]
                         ELSE files

(***************************************************************************)
(* log_file_open with LogFileName = name and LogFileLevel = level: no name *)
(* is an error; an open handle is closed first; fopen may fail (ok =       *)
(* FALSE), which leaves the sink closed; on success the banner is written. *)
(***************************************************************************)
log_file_open(name, level, ok) ==
  IF name = NULL
  THEN UNCHANGED <<LogFileFP, files>>
  ELSE LET closed == log_file_close(LogFileFP, files)
       IN /\ LogFileFP' = IF ok THEN name ELSE NULL
          /\ files' = IF ok THEN [closed EXCEPT ![name] = Append(@, OpenBanner(level))]
                            ELSE closed

(***************************************************************************)
(* log_file_set_filename(file): nothing if the name is unchanged (also     *)
(* both NULL); otherwise record it and, when a log is open, re-open.       *)
(***************************************************************************)
log_file_set_filename(file, ok) ==
  /\ file # LogFileName
  /\ LogFileName' = file
  /\ IF LogFileFP = NULL
     THEN UNCHANGED <<LogFileFP, files>>
     ELSE log_file_open(file, LogFileLevel, ok)
  /\ UNCHANGED <<LogFileLevel, LogFileVersion>>

(***************************************************************************)
(* log_file_set_level(level): 0..5 only, nothing if unchanged; level 0     *)
(* closes the log, a new level on an open log only tells the user, and on  *)
(* a closed log it opens one.                                              *)
(***************************************************************************)
log_file_set_level(level, ok) ==
  /\ level \in 0..5
  /\ level # LogFileLevel
  /\ LogFileLevel' = level
  /\ CASE level = 0 ->
            /\ files' = log_file_close(LogFileFP, files)
            /\ LogFileFP' = NULL
       [] LogFileFP # NULL -> UNCHANGED <<LogFileFP, files>>
       [] OTHER -> log_file_open(LogFileName, level, ok)
  /\ UNCHANGED <<LogFileName, LogFileVersion>>

log_file_set_version(v) ==
  /\ LogFileVersion' = v
  /\ UNCHANGED <<LogFileFP, LogFileName, LogFileLevel, files>>

\* A direct call of log_file_open by the program.
FileOpen(ok) ==
  /\ log_file_open(LogFileName, LogFileLevel, ok)
  /\ UNCHANGED <<LogFileName, LogFileLevel, LogFileVersion>>

\* A direct call of log_file_close by the program.
FileClose ==
  /\ LogFileFP # NULL
  /\ files' = log_file_close(LogFileFP, files)
  /\ LogFileFP' = NULL
  /\ UNCHANGED <<LogFileName, LogFileLevel, LogFileVersion>>

(***************************************************************************)
(* log_disp_file on sink state st = [files, errno] for message m: filtered *)
(* unless a file is open and LL_PERROR <= level <= LogFileLevel; errno is  *)
(* captured before anything is written; a failing write (failed) leaves    *)
(* WriteErr in errno.                                                      *)
(***************************************************************************)
log_disp_file(st, m, level, failed) ==
  IF LogFileFP = NULL \/ level < LL_PERROR \/ level > LogFileLevel
  THEN st
  ELSE [st EXCEPT
          !.files[LogFileFP] = Append(@, RecordLine(m, level, st.errno)),
          !.errno = IF failed THEN WriteErr ELSE @]
=============================================================================
