------------------------------- MODULE Logging -------------------------------
(***************************************************************************)
(* The logging dispatcher of src/mutt/logging.c as a whole: the function   *)
(* pointer MuttLogger through which every log call goes, the three sinks   *)
(* it can point at (log_disp_stderr, log_disp_file, log_disp_queue), and   *)
(* log_queue_flush, which replays the queue through one of the other two.  *)
(*                                                                         *)
(* The program around the dispatcher (main.c and every mutt_debug caller)  *)
(* is the environment: it logs at any level through MuttLogger, swaps      *)
(* MuttLogger, configures the file sink and the queue, and makes system    *)
(* calls that fail and set errno.  Everything is single-threaded, so each  *)
(* call of the C code is one atomic step.  log_queue_save writes only to a *)
(* file of its caller and is checked with the queue alone (LogQueue).      *)
(***************************************************************************)
EXTENDS LogQueue, LogFileConfig

CONSTANT
  FileLevels     \* arguments given to log_file_set_level

VARIABLES
  MuttLogger,    \* the active dispatcher
  stderrOut      \* the lines written to stderr

vars == <<logCalls, fileVars, queueVars, MuttLogger, stderrOut, rcVars>>

Dispatchers == {"log_disp_stderr", "log_disp_file", "log_disp_queue"}

TypeOK ==
  /\ BaseTypeOK
  /\ FileTypeOK
  /\ RcTypeOK
  /\ QueueTypeOK
  /\ MuttLogger \in Dispatchers
  /\ stderrOut \in Seq(RecLine)

Init ==
  /\ BaseInit
  /\ FileInit
  /\ RcInit
  /\ QueueInit
  /\ MuttLogger = "log_disp_stderr"
  /\ stderrOut = <<>>

(***************************************************************************)
(* The state the direct sinks write, the log files and stderr, together    *)
(* with errno, which is err when the call starts.                          *)
(***************************************************************************)
SinkState(err) == [files |-> files, errno |-> err, stderr |-> stderrOut]

SetSinkState(st) ==
  /\ files' = st.files
  /\ stderrOut' = st.stderr

(***************************************************************************)
(* log_disp_stderr: the same filter as the file sink, but against          *)
(* LogFileLevel whether or not a file is open.  The expanded message is    *)
(* first passed to log_disp_file ("%s", buf); only then is errno read for  *)
(* the ": strerror" of an LL_PERROR line.  Colour and the newline are      *)
(* layout and left out.                                                    *)
(***************************************************************************)
log_disp_stderr(st, m, level, failed) ==
  IF level < LL_PERROR \/ level > LogFileLevel
  THEN st
  ELSE LET s1 == log_disp_file(st, m, level, failed)
       IN [s1 EXCEPT !.stderr = Append(@, RecordLine(m, level, s1.errno))]

\* Calling the direct sink d through the function pointer.
Dispatch(d, st, m, level, failed) ==
  IF d = "log_disp_file" THEN log_disp_file(st, m, level, failed)
                         ELSE log_disp_stderr(st, m, level, failed)

(***************************************************************************)
(* A log call MuttLogger(0, __FILE__, __LINE__, __func__, level, ...) made *)
(* anywhere in the program, with err in errno as the failing call left it. *)
(* len is the length of the expanded message and failed whether the write *)
(* to the log file fails.                                                  *)
(***************************************************************************)
LogCall(level, len, err, failed) ==
  /\ logCalls < MaxCalls
  /\ logCalls' = logCalls + 1
  /\ LET m == NewMsg(logCalls + 1, level, err)
     IN IF MuttLogger = "log_disp_queue"
        THEN /\ log_disp_queue(m, level, len, err)
             /\ UNCHANGED <<files, stderrOut>>
        ELSE /\ SetSinkState(Dispatch(MuttLogger, SinkState(err), m, level, failed))
             /\ UNCHANGED queueVars
  /\ UNCHANGED <<LogFileFP, LogFileName, LogFileLevel, LogFileVersion, MuttLogger>>

\* Seeded fault: the queue is not emptied after the replay.
log_queue_flush_NoEmpty(disp, err, fails) ==
  LET replay(st, p) == Dispatch(disp, st, p[1], p[1].level, p[2])
  IN /\ SetSinkState(FoldLeft(replay, SinkState(err), Zip(LogQueue, fails)))
     /\ UNCHANGED <<queueVars, logCalls, MuttLogger,
                    LogFileFP, LogFileName, LogFileLevel, LogFileVersion>>

\* Seeded fault: the queue is replayed tail first.
log_queue_flush_TailFirst(disp, err, fails) ==
  LET replay(p, st) == Dispatch(disp, st, p[1], p[1].level, p[2])
  IN /\ SetSinkState(FoldRight(replay, Zip(LogQueue, fails), SinkState(err)))
     /\ EmptyQueue
     /\ UNCHANGED <<LogQueueMax, saved, queueBufEnd, logCalls, MuttLogger,
                    LogFileFP, LogFileName, LogFileLevel, LogFileVersion>>

(***************************************************************************)
(* log_queue_flush(disp): every queued LogLine, head first, is passed to   *)
(* disp with its own level and "%s" of its message; then the queue is      *)
(* emptied whatever disp returned.  err is errno when flushing starts and  *)
(* fails[i] says whether the write of the i-th replayed line to the log    *)
(* file fails.                                                             *)
(***************************************************************************)
log_queue_flush(disp, err, fails) ==
  LET replay(st, p) == Dispatch(disp, st, p[1], p[1].level, p[2])
  IN /\ SetSinkState(FoldLeft(replay, SinkState(err), Zip(LogQueue, fails)))
     /\ EmptyQueue
     /\ UNCHANGED <<LogQueueMax, saved, queueBufEnd, logCalls, MuttLogger,
                    LogFileFP, LogFileName, LogFileLevel, LogFileVersion>>

\* main.c swaps the dispatcher by assigning MuttLogger.
SetLogger(d) ==
  /\ MuttLogger' = d
  /\ UNCHANGED <<logCalls, fileVars, queueVars, stderrOut>>

\* The calls that return no value of the file sink's configuration.
OtherNext ==
  \/ \E level \in CallLevels, len \in Lengths, err \in Errnos, failed \in BOOLEAN :
       LogCall(level, len, err, failed)
  \/ \E d \in Dispatchers \ {"log_disp_queue"}, err \in Errnos :
       \E fails \in [1..Len(LogQueue) -> BOOLEAN] : log_queue_flush(d, err, fails)
  \/ \E d \in Dispatchers : SetLogger(d)
  \/ /\ \/ \E size \in MaxSizes : log_queue_set_max_size(size)
        \/ log_queue_empty
     /\ UNCHANGED <<logCalls, fileVars, MuttLogger, stderrOut>>

Next ==
  \/ OtherNext /\ UNCHANGED rcVars
  \/ ConfigNext(FileLevels) /\ UNCHANGED <<logCalls, queueVars, MuttLogger, stderrOut>>

Spec == Init /\ [][Next]_vars

-----------------------------------------------------------------------------
RecLinesOf(s) == SelectSeq(s, LAMBDA l : l.kind = "rec")

\* The kind of the last banner ("open"/"close") among the first n lines of s.
LastBanner(s, n) ==
  LET banners == SelectSeq(SubSeq(s, 1, n), LAMBDA l : l.kind # "rec")
  IN IF banners = <<>> THEN "none" ELSE Last(banners).kind

(***************************************************************************)
(* Every error description in a log file, and in a queued LogLine, is the  *)
(* errno of the LL_PERROR call it belongs to, and appears once.  It can    *)
(* fail if a sink reads errno after something that sets it, or if a queued *)
(* LL_PERROR line is replayed still at LL_PERROR and the replaying sink    *)
(* appends the errno current at flush time.                                *)
(***************************************************************************)
ErrnoRecordedFaithfully ==
  /\ \A f \in FileNames : \A i \in DOMAIN files[f] :
       files[f][i].kind = "rec" => ErrTextFaithful(files[f][i])
  /\ \A i \in DOMAIN LogQueue : ErrTextFaithful(LogQueue[i])

(***************************************************************************)
(* The same for stderr: spec section 5 requires errno to be captured       *)
(* before any other work of the call; log_disp_stderr reads it after       *)
(* log_disp_file has written to the log file.                              *)
(***************************************************************************)
StderrErrnoFaithful ==
  \A i \in DOMAIN stderrOut : ErrTextFaithful(stderrOut[i])

(***************************************************************************)
(* No log call reaches the log files twice, nor stderr twice: a queued     *)
(* line is replayed by exactly one log_queue_flush, which must empty the   *)
(* queue, and a direct call is written once.                               *)
(***************************************************************************)
NoCallLoggedTwice ==
  LET fileIds == [f \in FileNames |-> [i \in DOMAIN RecLinesOf(files[f]) |->
                                        RecLinesOf(files[f])[i].id]]
      errIds == [i \in DOMAIN stderrOut |-> stderrOut[i].id]
  IN /\ \A f, g \in FileNames : \A i \in DOMAIN fileIds[f], j \in DOMAIN fileIds[g] :
          fileIds[f][i] = fileIds[g][j] => f = g /\ i = j
     /\ \A i, j \in DOMAIN errIds : errIds[i] = errIds[j] => i = j

(***************************************************************************)
(* Each log file is a sequence of sessions "open, records, close": a       *)
(* record is written only inside a session, sessions do not nest, and the  *)
(* only file with a session left open is the one LogFileFP is open on.     *)
(* Re-opening through log_file_set_filename or log_file_set_level must     *)
(* close the old file first.                                               *)
(***************************************************************************)
LogSessionsWellFormed ==
  \A f \in FileNames :
    /\ \A i \in DOMAIN files[f] :
         IF files[f][i].kind = "open"
         THEN LastBanner(files[f], i - 1) # "open"
         ELSE LastBanner(files[f], i - 1) = "open"
    /\ (LastBanner(files[f], Len(files[f])) = "open") <=> (LogFileFP = f)

\* The ids of the record lines that a step appends to output s.
AppendedIds(s, t) ==
  LET new == RecLinesOf(SubSeq(t, Len(s) + 1, Len(t)))
  IN [i \in DOMAIN new |-> new[i].id]

IsAscending(ids) == \A i, j \in DOMAIN ids : i < j => ids[i] < ids[j]

(***************************************************************************)
(* Replay keeps the order of the log: whatever a single step appends to a  *)
(* log file or to stderr is in the order the calls were made.  Only        *)
(* log_queue_flush appends more than one record at a time.                 *)
(***************************************************************************)
OutputsAppendInOrder ==
  [][/\ \A f \in FileNames : IsAscending(AppendedIds(files[f], files'[f]))
     /\ IsAscending(AppendedIds(stderrOut, stderrOut'))]_vars

(***************************************************************************)
(* Spec section 3: "fileHandle is non-null only if filename is non-null    *)
(* and the open succeeded", i.e. the log is open on the file LogFileName   *)
(* names.                                                                  *)
(***************************************************************************)
OpenFileIsNamed ==
  LogFileFP # NULL => LogFileFP = LogFileName
=============================================================================
