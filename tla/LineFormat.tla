----------------------------- MODULE LineFormat -----------------------------
(***************************************************************************)
(* The byte counts log_disp_file and log_disp_stderr of src/mutt/logging.c *)
(* return, next to the bytes they write.  Text is abstracted to lengths:   *)
(* the header "[ts]<L> function() " is hdr bytes, the expanded message msg *)
(* bytes, a strerror text errLen bytes.  Every stdio write of a call       *)
(* either writes all of its text or fails and returns -1; w[x] says       *)
(* whether write x succeeded.  An unfiltered log_disp_file formats its    *)
(* header with timestamp(stamp), so a dispatch is composed with the cache  *)
(* of Timestamp.  The history variable lastCall records the inputs and the *)
(* result of the latest dispatch; no code reads it.                        *)
(***************************************************************************)
EXTENDS Timestamp

CONSTANTS
  LONG_STRING,  \* size of log_disp_stderr's buf
  HdrLens,      \* lengths of the header log_disp_file writes
  MsgLens,      \* lengths of expanded messages
  ErrLens,      \* lengths of strerror texts
  LineLevels,   \* levels the calls are made at
  FileLevels    \* values of LogFileLevel

LOCAL LL_PERROR  == -3
LOCAL LL_ERROR   == -2
LOCAL LL_WARNING == -1

\* What fprintf, vfprintf and fputs return: the length, or -1 on failure.
Put(len, ok) == IF ok THEN len ELSE -1

\* Writes of log_disp_file: header, message, and the ": strerror\n" or "\n".
FileWrites == {"hdr", "body", "tail"}

\* The filter both direct sinks apply before writing anything.
Filtered(level, fileLevel) == level < LL_PERROR \/ level > fileLevel

(***************************************************************************)
(* log_disp_file's result: 0 when filtered (fp FALSE: LogFileFP is NULL);  *)
(* ret += fprintf(header) is overwritten by ret = vfprintf(message); the   *)
(* ": strerror\n" of LL_PERROR is not counted, the "\n" of the other       *)
(* levels <= 0 is counted by ret++ whatever fputs returned.                *)
(***************************************************************************)
log_disp_file_ret(fp, fileLevel, level, hdr, msg, w) ==
  IF ~fp \/ Filtered(level, fileLevel) THEN 0
  ELSE LET ret == Put(msg, w["body"])
       IN IF level # LL_PERROR /\ level <= 0 THEN ret + 1 ELSE ret

\* The bytes one unfiltered log_disp_file call puts in the file.
FileBytes(level, hdr, msg, errLen, w) ==
  LET tail == CASE level = LL_PERROR -> errLen + 3
                [] level <= 0        -> 1
                [] OTHER             -> 0
      Part(x, len) == IF w[x] THEN len ELSE 0
  IN Part("hdr", hdr) + Part("body", msg) + Part("tail", tail)

\* Writes of log_disp_stderr: colour, buf, ": strerror", reset, "\n".
StderrWrites == {"colour", "buf", "err", "reset", "nl"}

\* The ANSI colour of a level on a tty (0: none).
Colour(level) ==
  CASE level \in {LL_PERROR, LL_ERROR} -> 31
    [] level = LL_WARNING              -> 33
    [] OTHER                           -> 0

\* Lengths of "\033[1;%dm" and "\033[0m".
ColourLen == 7
ResetLen == 4

\* Seeded fault: the colour reset is written but not counted.
log_disp_stderr_ret_NoReset(fileLevel, level, msg, errLen, tty, w) ==
  IF Filtered(level, fileLevel) THEN 0
  ELSE LET on == tty /\ Colour(level) > 0
       IN msg + (IF on THEN Put(ColourLen, w["colour"]) ELSE 0)
              + (IF level = LL_PERROR THEN Put(2 + errLen, w["err"]) ELSE 0)
              + (IF level < 1 THEN Put(1, w["nl"]) ELSE 0)

(***************************************************************************)
(* log_disp_stderr's result: ret starts as vsnprintf's return, the length  *)
(* of the untruncated message, and adds every fprintf's return (-1 on      *)
(* failure); the fputs of buf is not counted.  Forwarding to log_disp_file *)
(* does not change it.                                                     *)
(***************************************************************************)
log_disp_stderr_ret(fileLevel, level, msg, errLen, tty, w) ==
  IF Filtered(level, fileLevel) THEN 0
  ELSE LET on == tty /\ Colour(level) > 0
       IN msg + (IF on THEN Put(ColourLen, w["colour"]) ELSE 0)
              + (IF level = LL_PERROR THEN Put(2 + errLen, w["err"]) ELSE 0)
              + (IF on THEN Put(ResetLen, w["reset"]) ELSE 0)
              + (IF level < 1 THEN Put(1, w["nl"]) ELSE 0)

\* The bytes one unfiltered log_disp_stderr call puts on stderr: buf holds
\* at most LONG_STRING - 1 bytes of the message.
StderrBytes(level, msg, errLen, tty, w) ==
  LET on == tty /\ Colour(level) > 0
      Part(x, len) == IF w[x] THEN len ELSE 0
  IN (IF on THEN Part("colour", ColourLen) + Part("reset", ResetLen) ELSE 0)
     + Part("buf", IF msg < LONG_STRING THEN msg ELSE LONG_STRING - 1)
     + (IF level = LL_PERROR THEN Part("err", 2 + errLen) ELSE 0)
     + (IF level < 1 THEN Part("nl", 1) ELSE 0)
-----------------------------------------------------------------------------
VARIABLE lastCall

lineVars == <<tsVars, lastCall>>

\* The inputs of one log_disp_file call, open or closed log file.
FileCalls ==
  [fp: BOOLEAN, fileLevel: FileLevels, level: LineLevels, hdr: HdrLens,
   msg: MsgLens, errLen: ErrLens]

\* The inputs of one log_disp_stderr call.
StderrCalls ==
  [fileLevel: FileLevels, level: LineLevels, msg: MsgLens, errLen: ErrLens,
   tty: BOOLEAN]

\* Which writes of a call succeed is up to stdio: a dispatch records its
\* result for every pattern of outcomes.
FileOutcomes == [FileWrites -> BOOLEAN]
StderrOutcomes == [StderrWrites -> BOOLEAN]

LineTypeOK ==
  /\ TsTypeOK
  /\ lastCall \in {Empty}
                 \cup [sink: {"file"}, in: FileCalls, ret: [FileOutcomes -> Int]]
                 \cup [sink: {"stderr"}, in: StderrCalls, ret: [StderrOutcomes -> Int]]

LineInit == TsInit /\ lastCall = Empty

\* log_disp_file(stamp, ...): the header's timestamp(stamp) is called only
\* past the filter.
DispFile(stamp, c) ==
  /\ IF ~c.fp \/ Filtered(c.level, c.fileLevel)
     THEN UNCHANGED tsVars
     ELSE timestamp(stamp)
  /\ lastCall' = [sink |-> "file", in |-> c,
                  ret |-> [w \in FileOutcomes |->
                             log_disp_file_ret(c.fp, c.fileLevel, c.level, c.hdr, c.msg, w)]]

\* log_disp_stderr(stamp, ...) with the log file closed: its call of
\* log_disp_file is filtered and the count is stderr's alone.
DispStderr(c) ==
  /\ lastCall' = [sink |-> "stderr", in |-> c,
                  ret |-> [w \in StderrOutcomes |->
                             log_disp_stderr_ret(c.fileLevel, c.level, c.msg, c.errLen, c.tty, w)]]
  /\ UNCHANGED tsVars

LineNext ==
  \/ TsNext /\ UNCHANGED lastCall
  \/ \E stamp \in 0..now, c \in FileCalls : DispFile(stamp, c)
  \/ \E c \in StderrCalls : DispStderr(c)

LineSpec == LineInit /\ [][LineNext]_lineVars

\* A dispatch that wrote nothing: LogFileFP NULL or the level filtered out.
CallFiltered(l) ==
  \/ l.sink = "file" /\ ~l.in.fp
  \/ Filtered(l.in.level, l.in.fileLevel)

\* The bytes dispatch l put in its output under the write outcomes w.
CallBytes(l, w) ==
  IF l.sink = "file"
  THEN FileBytes(l.in.level, l.in.hdr, l.in.msg, l.in.errLen, w)
  ELSE StderrBytes(l.in.level, l.in.msg, l.in.errLen, l.in.tty, w)

(***************************************************************************)
(* The doc comments of log_disp_file and log_disp_stderr: "-1 Error,       *)
(* 0 Success, filtered, >0 Success, number of characters written".  An     *)
(* unfiltered call whose writes all succeed returns the bytes it wrote,    *)
(* and one with a failed write returns -1.                                 *)
(***************************************************************************)
DispatchCountFollowsDoc ==
  lastCall # Empty /\ ~CallFiltered(lastCall) =>
    \A w \in DOMAIN lastCall.ret :
      lastCall.ret[w] = IF \A x \in DOMAIN w : w[x] THEN CallBytes(lastCall, w) ELSE -1

\* Every write of log_disp_stderr succeeds.
AllOk == [x \in StderrWrites |-> TRUE]

(***************************************************************************)
(* When every write succeeds and the message fits buf, log_disp_stderr     *)
(* returns exactly the bytes it put on stderr: the colour and its reset,   *)
(* buf, ": strerror" and the newline are all counted.                      *)
(***************************************************************************)
StderrCountMatchesOutput ==
  lastCall # Empty /\ lastCall.sink = "stderr" =>
    LET c == lastCall.in
    IN ~Filtered(c.level, c.fileLevel) /\ c.msg < LONG_STRING
         => lastCall.ret[AllOk] = StderrBytes(c.level, c.msg, c.errLen, c.tty, AllOk)
=============================================================================
