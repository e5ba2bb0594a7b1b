------------------------------- MODULE LogBase -------------------------------
(***************************************************************************)
(* Vocabulary shared by the sinks of the logging dispatcher of             *)
(* src/mutt/logging.c: the log levels, the identity of a log call, and the *)
(* shape of the lines the sinks write.                                     *)
(*                                                                         *)
(* errno is not a state variable: between two log calls arbitrary code of  *)
(* the program runs and may leave any value in it, so its value at a call  *)
(* is an input of that call.  Inside a call it is threaded through the     *)
(* sinks, which may change it by a failing write.                          *)
(*                                                                         *)
(* Text is abstracted to what the properties tell apart.  A message is the *)
(* log call it came from (an id) together with the error descriptions      *)
(* (strerror texts, represented by the errno they describe) that have been *)
(* expanded into it.  Two history fields, callLevel and callErr, remember  *)
(* the level and the errno at the log call; they are never read by an     *)
(* action and exist only to state properties.                              *)
(***************************************************************************)
EXTENDS Integers, Sequences, SequencesExt

CONSTANTS
  Errnos,     \* errno values a failing system call can leave (model values)
  WriteErr,   \* the errno a failing write to the log file leaves behind
  CallLevels, \* the levels the program logs at
  MaxCalls,   \* bound on the number of log calls in a behaviour
  NULL        \* the null pointer / "not set"

ASSUME WriteErr \in Errnos
ASSUME MaxCalls \in Nat

Levels == -3..5
ASSUME CallLevels \subseteq Levels

VARIABLE
  logCalls    \* number of log calls made so far; the id of the latest call

\* enum LogLevel (mutt/logging.h): lower is more severe.
LL_PERROR  == -3
LL_ERROR   == -2
LL_WARNING == -1
LL_MESSAGE == 0
LL_DEBUG5  == 5

(***************************************************************************)
(* A message while it travels through sinks, and a record line of an       *)
(* output (log file or stderr).  Banner lines of the log file are defined  *)
(* in LogFile.                                                             *)
(***************************************************************************)
Msg == [id: Nat, errs: Seq(Errnos), callLevel: Levels, callErr: Errnos]

RecLine == [kind: {"rec"}, id: Nat, level: Levels, errs: Seq(Errnos),
            callLevel: Levels, callErr: Errnos]

\* The message of a fresh log call made at `level` while errno is `err`.
NewMsg(id, level, err) ==
  [id |-> id, errs |-> <<>>, callLevel |-> level, callErr |-> err]

\* What a direct sink appends after the message: ": strerror(err)" for
\* LL_PERROR only.
PerrorSuffix(level, err) == IF level = LL_PERROR THEN <<err>> ELSE <<>>

\* The record line a direct sink writes for message m at `level`, with `err`
\* the errno the sink captured.
RecordLine(m, level, err) ==
  [kind |-> "rec", id |-> m.id, level |-> level,
   errs |-> m.errs \o PerrorSuffix(level, err),
   callLevel |-> m.callLevel, callErr |-> m.callErr]

BaseTypeOK == logCalls \in 0..MaxCalls

BaseInit == logCalls = 0

(***************************************************************************)
(* A property shared by every sink: each error description carried by a    *)
(* line or record is the errno of its own log call, it is carried at most  *)
(* once, and only a call made at LL_PERROR carries one.  A description may *)
(* be missing: the queue sink truncates long messages by design.           *)
(***************************************************************************)
ErrTextFaithful(l) ==
  /\ Len(l.errs) <= 1
  /\ \A i \in DOMAIN l.errs : l.errs[i] = l.callErr
  /\ l.errs # <<>> => l.callLevel = LL_PERROR
=============================================================================
