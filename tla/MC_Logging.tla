----------------------------- MODULE MC_Logging -----------------------------
(***************************************************************************)
(* Model-checking instance of Logging.  Two errno values tell a call's     *)
(* own errno from the one a failed log-file write leaves; two log files    *)
(* let log_file_set_filename move the log; call levels LL_PERROR,          *)
(* LL_MESSAGE and LL_DEBUG1 cover the three filter outcomes (always        *)
(* passes, passes at threshold 0, passes only at threshold >= 1) and the   *)
(* LL_PERROR special cases (stored as LL_ERROR by the queue).  Messages   *)
(* are 1 byte with a 4-byte buffer, so the queued error text fits; its    *)
(* truncation and overflow are checked by MC_LogQueue.  Queue bounds -1,  *)
(* 0 and 1 cover the clamp, unbounded and evicting queues.                *)
(***************************************************************************)
EXTENDS Logging, TLC

CONSTANTS e1, e2, f1, f2, v1

MCErrnos == {e1, e2}
MCFileNames == {f1, f2}
MCVersions == {v1}
MCLevels == {LL_PERROR, LL_MESSAGE, 1}
MCMaxSizes == {-1, 0, 1}

\* Bound: at most MaxOutputLines lines written to the log files and stderr
\* together; it also bounds the open/close cycles of the log file.
MaxOutputLines == 3
OutputBound ==
  Len(stderrOut) + SumFunction([f \in FileNames |-> Len(files[f])]) <= MaxOutputLines

\* The two log files are interchangeable: nothing in Logging names one.
FileSymmetry == Permutations(MCFileNames)

\* queueBufEnd, allocated, rc and openRc are history: no action reads them
\* and no property of MC_Logging.cfg mentions them, so states that differ
\* only in them have the same futures.
StateView == <<logCalls, fileVars, LogQueue, LogQueueCount, LogQueueMax, saved,
               MuttLogger, stderrOut>>

\* rc and openRc are history too; a run whose property reads them keeps them.
RcView == <<StateView, rcVars>>
=============================================================================
