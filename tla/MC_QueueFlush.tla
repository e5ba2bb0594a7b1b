---------------------------- MODULE MC_QueueFlush ----------------------------
(***************************************************************************)
(* Up to three calls, queued or written directly, bounds -1, 0 and 1 (so  *)
(* a queued line can be evicted before the flush), and flushes through a   *)
(* direct sink.  The clock runs to 3 in days of 2 seconds, so a line can   *)
(* be queued and flushed at different times, on the same or on another     *)
(* day, and the clock can move between two replayed lines.                 *)
(***************************************************************************)
EXTENDS QueueFlush, TLC

CONSTANTS e1, e2

MCErrnos == {e1, e2}
MCLevels == {LL_PERROR, LL_MESSAGE}
MCMaxSizes == {-1, 0, 1}
=============================================================================
