----------------------------- MODULE MC_LogQueue -----------------------------
(***************************************************************************)
(* Model-checking instance of the queue sink alone.  A 4-byte buffer with  *)
(* a 2-byte ": strerror" text: message lengths 1, 3, 4 and 5 cover an      *)
(* LL_PERROR line whose error text fits, one where it is cut off (ret =    *)
(* BufSize-1), one where snprintf gets size 0 (ret = BufSize) and one      *)
(* where sizeof(buf) - ret wraps around (ret > BufSize).  Bounds 0, 1 and  *)
(* 2 for log_queue_set_max_size, with four calls, let the queue be         *)
(* unbounded, be bounded and evict, and have its bound lowered below its   *)
(* length.                                                                 *)
(***************************************************************************)
EXTENDS LogQueue, TLC

CONSTANTS e1, e2

MCErrnos == {e1, e2}
MCLevels == {LL_PERROR, LL_MESSAGE}
MCMaxSizes == {-1, 0, 1, 2}
=============================================================================
