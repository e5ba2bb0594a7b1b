------------------------------ MODULE LogQueue ------------------------------
(***************************************************************************)
(* The queue sink of src/mutt/logging.c: the list LogQueue with its        *)
(* counters LogQueueCount and LogQueueMax, the dispatcher log_disp_queue   *)
(* with log_queue_add, and log_queue_set_max_size, log_queue_empty and     *)
(* log_queue_save.  log_queue_flush replays the queue through another sink *)
(* and is modelled in Logging, which composes the sinks.                   *)
(*                                                                         *)
(* The formatting buffer of log_disp_queue is kept as numbers: the length  *)
(* of the expanded message, the buffer size LONG_STRING (BufSize) and the  *)
(* length of ": strerror(err)" (ErrTextLen), so that truncation and the    *)
(* size_t arithmetic of the second snprintf are modelled by what they do.  *)
(***************************************************************************)
EXTENDS LogBase

CONSTANTS
  BufSize,       \* LONG_STRING, the size of buf in log_disp_queue
  ErrTextLen,    \* length of ": <strerror text>"
  SizeTModulus,  \* 2^w for the w-bit size_t (any value > BufSize+ErrTextLen+MaxLen shows the wrap)
  Lengths,       \* lengths of expanded messages the callers produce
  MaxSizes       \* arguments given to log_queue_set_max_size

ASSUME BufSize \in Nat \ {0} /\ ErrTextLen \in Nat /\ Lengths \subseteq Nat
ASSUME SizeTModulus > BufSize

VARIABLES
  LogQueue,       \* the STAILQ of LogLine, head first
  LogQueueCount,
  LogQueueMax,
  saved,          \* what the last log_queue_save wrote to its file
  queueBufEnd,    \* history: last byte of buf written by the last ": strerror" append, -1 if none
  allocated       \* history: ids of the LogLines allocated and not yet freed

queueVars == <<LogQueue, LogQueueCount, LogQueueMax, saved, queueBufEnd, allocated>>

\* struct LogLine; file, line and function are kept as they are and left out.
LogLine == [id: Nat, level: Levels, errs: Seq(Errnos), callLevel: Levels, callErr: Errnos]

QueueTypeOK ==
  /\ LogQueue \in Seq(LogLine)
  /\ LogQueueCount \in Nat
  /\ LogQueueMax \in Nat
  /\ saved \in Seq(LogLine)
  /\ queueBufEnd \in Int
  /\ allocated \subseteq Nat

QueueInit ==
  /\ LogQueue = <<>>
  /\ LogQueueCount = 0
  /\ LogQueueMax = 0
  /\ saved = <<>>
  /\ queueBufEnd = -1
  /\ allocated = {}

\* Seeded fault: the count is incremented on eviction too.
log_queue_add_CountsEvicted(ll) ==
  LET evict == LogQueueMax > 0 /\ LogQueueCount >= LogQueueMax
      inserted == Append(LogQueue, ll)
  IN /\ LogQueue' = IF evict THEN Tail(inserted) ELSE inserted
     /\ LogQueueCount' = LogQueueCount + 1

(***************************************************************************)
(* log_queue_add: insert at the tail; if the queue is bounded and the      *)
(* count has reached the bound, drop the head, else count the new line.    *)
(***************************************************************************)
log_queue_add(ll) ==
  LET evict == LogQueueMax > 0 /\ LogQueueCount >= LogQueueMax
      inserted == Append(LogQueue, ll)
  IN /\ LogQueue' = IF evict THEN Tail(inserted) ELSE inserted
     /\ LogQueueCount' = IF evict THEN LogQueueCount ELSE LogQueueCount + 1

(***************************************************************************)
(* log_disp_queue for message m at `level`, whose expansion is `len` bytes *)
(* long, with err the errno captured on entry.  vsnprintf returns len and  *)
(* keeps at most BufSize-1 bytes.  For LL_PERROR, snprintf(buf + ret,      *)
(* sizeof(buf) - ret, ": %s", ...) writes min(ErrTextLen, size-1) bytes    *)
(* and a NUL at buf+ret, where size is computed in size_t; the text is     *)
(* visible in the stored copy only when ret < BufSize-1.  The stored level *)
(* of an LL_PERROR line is LL_ERROR.                                       *)
(***************************************************************************)
\* Seeded fault: an LL_PERROR line is stored at LL_PERROR.
log_disp_queue_KeepsPerror(m, level, len, err) ==
  LET ret == len
      size == (BufSize - ret) % SizeTModulus
      perror == level = LL_PERROR
      shown == IF perror /\ ret < BufSize - 1 THEN <<err>> ELSE <<>>
      ll == [id |-> m.id, level |-> level,
             errs |-> m.errs \o shown, callLevel |-> m.callLevel, callErr |-> m.callErr]
  IN /\ queueBufEnd' = IF perror /\ size > 0
                       THEN ret + Min({ErrTextLen, size - 1})
                       ELSE -1
     /\ allocated' = allocated \cup {ll.id}
     /\ log_queue_add(ll)
     /\ UNCHANGED <<LogQueueMax, saved>>

log_disp_queue(m, level, len, err) ==
  LET ret == len
      size == (BufSize - ret) % SizeTModulus
      perror == level = LL_PERROR
      shown == IF perror /\ ret < BufSize - 1 THEN <<err>> ELSE <<>>
      ll == [id |-> m.id, level |-> IF perror THEN LL_ERROR ELSE level,
             errs |-> m.errs \o shown, callLevel |-> m.callLevel, callErr |-> m.callErr]
  IN /\ queueBufEnd' = IF perror /\ size > 0
                       THEN ret + Min({ErrTextLen, size - 1})
                       ELSE -1
     /\ allocated' = allocated \cup {ll.id}
     /\ log_queue_add(ll)
     /\ UNCHANGED <<LogQueueMax, saved>>

\* Seeded fault: a negative size is not clamped to 0.
log_queue_set_max_size_Unclamped(size) ==
  /\ LogQueueMax' = size
  /\ UNCHANGED <<LogQueue, LogQueueCount, saved, queueBufEnd, allocated>>

log_queue_set_max_size(size) ==
  /\ LogQueueMax' = IF size < 0 THEN 0 ELSE size
  /\ UNCHANGED <<LogQueue, LogQueueCount, saved, queueBufEnd, allocated>>

\* log_queue_empty, as the conjunct shared by the operations that call it:
\* every line still linked in the queue is freed.
EmptyQueue ==
  /\ allocated' = allocated \ {LogQueue[i].id : i \in DOMAIN LogQueue}
  /\ LogQueue' = <<>>
  /\ LogQueueCount' = 0

log_queue_empty ==
  /\ EmptyQueue
  /\ UNCHANGED <<LogQueueMax, saved, queueBufEnd>>

(***************************************************************************)
(* log_queue_save(fp): every line, in order, is written to the file; the   *)
(* queue is not changed.  A NULL fp returns 0 and changes nothing.         *)
(***************************************************************************)
log_queue_save ==
  /\ saved' = LogQueue
  /\ UNCHANGED <<LogQueue, LogQueueCount, LogQueueMax, queueBufEnd, allocated>>

-----------------------------------------------------------------------------
(***************************************************************************)
(* The queue sink on its own: the program logs through log_disp_queue      *)
(* (MuttLogger = log_disp_queue) and manages the queue.                    *)
(***************************************************************************)
QueueCall(level, len, err) ==
  /\ logCalls < MaxCalls
  /\ logCalls' = logCalls + 1
  /\ log_disp_queue(NewMsg(logCalls + 1, level, err), level, len, err)

QueueNext ==
  \/ \E level \in CallLevels, len \in Lengths, err \in Errnos : QueueCall(level, len, err)
  \/ \E size \in MaxSizes : log_queue_set_max_size(size) /\ UNCHANGED logCalls
  \/ log_queue_empty /\ UNCHANGED logCalls
  \/ log_queue_save /\ UNCHANGED logCalls

QueueSpecInit == BaseInit /\ QueueInit

QueueSpec == QueueSpecInit /\ [][QueueNext]_<<logCalls, queueVars>>

-----------------------------------------------------------------------------
\* The queue sink as spec sections 3 and 4.5 describe it: the list is the
\* abstract FIFO; LogQueueCount, the buffer and the allocations are hidden.
Sink == INSTANCE QueueSinkSpec WITH records <- LogQueue, maxSize <- LogQueueMax,
                                    snapshot <- saved

(***************************************************************************)
(* The linked list, its separate counter and the formatting buffer         *)
(* implement the bounded FIFO of the spec: log_queue_add evicts exactly    *)
(* when the abstract queue is full (LogQueueCount must track the list's    *)
(* length through adds, evictions and empties), log_disp_queue stores an   *)
(* LL_PERROR line at LL_ERROR with its own error text, and log_queue_save  *)
(* copies the queue in order.                                              *)
(***************************************************************************)
QueueRefinesSinkSpec == Sink!SinkSpec

(***************************************************************************)
(* The comment of log_queue_add: "If LogQueueMax is non-zero, the queue    *)
(* will be limited to this many items": every queue a log_disp_queue call  *)
(* leaves is within a non-zero LogQueueMax.                                *)
(***************************************************************************)
QueueWithinMax ==
  [][logCalls' # logCalls /\ LogQueueMax > 0 => Len(LogQueue') <= LogQueueMax]_<<logCalls, queueVars>>

(***************************************************************************)
(* Every LogLine log_disp_queue allocates is either still in the queue or  *)
(* has been freed: log_queue_add must free the head it evicts, as         *)
(* log_queue_empty frees what it removes.                                 *)
(***************************************************************************)
NoQueueLineLeaked ==
  allocated = {LogQueue[i].id : i \in DOMAIN LogQueue}

(***************************************************************************)
(* The ": strerror" append of log_disp_queue writes only inside buf.       *)
(***************************************************************************)
QueueBufferInBounds ==
  queueBufEnd < BufSize
=============================================================================
