----------------------------- MODULE QueueFlush -----------------------------
(***************************************************************************)
(* log_queue_flush of src/mutt/logging.c one loop iteration at a time:    *)
(* STAILQ_FOREACH walks the list and passes each LogLine to disp, then     *)
(* log_queue_empty frees the queue.  Spec section 2 has the queue flushed  *)
(* through another sink, so disp is a direct sink: log_disp_file with the  *)
(* log open at a level that admits every line (the filter is modelled in   *)
(* Logging).  It leaves the list alone and writes the line stamped by      *)
(* timestamp().  The iterator is the number cur of nodes visited.         *)
(*                                                                         *)
(* Time is composed in from Timestamp: the clock now, the cache of         *)
(* timestamp(), and ll->time, kept beside the list as queuedAt[id] (a      *)
(* line's id is unique to its call).  Every log macro passes stamp 0, and  *)
(* the clock runs between the loop's iterations too.  calledAt and written *)
(* are history: the time of each call, and the lines the sink wrote with   *)
(* the text of their stamp.                                                *)
(***************************************************************************)
EXTENDS LogQueue, Timestamp

VARIABLES
  flushing,      \* a log_queue_flush call is running
  cur,           \* nodes of the current list the loop has visited
  queuedAt,      \* queuedAt[id]: ll->time of the queued line of call id
  calledAt,      \* history: calledAt[id] is the time call id was made
  written        \* history: the lines the direct sink wrote, [id, text]

flushVars == <<flushing, cur>>
timeVars == <<tsVars, queuedAt, calledAt, written>>
allVars == <<logCalls, queueVars, flushVars, timeVars>>

CallIds == 1..MaxCalls

FlushInit ==
  /\ BaseInit
  /\ QueueInit
  /\ TsInit
  /\ flushing = FALSE
  /\ cur = 0
  /\ queuedAt = [i \in CallIds |-> 0]
  /\ calledAt = [i \in CallIds |-> 0]
  /\ written = {}

\* Seeded fault: the stamp passed in is stored as it is.
QueueStamp_Raw(stamp) == stamp

\* ll->time = stamp ? stamp : time(NULL)
QueueStamp(stamp) == IF stamp # 0 THEN stamp ELSE now

\* log_disp_file writes a line: "[timestamp(stamp)]..." for call id.
WriteStamped(id, stamp) ==
  /\ timestamp(stamp)
  /\ written' = written \cup {[id |-> id, text |-> buf']}

(***************************************************************************)
(* A log call of the program while the queue sink is active: log_disp_queue *)
(* stores the line with the time of the call (stamp 0).                    *)
(***************************************************************************)
QueueLogCall(level, len, err) ==
  /\ QueueCall(level, len, err)
  /\ queuedAt' = [queuedAt EXCEPT ![logCalls + 1] = QueueStamp(0)]
  /\ calledAt' = [calledAt EXCEPT ![logCalls + 1] = now]
  /\ UNCHANGED <<tsVars, written>>

\* A log call while the direct sink is active, written at once with stamp 0.
DirectLogCall ==
  /\ logCalls < MaxCalls
  /\ logCalls' = logCalls + 1
  /\ WriteStamped(logCalls + 1, 0)
  /\ calledAt' = [calledAt EXCEPT ![logCalls + 1] = now]
  /\ UNCHANGED <<queueVars, queuedAt>>

\* log_queue_flush(disp) is called: ll = STAILQ_FIRST(&LogQueue).
FlushBegin ==
  /\ ~flushing
  /\ flushing' = TRUE
  /\ cur' = 0
  /\ UNCHANGED <<logCalls, queueVars, timeVars>>

(***************************************************************************)
(* One iteration: disp(ll->time, ..., ll->level, "%s", ll->message) for    *)
(* the next node, then ll = ll->next.                                      *)
(***************************************************************************)
FlushStep ==
  /\ flushing
  /\ cur < Len(LogQueue)
  /\ LET ll == LogQueue[cur + 1]
     IN WriteStamped(ll.id, queuedAt[ll.id])
  /\ cur' = cur + 1
  /\ UNCHANGED <<logCalls, queueVars, flushing, queuedAt, calledAt>>

\* The loop has run off the end of the list: log_queue_empty, and return.
FlushEnd ==
  /\ flushing
  /\ cur = Len(LogQueue)
  /\ EmptyQueue
  /\ flushing' = FALSE
  /\ cur' = 0
  /\ UNCHANGED <<logCalls, LogQueueMax, saved, queueBufEnd, timeVars>>

\* The rest of the program runs only between calls of log_queue_flush.
Between(A) == ~flushing /\ A /\ UNCHANGED flushVars

\* The clock runs whatever the program is doing.
ClockTick == Tick /\ UNCHANGED <<logCalls, queueVars, flushVars, queuedAt, calledAt, written>>

FlushNext ==
  \/ Between(\E level \in CallLevels, len \in Lengths, err \in Errnos :
               QueueLogCall(level, len, err))
  \/ Between(DirectLogCall)
  \/ Between(\E size \in MaxSizes : log_queue_set_max_size(size) /\ UNCHANGED <<logCalls, timeVars>>)
  \/ Between(log_queue_empty /\ UNCHANGED <<logCalls, timeVars>>)
  \/ ClockTick
  \/ FlushBegin
  \/ FlushStep
  \/ FlushEnd

FlushSpec == FlushInit /\ [][FlushNext]_allVars

-----------------------------------------------------------------------------
(***************************************************************************)
(* Every line the file sink writes, whether logged directly or replayed   *)
(* from the queue by log_queue_flush, carries the local time of the call   *)
(* that made it, not the time of the flush: log_disp_queue must resolve    *)
(* stamp 0 to time(NULL) when it queues, the replay must pass ll->time,    *)
(* and the cache of timestamp() must not answer an older time with the    *)
(* text of a newer one.                                                    *)
(***************************************************************************)
ReplayKeepsCallTime ==
  \A w \in written : w.text = Abstract!LocalTimeText(calledAt[w.id])
=============================================================================
