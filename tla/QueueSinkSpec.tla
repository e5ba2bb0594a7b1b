---------------------------- MODULE QueueSinkSpec ----------------------------
(***************************************************************************)
(* What the queue sink promises (spec sections 3 and 4.5): a FIFO of      *)
(* records with a bound maxSize, 0 meaning unbounded.  A record is added   *)
(* at the tail; the oldest is evicted when the queue already holds         *)
(* maxSize or more records and maxSize > 0.  A record made by an LL_PERROR *)
(* call is stored at LL_ERROR and carries that call's error description,   *)
(* unless truncation dropped it.  Emptying removes every record; saving    *)
(* copies them to the destination without changing the queue.  No list    *)
(* pointers, counter or formatting buffer appear here.                     *)
(***************************************************************************)
EXTENDS LogBase

VARIABLES
  records,    \* the queued records, oldest first
  maxSize,    \* the bound, 0 = unbounded
  snapshot    \* what the last save wrote

sinkVars == <<logCalls, records, maxSize, snapshot>>

\* A record as the queue sink stores it for the log call it came from.
StoredRecord(r) ==
  /\ r.level = IF r.callLevel = LL_PERROR THEN LL_ERROR ELSE r.callLevel
  /\ r.errs \in IF r.callLevel = LL_PERROR THEN {<<>>, <<r.callErr>>} ELSE {<<>>}

\* The queue after r is inserted into q under bound max.
Admit(q, r, max) ==
  IF max > 0 /\ Len(q) >= max THEN Tail(Append(q, r)) ELSE Append(q, r)

SinkInit ==
  /\ logCalls = 0
  /\ records = <<>>
  /\ maxSize = 0
  /\ snapshot = <<>>

\* A log call reaches the queue sink: its record is the new tail.
Insert ==
  /\ logCalls' = logCalls + 1
  /\ records' # <<>>
  /\ LET r == Last(records')
     IN /\ r.id = logCalls'
        /\ StoredRecord(r)
        /\ records' = Admit(records, r, maxSize)
  /\ UNCHANGED <<maxSize, snapshot>>

SetMaxSize ==
  /\ maxSize' \in Nat
  /\ UNCHANGED <<logCalls, records, snapshot>>

EmptyAll ==
  /\ records' = <<>>
  /\ UNCHANGED <<logCalls, maxSize, snapshot>>

Save ==
  /\ snapshot' = records
  /\ UNCHANGED <<logCalls, records, maxSize>>

SinkNext == Insert \/ SetMaxSize \/ EmptyAll \/ Save

SinkSpec == SinkInit /\ [][SinkNext]_sinkVars
=============================================================================
