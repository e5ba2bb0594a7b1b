------------------------------ MODULE Timestamp ------------------------------
(***************************************************************************)
(* timestamp() of src/mutt/logging.c: a one-entry cache, the static buf    *)
(* holding the text of the static time `last`, reformatted only when a     *)
(* different time is requested.  The caller copies the returned buffer     *)
(* into its output before the next call (fprintf), so the text a call      *)
(* returns is buf right after it.  The program is single-threaded, so a    *)
(* call is one step.  The history variable asked records the time the     *)
(* last call was for, so that each answer can be compared with it.        *)
(***************************************************************************)
EXTENDS Integers

CONSTANTS SecondsPerDay, UtcOffset, MaxTime, Empty

VARIABLES
  now,     \* what time(NULL) returns
  buf,     \* static char buf[23] = ""
  last,    \* static time_t last = 0
  asked    \* history: the time the last call was for

tsVars == <<now, buf, last, asked>>

Abstract == INSTANCE TimestampSpec WITH out <- [time |-> asked, text |-> buf]

TsTypeOK ==
  /\ now \in 1..MaxTime
  /\ last \in 0..MaxTime
  /\ asked \in 0..MaxTime
  /\ buf \in {Empty} \cup {Abstract!LocalTimeText(t) : t \in 1..MaxTime}

TsInit ==
  /\ now = 1
  /\ buf = Empty
  /\ last = 0
  /\ asked = 0

\* Seeded fault: 0 is replaced by the current time only after the cache test.
timestamp_ResolvesLate(stamp) ==
  /\ IF stamp # last
     THEN /\ buf' = Abstract!LocalTimeText(stamp)
          /\ last' = stamp
     ELSE UNCHANGED <<buf, last>>
  /\ asked' = IF stamp = 0 THEN now ELSE stamp
  /\ UNCHANGED now

\* Seeded fault: the cache is also reused for an earlier time.
timestamp_ReusesForEarlier(stamp) ==
  LET t == IF stamp = 0 THEN now ELSE stamp
  IN /\ IF t > last
        THEN /\ buf' = Abstract!LocalTimeText(t)
             /\ last' = t
        ELSE UNCHANGED <<buf, last>>
     /\ asked' = t
     /\ UNCHANGED now

(***************************************************************************)
(* timestamp(stamp): 0 means time(NULL); a time other than last is         *)
(* formatted into buf and remembered.                                      *)
(***************************************************************************)
timestamp(stamp) ==
  LET t == IF stamp = 0 THEN now ELSE stamp
  IN /\ IF t # last
        THEN /\ buf' = Abstract!LocalTimeText(t)
             /\ last' = t
        ELSE UNCHANGED <<buf, last>>
     /\ asked' = t
     /\ UNCHANGED now

\* The clock advances between calls.
Tick ==
  /\ now < MaxTime
  /\ now' = now + 1
  /\ UNCHANGED <<buf, last, asked>>

TsNext ==
  \/ \E stamp \in 0..now : timestamp(stamp)
  \/ Tick

TsSpec == TsInit /\ [][TsNext]_tsVars

(***************************************************************************)
(* The cache is invisible: every text timestamp() returns is the local     *)
(* time of the time asked for, as TimestampSpec says.  The flush of the    *)
(* queue asks for older times than the last one formatted.                 *)
(***************************************************************************)
TimestampRefinesSpec == Abstract!SpecSpec
=============================================================================
