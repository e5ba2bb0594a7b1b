---------------------------- MODULE TimestampSpec ----------------------------
(***************************************************************************)
(* What timestamp() of src/mutt/logging.c promises its callers: the text   *)
(* it returns is the local date and time of the requested Unix time, or   *)
(* of the current time when 0 is requested.  No cache appears here.       *)
(***************************************************************************)
EXTENDS Integers

CONSTANTS
  SecondsPerDay,  \* seconds in a day, scaled down
  UtcOffset,      \* the local time zone's offset from UTC, in seconds
  MaxTime,        \* bound on the clock
  Empty           \* the empty string

VARIABLES
  now,            \* what time(NULL) returns
  out             \* the last call: the time it was for and the text it returned

\* strftime("%Y-%m-%d %H:%M:%S", localtime(&t)): the local day and the
\* second within it.
LocalTimeText(t) ==
  LET local == t + UtcOffset
  IN [day |-> local \div SecondsPerDay, second |-> local % SecondsPerDay]

SpecInit ==
  /\ now = 1
  /\ out = [time |-> 0, text |-> Empty]

\* A call for `stamp`, 0 meaning "now".
SpecCall(stamp) ==
  LET t == IF stamp = 0 THEN now ELSE stamp
  IN /\ out' = [time |-> t, text |-> LocalTimeText(t)]
     /\ UNCHANGED now

SpecTick ==
  /\ now < MaxTime
  /\ now' = now + 1
  /\ UNCHANGED out

\* Callers pass 0 or a time already seen (the time of a queued LogLine).
SpecNext ==
  \/ \E stamp \in 0..now : SpecCall(stamp)
  \/ SpecTick

SpecSpec == SpecInit /\ [][SpecNext]_<<now, out>>
=============================================================================
