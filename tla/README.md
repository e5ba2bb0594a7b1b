# TLA+ models of neomutt's logging dispatcher and account credentials

This directory models the two source files of the repository:

- `src/mutt/logging.c`, the logging dispatcher;
- `src/mutt_account.c`, the account credential helpers used by the IMAP, POP, SMTP and NNTP code.

The models are checked with TLC. Every definition is translated from the C code. `PROJECT.json` maps each definition to the lines it models.

## 1. The system

### Logging dispatcher (`src/mutt/logging.c`)

Every log call in the program goes through the function pointer `MuttLogger`. The program points it at one of three sinks:

| sink | state it owns | what it does |
|---|---|---|
| `log_disp_file` | `LogFileFP`, `LogFileName`, `LogFileLevel`, `LogFileVersion` | Filters on `LL_PERROR <= level <= LogFileLevel` and needs an open file. It captures errno on entry, writes a header and the message, and appends `": strerror(err)"` for `LL_PERROR`. |
| `log_disp_stderr` | none of its own (reads `LogFileLevel`) | Filters the same way and formats into a `LONG_STRING` buffer. It forwards the text to `log_disp_file`, reads errno *afterwards*, then writes the text and, for `LL_PERROR`, `": strerror(errno)"` to stderr. |
| `log_disp_queue` | `LogQueue`, `LogQueueCount`, `LogQueueMax` | Used at start-up, before the log file is known. It formats into a `LONG_STRING` buffer and appends `": strerror"` in place for `LL_PERROR`, then stores the line at `LL_ERROR`. `log_queue_add` evicts the head when a non-zero bound is reached. |

The file sink is configured through these operations:

- `log_file_set_filename` records the name and re-opens if a log is open.
- `log_file_set_level`: level 0 closes the log; otherwise it opens one if none is open.
- `log_file_set_version`.
- `log_file_open` closes any open file first. `fopen` may fail. On success it writes the opening banner.
- `log_file_close` writes the closing banner.

The queue has these operations:

- `log_queue_set_max_size` clamps negative sizes to 0.
- `log_queue_empty`.
- `log_queue_save` writes every line to a file.
- `log_queue_flush(disp)` replays every queued line, head first, through `disp` at its stored level with `"%s"`, then empties the queue.

`timestamp()` is a one-entry cache. A static buffer holds the text of the static time `last`, and it is reformatted only when a different time is requested.

The program is single-threaded. Each call of a dispatcher or operation runs to completion, so each is one atomic step in the models. The rest of the program is the environment. It logs at any level with any errno left by a failed system call, swaps `MuttLogger`, and configures the file sink and the queue in any order.

### Account credentials (`src/mutt_account.c`)

A `struct Account` holds a type, host, port, flags (`USER`, `LOGIN`, `PASS`, `PORT`, `SSL`), user, login and password:

- `mutt_account_fromurl` fills it from a parsed URL. A URL without a host is rejected.
- `mutt_account_tourl` builds a URL from it.
- `mutt_account_getuser`, `mutt_account_getlogin` and `mutt_account_getpass` resolve a missing field in this order:
  1. the per-type configuration variable (`ImapUser`, `PopUser`, `NntpUser`, `ImapLogin`, `ImapPass`, `PopPass`, `SmtpPass`, `NntpPass`);
  2. failure in batch mode (`OPT_NO_CURSES`);
  3. an interactive prompt the user can cancel.
- `mutt_account_unsetpass` clears the `PASS` flag after a failed authentication.
- `mutt_account_match` compares two accounts. An account without a user stands for the configured default user.

The configuration can change at any time by `:set`. The models assume a build with `USE_IMAP`, `USE_POP`, `USE_SMTP` and `USE_NNTP`.

## 2. Modules

| module | models | state (VARIABLES) | actions |
|---|---|---|---|
| `LogBase` | levels, messages and record lines shared by the sinks | `logCalls` (number of calls made; ids) | none |
| `LogFile` | the file sink | `LogFileFP` (name opened on, or NULL), `LogFileName`, `LogFileLevel`, `LogFileVersion`, `files` (each log file's lines) | `log_file_set_filename`, `log_file_set_level`, `log_file_set_version`, `FileOpen`, `FileClose` (the program's own calls of `log_file_open`/`log_file_close`); `log_disp_file` is an operator over sink state |
| `LogFileConfig` | the file sink's configuration calls with their results | `LogFile`'s, plus the history variables `rc` (what the last configuration call returned) and `openRc` (what the `log_file_open` it made returned) | `SetFilename`, `SetLevel`, `Open`, `Close`, `SetVersion`: the `LogFile` operations, including their early returns, with the value returned |
| `QueueSinkSpec` | what the queue sink promises (spec sections 3 and 4.5): a FIFO that evicts its oldest record when it already holds `maxSize > 0` records; `LL_PERROR` records stored at `LL_ERROR` with their own error text | `records`, `maxSize`, `snapshot` | `Insert`, `SetMaxSize`, `EmptyAll`, `Save` |
| `LogQueue` | the queue sink; refines `QueueSinkSpec` | `LogQueue`, `LogQueueCount`, `LogQueueMax`, `saved`, plus the history variables `queueBufEnd` and `allocated` | `QueueCall` (a call through `log_disp_queue`), `log_queue_set_max_size`, `log_queue_empty`, `log_queue_save` |
| `QueueFlush` | `log_queue_flush` through a direct sink, one loop iteration at a time | `LogQueue`'s and `Timestamp`'s, plus `flushing`, `cur` (nodes of the list visited), `queuedAt` (each line's `ll->time`), and the history `calledAt` (when each log call was made) and `written` (the text each direct write stamped) | `QueueLogCall` (`log_disp_queue` with `time = 0`, stamped from the clock), `DirectLogCall` (a direct sink formatting `timestamp(0)`), `ClockTick`, `FlushBegin`, `FlushStep` (one `disp(...)` call, which writes the line stamped with its own `ll->time`, and `ll = ll->next`), `FlushEnd` (`log_queue_empty` and return); the queue operations run only between flushes |
| `Logging` | the three sinks together behind `MuttLogger` | the above (except `QueueFlush`'s), plus `MuttLogger` and `stderrOut` | `LogCall`, `log_queue_flush`, `SetLogger` and all the file (through `LogFileConfig`) and queue operations |
| `TimestampSpec` | what `timestamp()` promises: the local time of the requested time | `now`, `out` | `SpecCall`, `SpecTick` |
| `Timestamp` | `timestamp()` with its cache; refines `TimestampSpec` | `now`, `buf`, `last`, `asked` (history) | `timestamp`, `Tick` |
| `LineFormat` | the byte counts `log_disp_file` and `log_disp_stderr` return, and the bytes they write, with the header's call of `timestamp()` | `Timestamp`'s, plus the history `lastCall` (the inputs of the latest dispatch and its result for every pattern of failing writes) | `DispFile` (calls `timestamp(stamp)` past the filter), `DispStderr`, and `Timestamp`'s; `log_disp_file_ret`, `log_disp_stderr_ret` and `StderrBytes` are operators over lengths |
| `Account` | one account through its life; `mutt_account_tourl`, `mutt_account_fromurl` and `mutt_account_match` as operators | `account`, `cfg`, `NoCurses` | `GetUser`, `GetLogin`, `GetPass`, `mutt_account_unsetpass`, `SetCfg` |

Modelling choices:

- **errno.** errno is an input of each log call, not a state variable. Arbitrary code runs between two calls, so any value is possible. Within a call it is threaded through the sinks as a field of the sink state. A failed write to the log file leaves `WriteErr` in it.
- **Messages.** A message is the id of its call plus the error descriptions expanded into it, each represented by the errno it describes. The history fields `callLevel` and `callErr` remember the call, so properties can compare a line with the call that produced it.
- **Queue buffer.** `log_disp_queue`'s buffer is kept as lengths. `ret` is the expanded length, `BufSize` is `LONG_STRING` and `ErrTextLen` is the length of `": strerror"`. The `sizeof(buf) - ret` arithmetic is taken modulo `SizeTModulus`, so the size_t wrap is modelled by what it does.
- **Flush.** In `Logging`, `log_queue_flush` is a `FoldLeft` over the queue zipped with the write failure of each replayed line. The emptying of the queue is part of the same action. `QueueFlush` splits the loop into iterations so that log calls of the clock's other users can be compared with the replayed lines. The dispatcher is a direct sink: spec section 2 says the queue is flushed "through any other sink", so `log_queue_flush(log_disp_queue)` is outside the function's contract and is not modelled. A direct sink does not touch the list, so `cur` simply counts the nodes visited.
- **Return values.** Only the 0/-1 results of the file configuration calls are kept (`LogFileConfig`). They are history: no model action reads them.
- **Account strings.** Strings are model values. A host is `[name, upper]`, so `mutt_str_strcasecmp` can ignore case. A prompt answers one of the names, the empty string, or `Cancel`.

## 3. Runs

| run | cfg | expect | what it shows |
|---|---|---|---|
| `logging_core` | `MC_Logging.cfg` | pass | All sinks, dispatcher swaps and flushes. Properties: `ErrnoRecordedFaithfully` (log files and queue carry the caller's errno, once, only on `LL_PERROR` calls), `NoCallLoggedTwice`, `LogSessionsWellFormed` (each log file is a series of open/records/close sessions; the only open session is on `LogFileFP`), `OutputsAppendInOrder` (action: each step appends records in call order), and `TypeOK`. |
| `queue_core` | `MC_LogQueue.cfg` | pass | `QueueRefinesSinkSpec`: `LogQueue` implements `QueueSinkSpec` under `records <- LogQueue, maxSize <- LogQueueMax, snapshot <- saved`. Each `log_disp_queue` call inserts exactly one record with the call's id, stored level and error text, and evicts only as the spec says. Bounds -1..2. |
| `flush_replay_time` | `MC_QueueFlush.cfg` | pass | `ReplayKeepsCallTime`: every line written, directly or replayed by a flush through a direct sink, carries the local time of its log call and not of the flush, although the shared `timestamp` cache has moved on to later times between the queueing and the replay (and the replay asks it for earlier ones). A queue stamp taken from the clock at replay, instead of `ll->time`, breaks it. |
| `open_failure_reported` | `MC_Logging_OpenFailureReported.cfg` | violation | `OpenFailureReported`: `log_file_set_level(1)` with no filename set calls `log_file_open`, which fails, and returns 0. |
| `line_text` | `MC_Timestamp.cfg` | pass | `TimestampRefinesSpec`: `Timestamp` implements `TimestampSpec` under `out <- [time |-> asked, text |-> buf]`; the cache never returns the text of another time, including for earlier times and for the calls `log_disp_file` makes. `StderrCountMatchesOutput`: when every write succeeds and the message fits `buf`, `log_disp_stderr` returns exactly the bytes it put on stderr. |
| `account_core` | `MC_Account.cfg` | pass | `UrlRebuildsAccount`: tourl then fromurl reproduces the account, whatever credentials were resolved, cleared or reconfigured before. `LoginIsResolved`: a login the account holds comes from a confirmed user or `ImapLogin`, through any order of resolutions, `unsetpass` and `:set`. |
| `dispatch_count_doc` | `MC_Timestamp_DispatchCountFollowsDoc.cfg` | violation | `DispatchCountFollowsDoc`: the doc comments of `log_disp_file` and `log_disp_stderr` ("-1 Error, 0 filtered, >0 characters written"). An `LL_PERROR` call to `log_disp_file` with an empty message writes a header and `": strerror\n"` and returns 0, as if filtered. |
| `open_file_named` | `MC_Logging_OpenFileIsNamed.cfg` | violation | `log_file_set_filename(NULL)` while logging leaves the file open with `LogFileName = NULL`. |
| `stderr_errno` | `MC_Logging_StderrErrnoFaithful.cfg` | violation | A failed log-file write changes the errno reported on stderr. |
| `queue_within_max` | `MC_LogQueue_QueueWithinMax.cfg` | violation | After the bound is lowered, the queue stays above it. |
| `queue_buffer_bounds` | `MC_LogQueue_QueueBufferInBounds.cfg` | violation | An over-long `LL_PERROR` message makes the `": strerror"` append write past `buf`. |
| `queue_line_leak` | `MC_LogQueue_NoQueueLineLeaked.cfg` | violation | With a bound set, each add past it unlinks the oldest line without freeing it. |

Each property of a passing run has a seeded fault in `PROJECT.json` ("mutants"): a plausible bug in the mapped code that TLC finds. Examples: the flush without the empty, a queue line stamped at replay, the re-open without the close, the colour reset left uncounted, and `getlogin` ignoring a failed `getuser`.

### Findings

1. **stderr reports the wrong errno** (`logging.c:457`). `log_disp_stderr` reads errno after `log_disp_file` has written. A failed write to the log file makes the stderr `": strerror"` describe the write error.
2. **Unnamed open log** (`logging.c:124-130`, `200`). `log_file_set_filename(NULL)` stores NULL and calls `log_file_open`, which returns at its NULL check before closing the old handle.
3. **Queue bound not enforced after lowering** (`logging.c:282`). One line is evicted per add and `log_queue_set_max_size` does not trim. This contradicts the comment "the queue will be limited to this many items".
4. **Stack buffer overflow** (`logging.c:406`). `vsnprintf` returns the untruncated length, so `buf + ret` lies past the buffer and `sizeof(buf) - ret` wraps.
5. **Evicted queue lines leak** (`logging.c:284`). `STAILQ_REMOVE_HEAD` unlinks the oldest line and nothing frees it. `log_queue_empty` frees only what is still linked. The history variable `allocated` (lines allocated by `log_disp_queue` and not yet freed) shows it.
6. **Byte counts disagree with their doc comments** (`logging.c:255-265`, `438-467`). `log_disp_file` discards the header count (`ret = vfprintf`), never counts `": strerror"`, and adds 1 for the newline of levels <= 0 whether or not it was written, so a failed message write at those levels returns 0 and an `LL_PERROR` call with an empty message returns 0 after writing. `log_disp_stderr` counts the untruncated message and adds -1 for each failed `fprintf`. No caller in `src/` reads a dispatcher's result.
7. **Open failure reported as success** (`logging.c:157`, `130-131`). `log_file_set_level` and `log_file_set_filename` ignore `log_file_open`'s -1 and return 0. This contradicts spec section 7 (open failure and missing filename are reported by a failure result).

Not kept as a run:

- **Asymmetric NNTP match** (`mutt_account.c:73`). When only one NNTP account names a user, the result depends on which account is passed first. No comment or spec text states that match is symmetric, so it is noted as a hazard, not run.
- The doc comment `@retval 0 Accounts match` contradicts the code, which returns 1 on a match. Callers follow the code.

### Bounds and why they are enough

**MC_Logging**
- Two errnos: the caller's and the write error.
- Two files (symmetric), so the log can move.
- Levels `LL_PERROR`, `LL_MESSAGE` and 1. These give the three filter outcomes against thresholds 0 and 1, plus the `LL_PERROR` paths.
- Two log calls. Queue bounds -1, 0 and 1 (clamp, unbounded, evicting).
- At most 3 output lines in total, which allows a record inside an open session followed by a close, or a two-line flush.
- A `VIEW` drops the history variables, which no action reads. `open_failure_reported` keeps `rc` and `openRc` in its view (`RcView`), since its property reads them. Its cfg adds level 6, which is out of range.

**MC_QueueFlush**
- Three calls, levels `LL_PERROR` and `LL_MESSAGE`, and lengths 1 and 3.
- Bounds -1, 0 and 1: clamped, unbounded, and evicting.
- Clock 0..3 with days of 2 seconds, so the cache sees a same-second, a same-day and a new-day time, and a flush replays a line after the clock has moved.
- Every property needs at most two calls and one flush, re-open or clock move to be violated. The seeded faults are found within these bounds.

**MC_LogQueue**
- Four calls.
- Lengths 1 and 3 with `BufSize` 4 and `ErrTextLen` 2. Length 1 keeps the error text; length 3 truncates it away.
- Bounds -1..2, so eviction with a full queue and a lowered bound both occur.
- The violation cfg adds lengths 4 and 5 to reach `ret >= sizeof(buf)`.

**MC_Timestamp**
- Times 1..14, days of 4 seconds and a 1-second offset.
- Covers repeated, earlier and later times on the same and different days.
- Byte counts: `LONG_STRING` 2, messages of 0, 1 and 2 bytes (empty, fitting, truncated), levels `LL_PERROR` to `LL_DEBUG1` against `LogFileLevel` 0, so every colour, the `: strerror` and newline cases and a filtered call occur. Every pattern of failing writes is covered, because a dispatch records its result for each one. Lengths are all the counts depend on, so one header and one `strerror` length suffice.

**MC_Account**
- IMAP, NNTP and SMTP accounts (POP behaves as IMAP minus `ImapLogin`).
- One host in two cases.
- URLs with and without user, password and port, and one without host.
- Configuration values unset or `n1`. Prompts answer `n1`, `n2`, `""` or cancel.
- Batch mode on or off.

### Fairness and liveness

No fairness is assumed and no liveness property is checked. Every operation is one atomic step except the flush loop, and a flush through a direct sink walks a list nothing else changes, so its termination holds by the shape of the loop and would show nothing. The rest of the program (log calls, configuration, the clock) gets no fairness, because the code does not promise that any of it happens.

## 4. Not modelled

- **Line text.** `LevelAbbr`, the printf formats and tty detection (the tty is an input). They are text and layout; no state or caller decision in `src/` depends on them. The byte counts are modelled in `LineFormat` by lengths. `LevelAbbr[level + 3]` (`logging.c:365`) reads out of bounds only for a level outside `enum LogLevel`, which no caller in `src/` passes. The byte counts are checked against their doc comments by `dispatch_count_doc`.
- **`log_queue_flush(log_disp_queue)`.** Spec section 2 has the queue flushed through another sink; the models flush only through the direct sinks.
- **Timestamps inside `Logging`.** `Logging` leaves the timestamps out of its lines. The cache is composed with the queue and its flush in `QueueFlush`, where a replayed line meets it.
- **`mutt_message` and the prompts' UI.** These are external notifiers and input. Prompt outcomes are inputs of the account actions.
- **Memory beyond queue lines.** Only `LogLine` allocation is tracked. String copies (`mutt_str_replace`, `mutt_str_strdup`) are not: they are freed with their owner.

## 5. Plan for later work

1. Compose `Account` with the logging dispatcher for `mutt_account_getlogin`'s debug message.
2. The password prompt (`mutt_account.c:297`) shows `account->user` whether or not the user was confirmed; whether that matters depends on the callers' order outside `src/`.
