----------------------------- MODULE CdrWriter -----------------------------
(***************************************************************************)
(* Writing call detail records (src/src/cdr_writer.{h,cpp}): what           *)
(* SessionManager::emit_event and CDRWriter::write_record do in the threads *)
(* that call them.  Records of sessions (CREATED, TIMEOUT,                  *)
(* GRACEFUL_SHUTDOWN) are written under the unique lock of sessions_mutex_, *)
(* those of a REJECTED call under a shared lock of blacklist_mutex_, which  *)
(* keeps nobody out.                                                       *)
(*                                                                         *)
(* std::gmtime fills in one static struct tm for the whole process, and     *)
(* std::strftime reads it: each field is an access of its own.  Times are   *)
(* in milliseconds.  The logger appends a line in one step, because its     *)
(* sink has a mutex.                                                       *)
(***************************************************************************)
EXTENDS Naturals, Sequences

CONSTANTS
  Writers,     \* the threads that write records
  NoWriter,
  Millis,      \* milliseconds of a second
  Seconds,     \* seconds of a minute
  MaxTime,     \* bound: the clock stops here
  MaxRecords   \* bound: no record is begun once the file holds so many

ASSUME CdrAssumption ==
  /\ NoWriter \notin Writers
  /\ Millis \in Nat \ {0} /\ Seconds \in Nat \ {0}
  /\ MaxTime \in Nat /\ MaxRecords \in Nat

VARIABLES
  clock,       \* std::chrono::system_clock
  lock,        \* who holds sessions_mutex_
  tm,          \* the static struct tm
  wpc,         \* each thread: control
  action,      \* the action of its event: "session" or "rejected"
  timestamp,   \* the timestamp of its event
  buffer,      \* what strftime has put together
  log,         \* the file: the timestamp and the text of each record
  total_records,  \* total_records_
  disturbed    \* history: did a REJECTED call overlap with the record?

threadVars == <<wpc, action, timestamp, buffer, disturbed>>
vars == <<clock, lock, tm, threadVars, log, total_records>>

Tm == [minute : Nat, second : Nat]
Records == [action : {"session", "rejected"}, timestamp : Nat, time : Tm,
            ms : Nat, disturbed : BOOLEAN]

TypeOK ==
  /\ clock \in Nat
  /\ lock \in Writers \cup {NoWriter}
  /\ tm \in Tm
  /\ wpc \in [Writers -> {"idle", "emit", "gmtime_minute", "gmtime_second",
                          "strftime_minute", "strftime_second", "info", "count"}]
  /\ action \in [Writers -> {"session", "rejected"}]
  /\ timestamp \in [Writers -> Nat]
  /\ buffer \in [Writers -> Tm]
  /\ disturbed \in [Writers -> BOOLEAN]
  /\ log \in Seq(Records)
  /\ total_records \in Nat

minute(ms) == (ms \div Millis) \div Seconds
second(ms) == (ms \div Millis) % Seconds
gmtime(ms) == [minute |-> minute(ms), second |-> second(ms)]

Init ==
  /\ clock = 0
  /\ lock = NoWriter
  /\ tm = gmtime(0)
  /\ wpc = [t \in Writers |-> "idle"]
  /\ action = [t \in Writers |-> "session"]
  /\ timestamp = [t \in Writers |-> 0]
  /\ buffer = [t \in Writers |-> gmtime(0)]
  /\ disturbed = [t \in Writers |-> FALSE]
  /\ log = <<>>
  /\ total_records = 0

Tick ==
  /\ clock < MaxTime
  /\ clock' = clock + 1
  /\ UNCHANGED <<lock, tm, threadVars, log, total_records>>

step(t, here, next) == wpc[t] = here /\ wpc' = [wpc EXCEPT ![t] = next]

-----------------------------------------------------------------------------
(* Variant: the event is emitted after sessions_lock has been given up. *)
Unlocked_always == TRUE
Unlocked == lock = NoWriter

(* A session begins or ends. *)
begin_session(t) ==
  /\ step(t, "idle", "emit")
  /\ Len(log) < MaxRecords
  /\ Unlocked
  /\ lock' = t
  /\ action' = [action EXCEPT ![t] = "session"]
  /\ UNCHANGED <<clock, tm, timestamp, buffer, disturbed, log, total_records>>

(* create_session finds the IMSI in the blacklist. *)
begin_rejected(t) ==
  /\ step(t, "idle", "emit")
  /\ Len(log) < MaxRecords
  /\ action' = [action EXCEPT ![t] = "rejected"]
  /\ UNCHANGED <<clock, lock, tm, timestamp, buffer, disturbed, log, total_records>>

Formatting(t) ==
  wpc[t] \in {"gmtime_minute", "gmtime_second", "strftime_minute", "strftime_second"}
Overlap(t, u) ==
  t # u /\ Formatting(u) /\ (action[t] = "rejected" \/ action[u] = "rejected")

(* emit_event takes the time and calls write_record. *)
emit_event(t) ==
  /\ step(t, "emit", "gmtime_minute")
  /\ timestamp' = [timestamp EXCEPT ![t] = clock]
  /\ disturbed' = [u \in Writers |-> IF u = t THEN \E v \in Writers : Overlap(t, v)
                                     ELSE disturbed[u] \/ Overlap(t, u)]
  /\ UNCHANGED <<clock, lock, tm, action, buffer, log, total_records>>

format_gmtime(t) ==
  /\ \/ /\ step(t, "gmtime_minute", "gmtime_second")
        /\ tm' = [tm EXCEPT !.minute = minute(timestamp[t])]
     \/ /\ step(t, "gmtime_second", "strftime_minute")
        /\ tm' = [tm EXCEPT !.second = second(timestamp[t])]
  /\ UNCHANGED <<clock, lock, action, timestamp, buffer, disturbed, log,
                 total_records>>

format_strftime(t) ==
  /\ \/ /\ step(t, "strftime_minute", "strftime_second")
        /\ buffer' = [buffer EXCEPT ![t].minute = tm.minute]
     \/ /\ step(t, "strftime_second", "info")
        /\ buffer' = [buffer EXCEPT ![t].second = tm.second]
  /\ UNCHANGED <<clock, lock, tm, action, timestamp, disturbed, log, total_records>>

(* Variant: the line gets the milliseconds of the time it is written at. *)
format_record_late(t) ==
  [action |-> action[t], timestamp |-> timestamp[t], time |-> buffer[t],
   ms |-> clock % Millis, disturbed |-> disturbed[t]]

format_record(t) ==
  [action |-> action[t], timestamp |-> timestamp[t], time |-> buffer[t],
   ms |-> timestamp[t] % Millis, disturbed |-> disturbed[t]]

(* cdr_logger_->info(record) *)
write_record(t) ==
  /\ step(t, "info", "count")
  /\ log' = Append(log, format_record(t))
  /\ UNCHANGED <<clock, lock, tm, action, timestamp, buffer, disturbed,
                 total_records>>

(* total_records_++, and the lock is given up on the way back. *)
count_record(t) ==
  /\ step(t, "count", "idle")
  /\ total_records' = total_records + 1
  /\ lock' = IF action[t] = "session" THEN NoWriter ELSE lock
  /\ UNCHANGED <<clock, tm, action, timestamp, buffer, disturbed, log>>

-----------------------------------------------------------------------------
WriterStep(t) ==
  \/ begin_session(t) \/ begin_rejected(t) \/ emit_event(t) \/ format_gmtime(t)
  \/ format_strftime(t) \/ write_record(t) \/ count_record(t)

(* There is nothing to record. *)
Quiet == (\A t \in Writers : wpc[t] = "idle") /\ UNCHANGED vars

Next == Tick \/ Quiet \/ \E t \in Writers : WriterStep(t)

Spec == Init /\ [][Next]_vars

-----------------------------------------------------------------------------
(* The records of sessions are in the file in the order of their times,     *)
(* although emit_event takes the time long before the line is appended:     *)
(* both happen under sessions_mutex_.                                      *)
SessionRecordsInOrder ==
  \A j, k \in 1 .. Len(log) :
    j < k /\ log[j].action = "session" /\ log[k].action = "session"
      => log[j].timestamp <= log[k].timestamp

OwnTime(r) == r.time = gmtime(r.timestamp) /\ r.ms = r.timestamp % Millis

(* A record carries the time of its event unless a REJECTED call was        *)
(* formatting its own record at the same time: records of sessions do not   *)
(* disturb one another.                                                    *)
OwnTimeUnlessDisturbed ==
  \A k \in 1 .. Len(log) : ~log[k].disturbed => OwnTime(log[k])

(* What the two rest on.  sessions_mutex_ is held by the thread that is     *)
(* writing the record of a session; no record is younger than the clock,    *)
(* none of a session younger than the one being written; two threads that   *)
(* format at once are disturbed; and the static struct tm belongs to a      *)
(* thread that is not.                                                     *)
Writing(t) == wpc[t] = "info" \/ Formatting(t)

LockHeld ==
  \A t \in Writers : lock = t <=> action[t] = "session" /\ wpc[t] # "idle"

NoneYounger ==
  /\ \A t \in Writers : timestamp[t] <= clock
  /\ \A k \in 1 .. Len(log) : log[k].timestamp <= clock
  /\ \A t \in Writers : action[t] = "session" /\ Writing(t) =>
       \A k \in 1 .. Len(log) :
         log[k].action = "session" => log[k].timestamp <= timestamp[t]

BothDisturbed ==
  \A t, u \in Writers : t # u /\ Formatting(t) /\ Formatting(u) => disturbed[t]

OwnTm ==
  \A t \in Writers : ~disturbed[t] =>
    /\ wpc[t] \in {"gmtime_second", "strftime_minute"} =>
         tm.minute = minute(timestamp[t])
    /\ wpc[t] \in {"strftime_minute", "strftime_second"} =>
         tm.second = second(timestamp[t])
    /\ wpc[t] \in {"strftime_second", "info"} =>
         buffer[t].minute = minute(timestamp[t])
    /\ wpc[t] = "info" => buffer[t].second = second(timestamp[t])

CdrInv ==
  /\ TypeOK
  /\ LockHeld
  /\ NoneYounger
  /\ BothDisturbed
  /\ OwnTm
  /\ SessionRecordsInOrder
  /\ OwnTimeUnlessDisturbed

(* "Write CDR record (thread-safe via spdlog)": every record carries the    *)
(* time of its event.                                                      *)
OwnTimeAlways == \A k \in 1 .. Len(log) : OwnTime(log[k])
=============================================================================
