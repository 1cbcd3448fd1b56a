-------------------------- MODULE CdrWriterProofs --------------------------
(***************************************************************************)
(* Proofs about CdrWriter for any number of threads and records.           *)
(***************************************************************************)
EXTENDS CdrWriter, FiniteSetTheorems, TLAPS

(* The fields of struct tm. *)
LEMMA TimeType ==
  ASSUME NEW ms \in Nat
  PROVE  minute(ms) \in Nat /\ second(ms) \in Nat /\ ms % Millis \in Nat
<1>1. PICK s \in Nat : s = ms \div Millis
  BY CdrAssumption
<1>2. s \div Seconds \in Nat /\ s % Seconds \in Nat /\ ms % Millis \in Nat
  BY CdrAssumption
<1> QED
  BY <1>1, <1>2 DEF minute, second

(* TypeOK, action by action. *)
LEMMA TypeStep == TypeOK /\ [Next]_vars => TypeOK'
<1> SUFFICES ASSUME TypeOK, [Next]_vars PROVE TypeOK'
  OBVIOUS
<1> USE CdrAssumption DEF TypeOK, threadVars, step
<1>1. CASE Tick
  BY <1>1 DEF Tick
<1>2. ASSUME NEW t \in Writers, begin_session(t) \/ begin_rejected(t) PROVE TypeOK'
  BY <1>2 DEF begin_session, begin_rejected
<1>3. ASSUME NEW t \in Writers, emit_event(t) PROVE TypeOK'
  <2>1. disturbed' \in [Writers -> BOOLEAN]
    BY <1>3 DEF emit_event, Overlap, Formatting
  <2> QED
    BY <1>3, <2>1 DEF emit_event
<1>4. ASSUME NEW t \in Writers, format_gmtime(t) PROVE TypeOK'
  <2>1. minute(timestamp[t]) \in Nat /\ second(timestamp[t]) \in Nat
    BY TimeType
  <2>2. tm' \in Tm
    BY <1>4, <2>1 DEF format_gmtime, Tm
  <2> QED
    BY <1>4, <2>2 DEF format_gmtime
<1>5. ASSUME NEW t \in Writers, format_strftime(t) PROVE TypeOK'
  <2>1. \E b \in Tm : buffer' = [buffer EXCEPT ![t] = b]
    <3>1. buffer[t] \in Tm /\ tm \in Tm
      OBVIOUS
    <3>2. CASE wpc[t] = "strftime_minute"
      <4>1. buffer' = [buffer EXCEPT ![t] = [buffer[t] EXCEPT !.minute = tm.minute]]
        BY <1>5, <3>2 DEF format_strftime
      <4> QED
        BY <3>1, <4>1 DEF Tm
    <3>3. CASE wpc[t] = "strftime_second"
      <4>1. buffer' = [buffer EXCEPT ![t] = [buffer[t] EXCEPT !.second = tm.second]]
        BY <1>5, <3>3 DEF format_strftime
      <4> QED
        BY <3>1, <4>1 DEF Tm
    <3> QED
      BY <1>5, <3>2, <3>3 DEF format_strftime
  <2>2. buffer' \in [Writers -> Tm]
    BY <2>1
  <2>3. /\ UNCHANGED <<clock, lock, tm, action, timestamp, disturbed, log,
                       total_records>>
        /\ \E l \in {"strftime_second", "info"} : wpc' = [wpc EXCEPT ![t] = l]
    BY <1>5 DEF format_strftime
  <2> QED
    BY <2>2, <2>3
<1>6. ASSUME NEW t \in Writers, write_record(t) PROVE TypeOK'
  <2>1. format_record(t) \in Records
    BY TimeType DEF format_record, Records
  <2> QED
    BY <1>6, <2>1 DEF write_record
<1>7. ASSUME NEW t \in Writers, count_record(t) PROVE TypeOK'
  BY <1>7 DEF count_record
<1>8. CASE Quiet \/ UNCHANGED vars
  BY <1>8 DEF Quiet, vars
<1> QED
  BY <1>1, <1>2, <1>3, <1>4, <1>5, <1>6, <1>7, <1>8 DEF Next, WriterStep

(* A line appended to the log. *)
LEMMA AppendLine ==
  ASSUME TypeOK, NEW r \in Records, log' = Append(log, r)
  PROVE  /\ Len(log') = Len(log) + 1 /\ Len(log) \in Nat
         /\ log'[Len(log) + 1] = r
         /\ \A k \in 1 .. Len(log) : log'[k] = log[k]
         /\ \A k \in 1 .. Len(log') : k \in 1 .. Len(log) \/ k = Len(log) + 1
  BY DEF TypeOK

(* sessions_mutex_ is held while the record of a session is written. *)
LEMMA LockStep == TypeOK /\ LockHeld /\ [Next]_vars => LockHeld'
<1> SUFFICES ASSUME TypeOK, LockHeld, [Next]_vars PROVE LockHeld'
  OBVIOUS
<1> USE CdrAssumption DEF TypeOK, LockHeld, threadVars, step
<1>1. CASE Tick \/ Quiet \/ UNCHANGED vars
  BY <1>1 DEF Tick, Quiet, vars
<1>2. ASSUME NEW t \in Writers, begin_session(t) \/ begin_rejected(t) PROVE LockHeld'
  BY <1>2 DEF begin_session, begin_rejected, Unlocked
<1>3. ASSUME NEW t \in Writers,
             emit_event(t) \/ format_gmtime(t) \/ format_strftime(t) \/ write_record(t)
      PROVE  LockHeld'
  <2>1. /\ UNCHANGED <<lock, action>> /\ wpc[t] # "idle"
        /\ \E l \in {"gmtime_minute", "gmtime_second", "strftime_minute",
                    "strftime_second", "info", "count"} : wpc' = [wpc EXCEPT ![t] = l]
    BY <1>3 DEF emit_event, format_gmtime, format_strftime, write_record
  <2> QED
    BY <2>1
<1>4. ASSUME NEW t \in Writers, count_record(t) PROVE LockHeld'
  BY <1>4 DEF count_record
<1> QED
  BY <1>1, <1>2, <1>3, <1>4 DEF Next, WriterStep

(* Times: taken and appended under the lock, they come in order. *)
LEMMA OrderStep ==
  ASSUME TypeOK, LockHeld, NoneYounger, SessionRecordsInOrder, [Next]_vars
  PROVE  NoneYounger' /\ SessionRecordsInOrder'
<1> USE DEF TypeOK, NoneYounger, SessionRecordsInOrder, Writing, Formatting,
            threadVars, step
<1>0. \A k \in 1 .. Len(log) : log[k].timestamp \in Nat
  <2> SUFFICES ASSUME NEW k \in 1 .. Len(log) PROVE log[k].timestamp \in Nat
    OBVIOUS
  <2>1. log[k] \in Records
    OBVIOUS
  <2> QED
    BY <2>1 DEF Records
<1>1. CASE Tick
  <2>1. clock' = clock + 1 /\ UNCHANGED <<log, wpc, action, timestamp>>
    BY <1>1 DEF Tick
  <2>2. \A n \in Nat : n <= clock => n <= clock'
    BY <2>1
  <2> QED
    BY <1>0, <2>1, <2>2
<1>2. CASE Quiet \/ UNCHANGED vars
  BY <1>2 DEF Quiet, vars
<1>3. ASSUME NEW t \in Writers,
             \/ begin_session(t) \/ begin_rejected(t) \/ format_gmtime(t)
             \/ format_strftime(t) \/ count_record(t)
      PROVE  NoneYounger' /\ SessionRecordsInOrder'
  BY <1>3 DEF begin_session, begin_rejected, format_gmtime, format_strftime,
              count_record
<1>4. ASSUME NEW t \in Writers, emit_event(t)
      PROVE  NoneYounger' /\ SessionRecordsInOrder'
  BY <1>4 DEF emit_event
<1>5. ASSUME NEW t \in Writers, write_record(t)
      PROVE  NoneYounger' /\ SessionRecordsInOrder'
  <2> DEFINE r == format_record(t)
  <2>1. r.action = action[t] /\ r.timestamp = timestamp[t]
    BY DEF format_record
  <2>2. log' = Append(log, r) /\ wpc[t] = "info" /\ wpc' = [wpc EXCEPT ![t] = "count"]
        /\ UNCHANGED <<clock, action, timestamp>>
    BY <1>5 DEF write_record
  <2> HIDE DEF r
  <2>3. /\ Len(log') = Len(log) + 1 /\ Len(log) \in Nat
        /\ log'[Len(log) + 1] = r
        /\ \A k \in 1 .. Len(log) : log'[k] = log[k]
        /\ \A k \in 1 .. Len(log') : k \in 1 .. Len(log) \/ k = Len(log) + 1
    BY <2>2, AppendLine
  <2>4. ASSUME NEW u \in Writers, action'[u] = "session", Writing(u)',
               NEW k \in 1 .. Len(log'), log'[k].action = "session"
        PROVE  log'[k].timestamp <= timestamp'[u]
    <3>1. u # t /\ Writing(u) /\ action[u] = "session"
      BY <2>2, <2>4
    <3>2. action[t] # "session"
      BY <2>2, <3>1 DEF LockHeld
    <3> QED
      BY <2>1, <2>2, <2>3, <2>4, <3>1, <3>2
  <2>5. NoneYounger'
    BY <2>1, <2>2, <2>3, <2>4
  <2>6. ASSUME NEW j \in 1 .. Len(log'), NEW k \in 1 .. Len(log'), j < k,
               log'[j].action = "session", log'[k].action = "session"
        PROVE  log'[j].timestamp <= log'[k].timestamp
    <3>1. j \in 1 .. Len(log)
      BY <2>3, <2>6
    <3>2. CASE k \in 1 .. Len(log)
      BY <2>3, <2>6, <3>1, <3>2
    <3>3. CASE k = Len(log) + 1
      BY <2>1, <2>2, <2>3, <2>6, <3>1, <3>3
    <3> QED
      BY <2>3, <3>2, <3>3
  <2> QED
    BY <2>5, <2>6
<1> QED
  BY <1>1, <1>2, <1>3, <1>4, <1>5 DEF Next, WriterStep

(* Two threads format at once only if one of them has rejected a call. *)
LEMMA DisturbedStep ==
  ASSUME TypeOK, LockHeld, BothDisturbed, [Next]_vars
  PROVE  BothDisturbed'
<1> USE DEF TypeOK, BothDisturbed, Formatting, threadVars, step
<1>1. CASE Tick \/ Quiet \/ UNCHANGED vars
  BY <1>1 DEF Tick, Quiet, vars
<1>2. ASSUME NEW t \in Writers, emit_event(t) PROVE BothDisturbed'
  <2> SUFFICES ASSUME NEW u \in Writers, NEW v \in Writers, u # v,
                      Formatting(u)', Formatting(v)'
               PROVE  disturbed'[u]
    OBVIOUS
  <2>1. /\ wpc' = [wpc EXCEPT ![t] = "gmtime_minute"] /\ wpc[t] = "emit"
        /\ disturbed' = [x \in Writers |-> IF x = t THEN \E y \in Writers : Overlap(t, y)
                                           ELSE disturbed[x] \/ Overlap(t, x)]
    BY <1>2 DEF emit_event
  <2>2. ASSUME NEW x \in Writers, x # t, Formatting(x) PROVE Overlap(t, x)
    BY <2>1, <2>2 DEF LockHeld, Overlap
  <2>3. CASE u = t
    BY <2>1, <2>2, <2>3
  <2>4. CASE v = t
    BY <2>1, <2>2, <2>4
  <2>5. CASE u # t /\ v # t
    BY <2>1, <2>5
  <2> QED
    BY <2>3, <2>4, <2>5
<1>3. ASSUME NEW t \in Writers,
             \/ begin_session(t) \/ begin_rejected(t) \/ format_gmtime(t)
             \/ format_strftime(t) \/ write_record(t) \/ count_record(t)
      PROVE  BothDisturbed'
  BY <1>3 DEF begin_session, begin_rejected, format_gmtime, format_strftime,
              write_record, count_record
<1> QED
  BY <1>1, <1>2, <1>3 DEF Next, WriterStep

(* An undisturbed thread finds in struct tm what it has put there. *)
LEMMA OwnTmStep ==
  ASSUME TypeOK, LockHeld, BothDisturbed, OwnTm, [Next]_vars
  PROVE  OwnTm'
<1> USE DEF TypeOK, Tm, OwnTm, threadVars, step
<1>1. CASE Tick \/ Quiet \/ UNCHANGED vars
  BY <1>1 DEF Tick, Quiet, vars
<1>2. ASSUME NEW t \in Writers,
             \/ begin_session(t) \/ begin_rejected(t) \/ write_record(t)
             \/ count_record(t)
      PROVE  OwnTm'
  BY <1>2 DEF begin_session, begin_rejected, write_record, count_record
<1>3. ASSUME NEW t \in Writers, emit_event(t) PROVE OwnTm'
  <2>1. /\ wpc' = [wpc EXCEPT ![t] = "gmtime_minute"]
        /\ timestamp' = [timestamp EXCEPT ![t] = clock]
        /\ UNCHANGED <<tm, buffer>>
        /\ \A u \in Writers : u # t /\ ~disturbed'[u] => ~disturbed[u]
    BY <1>3 DEF emit_event
  <2> QED
    BY <2>1
<1>4. ASSUME NEW t \in Writers, format_gmtime(t) PROVE OwnTm'
  <2>1. /\ Formatting(t) /\ UNCHANGED <<timestamp, buffer, disturbed>>
        /\ tm.minute \in Nat /\ tm.second \in Nat
    BY <1>4 DEF format_gmtime, Formatting
  <2>2. ASSUME NEW u \in Writers, u # t, ~disturbed[u] PROVE ~Formatting(u)
    BY <2>1, <2>2 DEF BothDisturbed
  <2>3. CASE wpc[t] = "gmtime_minute"
    <3>1. wpc' = [wpc EXCEPT ![t] = "gmtime_second"]
          /\ tm' = [tm EXCEPT !.minute = minute(timestamp[t])]
      BY <1>4, <2>3 DEF format_gmtime
    <3> QED
      BY <2>1, <2>2, <2>3, <3>1 DEF Formatting
  <2>4. CASE wpc[t] = "gmtime_second"
    <3>1. wpc' = [wpc EXCEPT ![t] = "strftime_minute"]
          /\ tm' = [tm EXCEPT !.second = second(timestamp[t])]
      BY <1>4, <2>4 DEF format_gmtime
    <3> QED
      BY <2>1, <2>2, <2>4, <3>1 DEF Formatting
  <2> QED
    BY <1>4, <2>3, <2>4 DEF format_gmtime
<1>5. ASSUME NEW t \in Writers, format_strftime(t) PROVE OwnTm'
  BY <1>5 DEF format_strftime
<1> QED
  BY <1>1, <1>2, <1>3, <1>4, <1>5 DEF Next, WriterStep

(* So the line it appends carries its own time. *)
LEMMA OwnTimeStep ==
  ASSUME TypeOK, OwnTm, OwnTimeUnlessDisturbed, [Next]_vars
  PROVE  OwnTimeUnlessDisturbed'
<1> USE DEF OwnTimeUnlessDisturbed
<1>1. ASSUME NEW t \in Writers, write_record(t) PROVE OwnTimeUnlessDisturbed'
  <2>1. log' = Append(log, format_record(t)) /\ wpc[t] = "info"
    BY <1>1 DEF write_record, step
  <2>2. ~disturbed[t] => buffer[t] = gmtime(timestamp[t])
    BY <2>1 DEF OwnTm, TypeOK, Tm, gmtime
  <2>3. ~format_record(t).disturbed => OwnTime(format_record(t))
    BY <2>2 DEF format_record, OwnTime
  <2>4. /\ log'[Len(log) + 1] = format_record(t)
        /\ \A k \in 1 .. Len(log) : log'[k] = log[k]
        /\ \A k \in 1 .. Len(log') : k \in 1 .. Len(log) \/ k = Len(log) + 1
    BY <2>1, AppendLine
  <2> QED
    BY <2>3, <2>4
<1>2. CASE UNCHANGED log
  BY <1>2
<1>3. ASSUME NEW t \in Writers, WriterStep(t), ~write_record(t) PROVE UNCHANGED log
  BY <1>3 DEF WriterStep, begin_session, begin_rejected, emit_event,
              format_gmtime, format_strftime, count_record
<1>4. CASE Tick \/ Quiet \/ UNCHANGED vars
  BY <1>2, <1>4 DEF Tick, Quiet, vars
<1> QED
  BY <1>1, <1>2, <1>3, <1>4 DEF Next

LEMMA CdrInvInitially == Init => CdrInv
<1> SUFFICES ASSUME Init PROVE CdrInv
  OBVIOUS
<1>1. minute(0) \in Nat /\ second(0) \in Nat
  BY TimeType
<1>2. TypeOK
  BY <1>1, CdrAssumption DEF Init, TypeOK, Tm, gmtime
<1> QED
  BY <1>2, CdrAssumption
     DEF Init, CdrInv, LockHeld, NoneYounger, Writing, BothDisturbed, OwnTm,
         Formatting, SessionRecordsInOrder, OwnTimeUnlessDisturbed

THEOREM CdrInvariance == Spec => []CdrInv
<1>1. CdrInv /\ [Next]_vars => CdrInv'
  BY TypeStep, LockStep, OrderStep, DisturbedStep, OwnTmStep, OwnTimeStep DEF CdrInv
<1> QED
  BY <1>1, CdrInvInitially, PTL DEF Spec

(* The records of sessions are in the file in the order of their times. *)
THEOREM RecordsOrdered == Spec => []SessionRecordsInOrder
<1>1. CdrInv => SessionRecordsInOrder
  BY DEF CdrInv
<1> QED
  BY <1>1, CdrInvariance, PTL

(* Only a REJECTED call can make a record carry a wrong time. *)
THEOREM TimesOwnUnlessDisturbed == Spec => []OwnTimeUnlessDisturbed
<1>1. CdrInv => OwnTimeUnlessDisturbed
  BY DEF CdrInv
<1> QED
  BY <1>1, CdrInvariance, PTL

-----------------------------------------------------------------------------
(* Without rejections *)

Rejecting == \E t \in Writers : begin_rejected(t)

NoneDisturbed ==
  /\ \A t \in Writers : action[t] = "session" /\ ~disturbed[t]
  /\ \A k \in 1 .. Len(log) : ~log[k].disturbed

(* sessions_mutex_ alone would do: as long as no call is rejected, every    *)
(* record carries the time of its event, however many threads write.  What  *)
(* is wrong with OwnTimeAlways is the REJECTED record and nothing else.     *)
THEOREM TimesOwnWithoutRejections ==
  Spec /\ [][~Rejecting]_vars => []OwnTimeAlways
<1>1. Init => NoneDisturbed
  BY DEF Init, NoneDisturbed
<1>2. CdrInv /\ NoneDisturbed /\ [Next]_vars /\ [~Rejecting]_vars => NoneDisturbed'
  <2> SUFFICES ASSUME CdrInv, NoneDisturbed, [Next]_vars, [~Rejecting]_vars
               PROVE  NoneDisturbed'
    OBVIOUS
  <2>1. TypeOK
    BY DEF CdrInv
  <2> USE DEF NoneDisturbed, TypeOK, threadVars
  <2>2. CASE Tick \/ Quiet \/ UNCHANGED vars
    BY <2>2 DEF Tick, Quiet, vars
  <2>3. ASSUME NEW t \in Writers, begin_session(t) PROVE NoneDisturbed'
    BY <2>1, <2>3 DEF begin_session
  <2>4. ASSUME NEW t \in Writers, emit_event(t) PROVE NoneDisturbed'
    <3>1. \A u, v \in Writers : ~Overlap(u, v)
      BY DEF Overlap
    <3> QED
      BY <2>1, <2>4, <3>1 DEF emit_event
  <2>5. ASSUME NEW t \in Writers,
               format_gmtime(t) \/ format_strftime(t) \/ count_record(t)
        PROVE  NoneDisturbed'
    BY <2>5 DEF format_gmtime, format_strftime, count_record
  <2>6. ASSUME NEW t \in Writers, write_record(t) PROVE NoneDisturbed'
    <3>1. format_record(t) \in Records /\ ~format_record(t).disturbed
      BY <2>1, TimeType DEF format_record, Records
    <3>2. log' = Append(log, format_record(t)) /\ UNCHANGED <<action, disturbed>>
      BY <2>6 DEF write_record
    <3> QED
      BY <2>1, <3>1, <3>2, AppendLine
  <2>7. ASSUME NEW t \in Writers, begin_rejected(t) PROVE NoneDisturbed'
    BY <2>2, <2>7 DEF Rejecting
  <2> QED
    BY <2>2, <2>3, <2>4, <2>5, <2>6, <2>7 DEF Next, WriterStep
<1>3. CdrInv /\ NoneDisturbed => OwnTimeAlways
  BY DEF CdrInv, OwnTimeUnlessDisturbed, NoneDisturbed, OwnTimeAlways
<1> QED
  BY <1>1, <1>2, <1>3, CdrInvariance, PTL DEF Spec

-----------------------------------------------------------------------------
(* The counter *)

Counting == {t \in Writers : wpc[t] = "count"}

(* total_records_ lags behind the file by exactly the threads between the   *)
(* line and the increment, and is right whenever no thread writes.          *)
THEOREM RecordsCounted ==
  ASSUME IsFiniteSet(Writers)
  PROVE  Spec => [](Len(log) = total_records + Cardinality(Counting))
<1> DEFINE Counted == Len(log) = total_records + Cardinality(Counting)
<1>1. Init => Counted
  <2> SUFFICES ASSUME Init PROVE Counted
    OBVIOUS
  <2>1. Counting = {}
    BY DEF Init, Counting
  <2> QED
    BY <2>1, FS_EmptySet DEF Init
<1>2. CdrInv /\ Counted /\ [Next]_vars => Counted'
  <2> SUFFICES ASSUME CdrInv, Counted, [Next]_vars PROVE Counted'
    OBVIOUS
  <2>1. TypeOK /\ Len(log) \in Nat /\ total_records \in Nat
    BY DEF CdrInv, TypeOK
  <2>2. IsFiniteSet(Counting) /\ Cardinality(Counting) \in Nat
    BY FS_Subset, FS_CardinalityType DEF Counting
  <2> USE DEF TypeOK, threadVars, step, Counting
  <2>3. CASE Tick \/ Quiet \/ UNCHANGED vars
    BY <2>3 DEF Tick, Quiet, vars
  <2>4. ASSUME NEW t \in Writers,
               \/ begin_session(t) \/ begin_rejected(t) \/ emit_event(t)
               \/ format_gmtime(t) \/ format_strftime(t)
        PROVE  Counted'
    <3>1. Counting' = Counting
      BY <2>1, <2>4 DEF begin_session, begin_rejected, emit_event, format_gmtime,
                        format_strftime
    <3>2. UNCHANGED <<log, total_records>>
      BY <2>4 DEF begin_session, begin_rejected, emit_event, format_gmtime,
                  format_strftime
    <3> HIDE DEF Counting
    <3> QED
      BY <3>1, <3>2
  <2>5. ASSUME NEW t \in Writers, write_record(t) PROVE Counted'
    <3>1. Counting' = Counting \cup {t} /\ t \notin Counting
      BY <2>1, <2>5 DEF write_record
    <3>2. Cardinality(Counting') = Cardinality(Counting) + 1
      BY <2>2, <3>1, FS_AddElement
    <3>3. log' = Append(log, format_record(t)) /\ UNCHANGED total_records
      BY <2>5 DEF write_record
    <3>4. format_record(t) \in Records
      BY <2>1, TimeType DEF format_record, Records
    <3>5. Len(log') = Len(log) + 1
      BY <2>1, <3>3, <3>4, AppendLine
    <3> HIDE DEF Counting
    <3> QED
      BY <2>1, <2>2, <3>2, <3>3, <3>5
  <2>6. ASSUME NEW t \in Writers, count_record(t) PROVE Counted'
    <3>1. Counting' = Counting \ {t} /\ t \in Counting
      BY <2>1, <2>6 DEF count_record
    <3>2. Cardinality(Counting') = Cardinality(Counting) - 1
      BY <2>2, <3>1, FS_RemoveElement
    <3>3. UNCHANGED log /\ total_records' = total_records + 1
      BY <2>6 DEF count_record
    <3> HIDE DEF Counting
    <3> QED
      BY <2>1, <2>2, <3>2, <3>3
  <2> QED
    BY <2>3, <2>4, <2>5, <2>6 DEF Next, WriterStep
<1> QED
  BY <1>1, <1>2, CdrInvariance, PTL DEF Spec
=============================================================================
