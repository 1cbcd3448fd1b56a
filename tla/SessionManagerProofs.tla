------------------------ MODULE SessionManagerProofs ------------------------
(***************************************************************************)
(* Proofs about SessionManager for any number of callers and IMSIs, any    *)
(* timeout and shutdown rate.  IInv is inductive; every theorem below      *)
(* follows from it and from one look at the step concerned.                *)
(***************************************************************************)
EXTENDS SessionManager, TLAPS

(* Setting one entry of a function to a truth value keeps it boolean. *)
LEMMA BooleanUpdate ==
  ASSUME NEW D, NEW f \in [D -> BOOLEAN], NEW d, NEW b \in BOOLEAN
  PROVE  [f EXCEPT ![d] = b] \in [D -> BOOLEAN]
  OBVIOUS

(* The rate-limiting wait is a number of ticks, for any positive rate. *)
LEMMA SleepDurationType ==
  ASSUME ShutdownRate # 0
  PROVE  SleepDuration \in Nat
  BY ConstantsAssumption DEF SleepDuration

(* It is at most a second, and within one tick of the rate's share of one. *)
LEMMA SleepDurationBound ==
  ASSUME ShutdownRate # 0
  PROVE  /\ SleepDuration <= Second
         /\ (SleepDuration + 1) * ShutdownRate > Second
  BY ConstantsAssumption DEF SleepDuration

(* The part of TypeOK about create_session. *)
CallerTypeOK ==
  /\ pc \in [Callers -> {"idle", "blacklist", "insert"}]
  /\ call \in [Callers -> Imsi \cup {NoImsi}]
  /\ result \in [Callers -> CreateResult \cup {"NONE"}]
  /\ barred \in [Callers -> BOOLEAN]

(* return leaves the caller's variables well typed, and only ends its call. *)
LEMMA ReturnEffect ==
  ASSUME TypeOK, NEW w \in Callers, NEW r \in CreateResult, return(w, r)
  PROVE  /\ CallerTypeOK'
         /\ pc'[w] = "idle" /\ ~barred'[w]
         /\ \A v \in Callers \ {w} :
              pc'[v] = pc[v] /\ call'[v] = call[v] /\ barred'[v] = barred[v]
  BY DEF TypeOK, CallerTypeOK, return

(* emit_event appends well-typed records and moves the balance of exactly   *)
(* the IMSIs it is about.                                                  *)
LEMMA EmitEffect ==
  ASSUME TypeOK, NEW S, NEW action \in SessionAction, emit_event(S, action)
  PROVE  /\ open' \in [Imsi -> Int]
         /\ last' \in [Imsi -> SessionAction \cup {"NONE"}]
         /\ \A i \in Imsi :
              open'[i] = IF i \in S THEN open[i] + Delta(action) ELSE open[i]
<1>1. Delta(action) \in Int
  BY DEF Delta
<1> QED
  BY <1>1 DEF TypeOK, emit_event

-----------------------------------------------------------------------------
(* The first part of create_session: a valid argument starts a call, which  *)
(* is barred exactly when the IMSI is on the blacklist.                    *)
LEMMA CreateSessionStep ==
  ASSUME IInv, NEW w \in Callers, NEW i \in Imsi, create_session(w, i)
  PROVE  IInv'
<1> USE ConstantsAssumption
    DEF tableVars, cdrVars, flagVars, cleanupVars, gracefulVars, historyVars
<1>1. /\ UNCHANGED <<clock, sessions, last_activity, blacklist, running, active,
                     open, last, cpc, now, expired, spc, gpc, target, pause,
                     dpc, terminated, unrecorded, gap>>
      /\ dpc = "live"
  BY DEF create_session
<1>2. /\ CallerTypeOK'
      /\ \A v \in Callers \ {w} :
           pc'[v] = pc[v] /\ call'[v] = call[v] /\ barred'[v] = barred[v]
      /\ \/ pc'[w] = "idle" /\ ~barred'[w]
         \/ pc'[w] = "blacklist" /\ call'[w] = i /\ i \in Valid
            /\ (barred'[w] => i \in blacklist)
  <2>1. CASE i \notin Valid
    BY <2>1, ReturnEffect DEF create_session, CreateResult, IInv
  <2>2. CASE i \in Valid
    <3>1. barred' = [barred EXCEPT ![w] = i \in blacklist]
      BY <2>2 DEF create_session
    <3>2. (i \in blacklist) \in BOOLEAN
      OBVIOUS
    <3>3. barred' \in [Callers -> BOOLEAN]
      BY <3>1, <3>2, BooleanUpdate DEF IInv, TypeOK
    <3>4. /\ barred'[w] => i \in blacklist
          /\ \A v \in Callers \ {w} : barred'[v] = barred[v]
      BY <3>1 DEF IInv, TypeOK
    <3> QED
      BY <2>2, <3>3, <3>4 DEF create_session, IInv, TypeOK, CallerTypeOK
  <2> QED
    BY <2>1, <2>2
<1>3. TypeOK'
  BY <1>1, <1>2 DEF IInv, TypeOK, CallerTypeOK
<1>4. CallsAdmissible'
  BY <1>1, <1>2 DEF IInv, CallsAdmissible
<1>5. BarredCallsWait'
  BY <1>1, <1>2 DEF IInv, BarredCallsWait
<1> QED
  BY <1>1, <1>3, <1>4, <1>5
     DEF IInv, BlacklistBounds, JoinedThreadsEnded, WaitKept, Alone, OnlyAdmissibleSessions,
         CdrMatchesSessions

(* The blacklist check: a call goes on only with an IMSI off the blacklist, *)
(* hence not barred; REJECTED moves no balance.                            *)
LEMMA CheckBlacklistStep ==
  ASSUME IInv, NEW w \in Callers, check_blacklist(w)
  PROVE  IInv'
<1> USE ConstantsAssumption
    DEF tableVars, cdrVars, flagVars, cleanupVars, gracefulVars, historyVars
<1>1. /\ UNCHANGED <<clock, sessions, last_activity, blacklist, running, active,
                     cpc, now, expired, spc, gpc, target, pause, dpc,
                     terminated, unrecorded, gap>>
      /\ pc[w] = "blacklist"
  BY DEF check_blacklist, Refused
<1>2. CASE call[w] \in blacklist
  <2>1. /\ CallerTypeOK'
        /\ pc'[w] = "idle" /\ ~barred'[w]
        /\ \A v \in Callers \ {w} :
             pc'[v] = pc[v] /\ call'[v] = call[v] /\ barred'[v] = barred[v]
    BY <1>2, ReturnEffect DEF check_blacklist, Refused, CreateResult, IInv
  <2>2. /\ open' \in [Imsi -> Int]
        /\ last' \in [Imsi -> SessionAction \cup {"NONE"}]
        /\ \A i \in Imsi : open'[i] = open[i]
    BY <1>2, EmitEffect DEF check_blacklist, Refused, SessionAction, Delta, IInv, TypeOK
  <2>3. TypeOK'
    BY <1>1, <2>1, <2>2 DEF IInv, TypeOK, CallerTypeOK
  <2>4. CallsAdmissible' /\ BarredCallsWait'
    BY <1>1, <2>1 DEF IInv, CallsAdmissible, BarredCallsWait
  <2>5. JoinedThreadsEnded'
    BY <1>1, <2>1 DEF IInv, JoinedThreadsEnded
  <2>6. CdrMatchesSessions'
    BY <1>1, <2>2 DEF IInv, CdrMatchesSessions
  <2> QED
    BY <1>1, <2>3, <2>4, <2>5, <2>6
       DEF IInv, BlacklistBounds, WaitKept, Alone, OnlyAdmissibleSessions
<1>3. CASE call[w] \notin blacklist
  <2>1. /\ pc' = [pc EXCEPT ![w] = "insert"]
        /\ UNCHANGED <<call, result, barred, open, last>>
    BY <1>3 DEF check_blacklist, Refused
  <2>2. TypeOK'
    BY <1>1, <2>1 DEF IInv, TypeOK
  <2>3. CallsAdmissible'
    BY <1>1, <1>3, <2>1 DEF IInv, TypeOK, CallsAdmissible, BlacklistBounds
  <2>4. BarredCallsWait'
    BY <1>1, <1>3, <2>1 DEF IInv, TypeOK, BarredCallsWait
  <2>5. JoinedThreadsEnded'
    BY <1>1, <2>1 DEF IInv, TypeOK, JoinedThreadsEnded
  <2> QED
    BY <1>1, <2>1, <2>2, <2>3, <2>4, <2>5
       DEF IInv, BlacklistBounds, WaitKept, Alone, OnlyAdmissibleSessions, CdrMatchesSessions
<1> QED
  BY <1>2, <1>3

(* The insertion: a new session and its CREATED record come together. *)
LEMMA InsertSessionStep ==
  ASSUME IInv, NEW w \in Callers, insert_session(w)
  PROVE  IInv'
<1> USE ConstantsAssumption
    DEF tableVars, cdrVars, flagVars, cleanupVars, gracefulVars, historyVars
<1>1. /\ UNCHANGED <<clock, blacklist, running, active, cpc, now, expired, spc,
                     gpc, target, pause, dpc, terminated, unrecorded, gap>>
      /\ pc[w] = "insert"
  BY DEF insert_session, Exists
<1>2. call[w] \in Valid \ (Blacklist \ Editable)
  BY <1>1 DEF IInv, CallsAdmissible
<1>3. last_activity' \in [Imsi -> Nat]
  BY DEF insert_session, Exists, Refreshed, IInv, TypeOK
<1>4. /\ CallerTypeOK'
      /\ pc'[w] = "idle" /\ ~barred'[w]
      /\ \A v \in Callers \ {w} :
           pc'[v] = pc[v] /\ call'[v] = call[v] /\ barred'[v] = barred[v]
  BY ReturnEffect DEF insert_session, Exists, CreateResult, IInv
<1>5. /\ sessions' = sessions \cup {call[w]}
      /\ open' \in [Imsi -> Int]
      /\ last' \in [Imsi -> SessionAction \cup {"NONE"}]
      /\ CdrMatchesSessions'
  <2>1. CASE call[w] \in sessions
    BY <1>1, <2>1 DEF insert_session, Exists, IInv, TypeOK, CdrMatchesSessions
  <2>2. CASE call[w] \notin sessions
    <3>1. /\ sessions' = sessions \cup {call[w]}
          /\ emit_event({call[w]}, "CREATED")
      BY <2>2 DEF insert_session, Exists
    <3>2. /\ open' \in [Imsi -> Int]
          /\ last' \in [Imsi -> SessionAction \cup {"NONE"}]
          /\ \A i \in Imsi : open'[i] = IF i = call[w] THEN open[i] + 1 ELSE open[i]
      BY <3>1, EmitEffect DEF SessionAction, Delta, IInv
    <3> QED
      BY <1>1, <2>2, <3>1, <3>2 DEF IInv, TypeOK, CdrMatchesSessions
  <2> QED
    BY <2>1, <2>2
<1>6. TypeOK'
  <2>1. sessions' \subseteq Imsi
    BY <1>2, <1>5 DEF IInv, TypeOK
  <2> QED
    BY <1>1, <1>3, <1>4, <1>5, <2>1 DEF IInv, TypeOK, CallerTypeOK
<1>7. CallsAdmissible' /\ BarredCallsWait'
  BY <1>1, <1>4 DEF IInv, CallsAdmissible, BarredCallsWait
<1>8. JoinedThreadsEnded'
  BY <1>1, <1>4 DEF IInv, JoinedThreadsEnded
<1>9. OnlyAdmissibleSessions'
  BY <1>2, <1>5 DEF IInv, OnlyAdmissibleSessions
<1> QED
  BY <1>1, <1>5, <1>6, <1>7, <1>8, <1>9 DEF IInv, BlacklistBounds, WaitKept, Alone

-----------------------------------------------------------------------------
(* A step of a graceful-shutdown thread: what it leaves alone, and that it   *)
(* moves no other graceful-shutdown thread.                                 *)
LEMMA GracefulFrame ==
  ASSUME IInv, NEW s \in Stops, graceful_shutdown_thread(s)
  PROVE  /\ UNCHANGED <<clock, last_activity, blacklist, running, dpc, pc, call,
                        result, barred, cpc, now, expired, spc, unrecorded>>
         /\ gpc' \in [Stops -> {"none", "start", "loop", "pick", "erase", "wait",
                                "finished"}]
         /\ gpc[s] \notin {"none", "finished"} /\ gpc'[s] # "none"
         /\ \A t \in Stops \ {s} : gpc'[t] = gpc[t] /\ pause'[t] = pause[t]
<1> USE DEF tableVars, cdrVars, flagVars, callerVars, cleanupVars, historyVars,
            IInv, TypeOK, advance
<1>1. CASE graceful_interval(s)
  BY <1>1 DEF graceful_interval
<1>2. CASE graceful_loop(s)
  BY <1>2 DEF graceful_loop
<1>3. CASE graceful_pick(s)
  BY <1>3 DEF graceful_pick
<1>4. CASE graceful_erase(s)
  BY <1>4 DEF graceful_erase
<1>5. CASE graceful_wait(s)
  BY <1>5 DEF graceful_wait
<1> QED
  BY <1>1, <1>2, <1>3, <1>4, <1>5 DEF graceful_shutdown_thread

(* The erasing section: the record and the erased session come together.    *)
LEMMA GracefulRecords ==
  ASSUME IInv, NEW s \in Stops, graceful_shutdown_thread(s)
  PROVE  /\ sessions' \subseteq sessions
         /\ open' \in [Imsi -> Int]
         /\ last' \in [Imsi -> SessionAction \cup {"NONE"}]
         /\ CdrMatchesSessions'
<1>1. CASE graceful_erase(s)
  <2>1. /\ sessions' = sessions \ Found(s)
        /\ emit_event(Found(s), "GRACEFUL_SHUTDOWN")
        /\ UNCHANGED unrecorded
    BY <1>1 DEF graceful_erase
  <2>2. /\ open' \in [Imsi -> Int]
        /\ last' \in [Imsi -> SessionAction \cup {"NONE"}]
        /\ \A i \in Imsi : open'[i] = IF i \in Found(s) THEN open[i] - 1 ELSE open[i]
    BY <2>1, EmitEffect DEF SessionAction, Delta, IInv, TypeOK
  <2> QED
    BY <2>1, <2>2 DEF Found, IInv, TypeOK, CdrMatchesSessions
<1>2. CASE ~graceful_erase(s)
  BY <1>2 DEF graceful_shutdown_thread, graceful_interval, graceful_loop,
              graceful_pick, graceful_wait, tableVars, cdrVars, historyVars, IInv,
              TypeOK, CdrMatchesSessions
<1> QED
  BY <1>1, <1>2

(* The waits of the threads: of the one that moves, for it alone, and of    *)
(* the others.                                                             *)
LEMMA GracefulWaits ==
  ASSUME IInv, NEW s \in Stops, graceful_shutdown_thread(s)
  PROVE  /\ target' \in [Stops -> Imsi \cup {NoImsi}]
         /\ pause' \in [Stops -> Nat]
         /\ active' \in BOOLEAN /\ terminated' \in BOOLEAN
         /\ gap' \in 0 .. Second
         /\ WaitKept'
<1> USE ConstantsAssumption, SleepDurationType, SleepDurationBound
    DEF tableVars, cdrVars, flagVars, callerVars, cleanupVars, historyVars,
        IInv, TypeOK, advance
<1>1. /\ target' \in [Stops -> Imsi \cup {NoImsi}]
      /\ pause' \in [Stops -> Nat]
      /\ active' \in BOOLEAN /\ terminated' \in BOOLEAN
      /\ gap' \in 0 .. Second
  <2>1. CASE graceful_erase(s)
    <3>1. ShutdownRate # 0
      BY <2>1 DEF graceful_erase, WaitKept
    <3> QED
      BY <2>1, <3>1 DEF graceful_erase
  <2>2. CASE ~graceful_erase(s)
    <3>1. UNCHANGED <<pause, gap>>
      BY <2>2 DEF graceful_shutdown_thread, graceful_interval, graceful_loop,
                  graceful_pick, graceful_wait
    <3>2. target' \in [Stops -> Imsi \cup {NoImsi}]
      BY <2>2 DEF graceful_shutdown_thread, graceful_interval, graceful_loop,
                  graceful_pick, graceful_wait
    <3>3. active' \in {active, FALSE} /\ terminated' \in {terminated, TRUE}
      BY <2>2 DEF graceful_shutdown_thread, graceful_interval, graceful_loop,
                  graceful_pick, graceful_wait
    <3> QED
      BY <3>1, <3>2, <3>3
  <2> QED
    BY <2>1, <2>2
<1>2. ASSUME NEW t \in Stops \ {s}
      PROVE  /\ gpc'[t] \notin {"none", "start"} => ShutdownRate # 0
             /\ gpc'[t] \in {"none", "start"} => pause'[t] = 0
             /\ ~Alone(t)'
  BY <1>2, GracefulFrame DEF WaitKept, Alone
<1>3. Alone(s)' => Alone(s)
  BY GracefulFrame DEF Alone
<1>4. /\ gpc'[s] \notin {"none", "start"} => ShutdownRate # 0
      /\ gpc'[s] \in {"none", "start"} => pause'[s] = 0
      /\ Alone(s) =>
           /\ pause'[s] > 0 => gpc'[s] \in {"loop", "wait", "finished"}
           /\ pause'[s] > 0 /\ gpc'[s] = "loop" => ~active'
           /\ gpc'[s] \notin {"none", "finished"} /\ ~active' =>
                dpc' \notin {"live", "deactivate"}
           /\ ShutdownRate # 0 => gap' + pause'[s] >= SleepDuration
  <2>1. CASE graceful_interval(s)
    BY <2>1 DEF graceful_interval, WaitKept
  <2>2. CASE graceful_loop(s)
    BY <2>2 DEF graceful_loop, WaitKept
  <2>3. CASE graceful_pick(s)
    BY <2>3 DEF graceful_pick, WaitKept
  <2>4. CASE graceful_erase(s)
    BY <2>4 DEF graceful_erase, WaitKept
  <2>5. CASE graceful_wait(s)
    BY <2>5 DEF graceful_wait, WaitKept
  <2> QED
    BY <2>1, <2>2, <2>3, <2>4, <2>5 DEF graceful_shutdown_thread
<1> QED
  BY <1>1, <1>2, <1>3, <1>4 DEF WaitKept

LEMMA GracefulStep ==
  ASSUME IInv, NEW s \in Stops, graceful_shutdown_thread(s)
  PROVE  IInv'
<1>1. TypeOK'
  BY GracefulFrame, GracefulRecords, GracefulWaits DEF IInv, TypeOK
<1>2. CallsAdmissible' /\ BlacklistBounds' /\ BarredCallsWait'
  BY GracefulFrame DEF IInv, CallsAdmissible, BlacklistBounds, BarredCallsWait
<1>3. JoinedThreadsEnded'
  BY GracefulFrame DEF IInv, TypeOK, JoinedThreadsEnded
<1>4. OnlyAdmissibleSessions'
  BY GracefulRecords DEF IInv, OnlyAdmissibleSessions
<1> QED
  BY <1>1, <1>2, <1>3, <1>4, GracefulFrame, GracefulRecords, GracefulWaits DEF IInv

-----------------------------------------------------------------------------
(* IInv holds initially and is preserved by every step. *)
LEMMA InitInvariant == Init => IInv
<1> SUFFICES ASSUME Init PROVE IInv
  OBVIOUS
<1> USE ConstantsAssumption DEF Init
<1>1. TypeOK
  <2>1. /\ running \in BOOLEAN /\ active \in BOOLEAN /\ terminated \in BOOLEAN
        /\ barred \in [Callers -> BOOLEAN]
    OBVIOUS
  <2>2. /\ clock \in Nat /\ now \in Nat
        /\ last_activity \in [Imsi -> Nat] /\ unrecorded \in [Imsi -> Nat]
        /\ open \in [Imsi -> Int]
        /\ gap \in 0 .. Second
    OBVIOUS
  <2>3. sessions \subseteq Imsi /\ expired \subseteq Imsi /\ blacklist \subseteq Imsi
    OBVIOUS
  <2>4. /\ last \in [Imsi -> SessionAction \cup {"NONE"}]
        /\ CallerTypeOK
    BY <2>1 DEF CallerTypeOK
  <2> QED
    BY <2>1, <2>2, <2>3, <2>4 DEF TypeOK, CallerTypeOK
<1>2. CallsAdmissible /\ BlacklistBounds /\ BarredCallsWait
  BY DEF CallsAdmissible, BlacklistBounds, BarredCallsWait
<1>3. JoinedThreadsEnded /\ WaitKept /\ now <= clock
  BY SleepDurationType, SleepDurationBound DEF JoinedThreadsEnded, WaitKept, Alone
<1>4. OnlyAdmissibleSessions /\ CdrMatchesSessions
  BY DEF OnlyAdmissibleSessions, CdrMatchesSessions
<1> QED
  BY <1>1, <1>2, <1>3, <1>4 DEF IInv

LEMMA StepInvariant == IInv /\ [Next]_vars => IInv'
<1> SUFFICES ASSUME IInv, [Next]_vars PROVE IInv'
  OBVIOUS
<1>1. ASSUME NEW w \in Callers, NEW i \in Imsi, create_session(w, i) PROVE IInv'
  BY <1>1, CreateSessionStep
<1>2. ASSUME NEW w \in Callers, check_blacklist(w) PROVE IInv'
  BY <1>2, CheckBlacklistStep
<1>3. ASSUME NEW w \in Callers, insert_session(w) PROVE IInv'
  BY <1>3, InsertSessionStep
<1> USE ConstantsAssumption
    DEF tableVars, cdrVars, flagVars, callerVars, cleanupVars, gracefulVars,
        historyVars, threadVars, IInv, TypeOK, SessionAction, CreateResult,
        CallsAdmissible, BlacklistBounds, BarredCallsWait, JoinedThreadsEnded,
        WaitKept, Alone, OnlyAdmissibleSessions, CdrMatchesSessions
<1>4. ASSUME NEW i \in Imsi, remove_session(i) PROVE IInv'
  BY <1>4 DEF remove_session
<1>5. ASSUME NEW i \in Imsi, update_session_activity(i) PROVE IInv'
  BY <1>5 DEF update_session_activity
<1>6. ASSUME NEW i \in Editable, add_to_blacklist(i) PROVE IInv'
  BY <1>6 DEF add_to_blacklist
<1>7. ASSUME NEW i \in Editable, remove_from_blacklist(i) PROVE IInv'
  BY <1>7 DEF remove_from_blacklist
<1>8. CASE cleanup_loop
  BY <1>8 DEF cleanup_loop, CleanupGoesOn
<1>9. CASE cleanup_scan
  BY <1>9 DEF cleanup_scan
<1>10. CASE cleanup_erase
  BY <1>10 DEF cleanup_erase, emit_event, Delta, Victims, IsExpired
<1>11. CASE cleanup_sleep
  BY <1>11 DEF cleanup_sleep
<1>12. ASSUME NEW s \in Stops, start_graceful_shutdown(s) PROVE IInv'
  BY <1>12 DEF start_graceful_shutdown
<1>13. ASSUME NEW s \in Stops, assign_thread(s) PROVE IInv'
  <2>1. /\ UNCHANGED <<clock, tableVars, blacklist, cdrVars, running, active, dpc,
                       callerVars, cleanupVars, gpc, target, pause, historyVars>>
        /\ dpc = "live"
    BY <1>13 DEF assign_thread
  <2>2. /\ spc' \in [Stops -> {"idle", "assign", "returned", "failed"}]
        /\ \A t \in Stops :
             \/ spc'[t] = spc[t]
             \/ spc[t] = "assign" /\ spc'[t] = "returned"
    BY <1>13 DEF assign_thread
  <2>3. terminated' \in BOOLEAN
    BY <1>13 DEF assign_thread
  <2>4. JoinedThreadsEnded' /\ WaitKept'
    BY <2>1, <2>2
  <2>5. TypeOK'
    BY <2>1, <2>2, <2>3
  <2>6. /\ CallsAdmissible' /\ BlacklistBounds' /\ BarredCallsWait'
        /\ (now <= clock)' /\ OnlyAdmissibleSessions' /\ CdrMatchesSessions'
    BY <2>1
  <2> QED
    BY <2>4, <2>5, <2>6
<1>14. ASSUME NEW s \in Stops, graceful_shutdown_thread(s) PROVE IInv'
  BY <1>14, GracefulStep
<1>15. CASE destroy
  BY <1>15 DEF destroy
<1>16. CASE destroy_deactivate
  BY <1>16 DEF destroy_deactivate
<1>17. CASE destroy_join
  BY <1>17 DEF destroy_join, GracefulEnded
<1>18. CASE Tick
  <2>1. /\ UNCHANGED <<tableVars, blacklist, cdrVars, flagVars, callerVars,
                       cleanupVars, spc, gpc, target, unrecorded>>
        /\ clock' \in Nat /\ clock' >= clock
    BY <1>18 DEF Tick
  <2>2. /\ pause' = [s \in Stops |-> IF pause[s] > 0 THEN pause[s] - 1 ELSE 0]
        /\ pause' \in [Stops -> Nat]
        /\ gap' = IF gap < Second THEN gap + 1 ELSE gap
        /\ gap' \in 0 .. Second
    BY <1>18 DEF Tick
  <2>3. TypeOK' /\ (now <= clock)'
    BY <2>1, <2>2
  <2>4. WaitKept'
    BY <2>1, <2>2, SleepDurationType, SleepDurationBound
  <2> QED
    BY <2>1, <2>3, <2>4
<1>19. CASE Halted \/ UNCHANGED vars
  BY <1>19 DEF Halted, vars
<1> QED
  BY <1>1, <1>2, <1>3, <1>4, <1>5, <1>6, <1>7, <1>8, <1>9, <1>10, <1>11,
     <1>12, <1>13, <1>14, <1>15, <1>16, <1>17, <1>18, <1>19
     DEF Next, CallerStep, cleanup_thread

(* The invariant of the session table. *)
THEOREM Invariance == Spec => []IInv
<1> QED
  BY InitInvariant, StepInvariant, PTL DEF Spec

(* Every variable of the manager keeps its type. *)
THEOREM TypeCorrect == Spec => []TypeOK
<1>1. IInv => TypeOK
  BY DEF IInv
<1> QED
  BY <1>1, Invariance, PTL

(* The CDR file agrees with the table in every reachable state. *)
THEOREM CdrAgreesWithTable == Spec => []CdrMatchesSessions
<1>1. IInv => CdrMatchesSessions
  BY DEF IInv
<1> QED
  BY <1>1, Invariance, PTL

(* No session for an invalid or a permanently blacklisted IMSI. *)
THEOREM SessionsAdmissible == Spec => []OnlyAdmissibleSessions
<1>1. IInv => OnlyAdmissibleSessions
  BY DEF IInv
<1> QED
  BY <1>1, Invariance, PTL

-----------------------------------------------------------------------------
(* The refinement: every step of the manager is a step of the abstract      *)
(* table or leaves it alone.                                               *)
LEMMA TableInit == Init => Table!Init
  BY DEF Init, Table!Init

LEMMA TableStep == IInv /\ [Next]_vars => [Table!Next]_(Table!vars)
<1> SUFFICES ASSUME IInv, [Next]_vars PROVE Table!Next \/ UNCHANGED Table!vars
  OBVIOUS
<1> USE DEF Table!vars, tableVars, cdrVars, flagVars, callerVars, cleanupVars,
        gracefulVars, historyVars, threadVars
<1>1. ASSUME NEW w \in Callers, NEW i \in Imsi, create_session(w, i)
      PROVE  UNCHANGED Table!vars
  BY <1>1 DEF create_session
<1>2. ASSUME NEW w \in Callers, check_blacklist(w)
      PROVE  Table!Next \/ UNCHANGED Table!vars
  <2>1. CASE call[w] \in blacklist
    <3>1. call[w] \in Imsi /\ call[w] \in Blacklist \cup Editable
      BY <2>1 DEF IInv, TypeOK, BlacklistBounds
    <3>2. Table!Refuse(call[w])
      BY <1>2, <2>1, <3>1
         DEF check_blacklist, Refused, emit_event, Delta, Table!Refuse, Table!Journal
    <3> QED
      BY <3>1, <3>2 DEF Table!Next
  <2>2. CASE call[w] \notin blacklist
    BY <1>2, <2>2 DEF check_blacklist, Refused
  <2> QED
    BY <2>1, <2>2
<1>3. ASSUME NEW w \in Callers, insert_session(w) PROVE Table!Next
  <2>1. /\ call[w] \in Valid
        /\ call[w] \notin Blacklist \ Editable
        /\ call[w] \in Imsi
    BY <1>3, ConstantsAssumption DEF insert_session, Exists, IInv, CallsAdmissible
  <2>2. CASE call[w] \in sessions
    <3>1. Table!Touch(call[w])
      BY <1>3, <2>2 DEF insert_session, Exists, Refreshed, Table!Touch
    <3> QED
      BY <2>1, <3>1 DEF Table!Next
  <2>3. CASE call[w] \notin sessions
    <3>1. Table!Admit(call[w])
      BY <1>3, <2>1, <2>3
         DEF insert_session, Exists, Refreshed, emit_event, Delta, Table!Admit, Table!Journal
    <3> QED
      BY <2>1, <3>1 DEF Table!Next
  <2> QED
    BY <2>2, <2>3
<1>4. ASSUME NEW i \in Imsi, remove_session(i) PROVE Table!Next
  BY <1>4 DEF remove_session, Table!Next, Table!Forget
<1>5. ASSUME NEW i \in Imsi, update_session_activity(i) PROVE Table!Next
  BY <1>5 DEF update_session_activity, Table!Next, Table!Touch
<1>6. ASSUME NEW i \in Editable, add_to_blacklist(i) \/ remove_from_blacklist(i)
      PROVE  UNCHANGED Table!vars
  BY <1>6 DEF add_to_blacklist, remove_from_blacklist
<1>7. CASE cleanup_loop \/ cleanup_scan \/ cleanup_sleep
  BY <1>7 DEF cleanup_loop, cleanup_scan, cleanup_sleep
<1>8. CASE cleanup_erase
  <2>1. /\ Victims \subseteq sessions
        /\ Victims \in SUBSET Imsi
        /\ \A i \in Victims : clock - last_activity[i] >= Timeout
    BY ConstantsAssumption DEF IInv, TypeOK, Victims, IsExpired
  <2>2. /\ sessions' = sessions \ Victims
        /\ emit_event(Victims, "TIMEOUT")
        /\ UNCHANGED <<clock, last_activity, gpc>>
    BY <1>8 DEF cleanup_erase
  <2>3. Table!Expire(Victims)
    BY <2>1, <2>2 DEF emit_event, Delta, Table!Expire, Table!Journal
  <2> QED
    BY <2>1, <2>3 DEF Table!Next
<1>9. ASSUME NEW s \in Stops, start_graceful_shutdown(s)
      PROVE  Table!Next \/ UNCHANGED Table!vars
  <2>1. UNCHANGED <<clock, sessions, last_activity, open, last>>
    BY <1>9 DEF start_graceful_shutdown
  <2>2. CASE UNCHANGED gpc
    BY <2>1, <2>2
  <2>3. CASE ~UNCHANGED gpc
    <3>1. \A t \in Stops : gpc[t] # "none" => gpc'[t] # "none"
      BY <1>9, <2>3 DEF start_graceful_shutdown, IInv, TypeOK
    <3>2. gpc'[s] # "none"
      BY <1>9, <2>3 DEF start_graceful_shutdown, IInv, TypeOK
    <3> QED
      BY <2>1, <3>1, <3>2 DEF Table!Next, Table!RequestStop
  <2> QED
    BY <2>2, <2>3
<1>10. ASSUME NEW s \in Stops, assign_thread(s) PROVE UNCHANGED Table!vars
  BY <1>10 DEF assign_thread
<1>11. ASSUME NEW s \in Stops, graceful_shutdown_thread(s)
       PROVE  Table!Next \/ UNCHANGED Table!vars
  <2>1. /\ UNCHANGED <<clock, last_activity>>
        /\ \E t \in Stops : gpc[t] # "none"
        /\ \E t \in Stops : gpc'[t] # "none"
    BY <1>11, GracefulFrame
  <2>2. CASE graceful_erase(s)
    <3>1. /\ sessions' = sessions \ Found(s)
          /\ emit_event(Found(s), "GRACEFUL_SHUTDOWN")
      BY <2>2 DEF graceful_erase
    <3>2. CASE target[s] \in sessions
      <4>1. Table!ShutDown(target[s])
        BY <2>1, <3>1, <3>2 DEF emit_event, Delta, Found, Table!ShutDown, Table!Journal
      <4> QED
        BY <3>2, <4>1 DEF Table!Next, IInv, TypeOK
    <3>3. CASE target[s] \notin sessions
      BY <2>1, <3>1, <3>3 DEF emit_event, Found, IInv, TypeOK
    <3> QED
      BY <3>2, <3>3
  <2>3. CASE ~graceful_erase(s)
    BY <1>11, <2>1, <2>3
       DEF graceful_shutdown_thread, graceful_interval, graceful_loop,
           graceful_pick, graceful_wait
  <2> QED
    BY <2>2, <2>3
<1>12. CASE destroy \/ destroy_deactivate \/ destroy_join
  BY <1>12 DEF destroy, destroy_deactivate, destroy_join
<1>13. CASE Tick
  BY <1>13 DEF Tick, Table!Next, Table!Pass
<1>14. CASE Halted \/ UNCHANGED vars
  BY <1>14 DEF Halted, vars
<1> QED
  BY <1>1, <1>2, <1>3, <1>4, <1>5, <1>6, <1>7, <1>8, <1>9, <1>10, <1>11,
     <1>12, <1>13, <1>14
     DEF Next, CallerStep, cleanup_thread

(* The manager implements the abstract session table. *)
THEOREM Refinement == Spec => ImplementsLifecycle
<1> QED
  BY TableInit, TableStep, Invariance, PTL
     DEF Spec, ImplementsLifecycle, Table!Spec

-----------------------------------------------------------------------------
(* A TIMEOUT record ends only a session that is idle at that very moment:   *)
(* a property of the abstract table, which the manager inherits.            *)
THEOREM TimeoutsAreDue == Spec => TimeoutOnlyWhenIdle
<1>1. IInv /\ [Table!Next]_(Table!vars) => TimeoutStep
  <2> SUFFICES ASSUME IInv, Table!Next \/ UNCHANGED Table!vars, NEW j \in Imsi,
                      open'[j] < open[j], last'[j] = "TIMEOUT"
               PROVE  j \in sessions /\ clock - last_activity[j] >= Timeout
    BY DEF TimeoutStep
  <2>1. open[j] \in Int
    BY DEF IInv, TypeOK
  <2>2. ASSUME NEW i \in Imsi,
               Table!Admit(i) \/ Table!Refuse(i) \/ Table!ShutDown(i)
        PROVE  FALSE
    BY <2>1, <2>2 DEF Table!Admit, Table!Refuse, Table!ShutDown, Table!Journal
  <2>3. ASSUME NEW S \in SUBSET Imsi, Table!Expire(S)
        PROVE  j \in sessions /\ clock - last_activity[j] >= Timeout
    BY <2>1, <2>3 DEF Table!Expire, Table!Journal
  <2>4. open' # open
    BY <2>1
  <2> QED
    BY <2>2, <2>3, <2>4
       DEF Table!Next, Table!Touch, Table!Forget, Table!RequestStop, Table!Pass,
           Table!vars
<1>2. IInv /\ [Next]_vars => [TimeoutStep]_vars
  BY <1>1, TableStep
<1> QED
  BY <1>2, Invariance, PTL DEF Spec, TimeoutOnlyWhenIdle

(* A call whose IMSI is blacklisted throughout is refused: BarredCallsWait  *)
(* keeps it at the check, which can only turn it down.                      *)
THEOREM BarredCallsRefused == Spec => BarredCallIsRefused
<1>1. IInv /\ [Next]_vars => [RefusalStep]_vars
  <2> SUFFICES ASSUME IInv, Next, NEW v \in Callers, barred[v], pc'[v] = "idle"
               PROVE  result'[v] = "BLACKLISTED"
    BY DEF RefusalStep
  <2>1. pc[v] = "blacklist" /\ call[v] \in blacklist
    BY DEF IInv, BarredCallsWait
  <2>2. pc' # pc
    BY <2>1
  <2>3. ASSUME NEW w \in Callers, NEW i \in Imsi, create_session(w, i) PROVE FALSE
    BY <2>1, <2>3 DEF create_session, return, IInv, TypeOK
  <2>4. ASSUME NEW w \in Callers, check_blacklist(w)
        PROVE  result'[v] = "BLACKLISTED"
    BY <2>1, <2>4 DEF check_blacklist, Refused, return, IInv, TypeOK
  <2>5. ASSUME NEW w \in Callers, insert_session(w) PROVE FALSE
    BY <2>1, <2>5 DEF insert_session, Exists, return, IInv, TypeOK
  <2> QED
    BY <2>2, <2>3, <2>4, <2>5
       DEF Next, CallerStep, callerVars, threadVars, vars, remove_session,
           update_session_activity, add_to_blacklist, remove_from_blacklist,
           cleanup_thread, cleanup_loop, cleanup_scan, cleanup_erase,
           cleanup_sleep, start_graceful_shutdown, assign_thread,
           graceful_shutdown_thread,
           graceful_interval, graceful_loop, graceful_pick, graceful_erase,
           graceful_wait, destroy, destroy_deactivate, destroy_join, Tick, Halted
<1> QED
  BY <1>1, Invariance, PTL DEF Spec, BarredCallIsRefused

(* create_session tells the truth, although the blacklist is checked and    *)
(* the table changed under different mutexes: a call that is not refused    *)
(* leaves a session with fresh activity, one that is refused was for an     *)
(* IMSI that is or may be blacklisted.  With a blacklist nobody edits this  *)
(* is what EventDispatcher takes for the outcome of create_session.         *)
THEOREM ResultsAreTrue == Spec => ResultIsTrue
<1>1. IInv /\ [Next]_vars => [ReturnStep]_vars
  <2> SUFFICES ASSUME IInv, Next, NEW v \in Callers, pc[v] # "idle", pc'[v] = "idle"
               PROVE  \/ /\ result'[v] = "BLACKLISTED"
                         /\ call[v] \in Blacklist \cup Editable
                      \/ /\ result'[v] \in {"CREATED", "ALREADY_EXISTS"}
                         /\ call[v] \notin Blacklist \ Editable
                         /\ call[v] \in sessions' /\ last_activity'[call[v]] = clock
    BY DEF ReturnStep
  <2>1. pc' # pc /\ call[v] \in Valid /\ Valid \subseteq Imsi
    BY ConstantsAssumption DEF IInv, CallsAdmissible
  <2>2. ASSUME NEW w \in Callers, NEW i \in Imsi, create_session(w, i) PROVE FALSE
    BY <2>1, <2>2 DEF create_session, return, IInv, TypeOK
  <2>3. ASSUME NEW w \in Callers, check_blacklist(w)
        PROVE  result'[v] = "BLACKLISTED" /\ call[v] \in Blacklist \cup Editable
    BY <2>1, <2>3 DEF check_blacklist, Refused, return, IInv, TypeOK, BlacklistBounds
  <2>4. ASSUME NEW w \in Callers, insert_session(w)
        PROVE  /\ result'[v] \in {"CREATED", "ALREADY_EXISTS"}
               /\ call[v] \notin Blacklist \ Editable
               /\ call[v] \in sessions' /\ last_activity'[call[v]] = clock
    <3>1. w = v
      BY <2>4 DEF insert_session, return, IInv, TypeOK
    <3>2. call[v] \notin Blacklist \ Editable
      BY <2>4, <3>1 DEF insert_session, IInv, CallsAdmissible
    <3>3. last_activity'[call[v]] = clock
      BY <2>1, <2>4, <3>1 DEF insert_session, Refreshed, IInv, TypeOK
    <3> QED
      BY <2>4, <3>1, <3>2, <3>3 DEF insert_session, Exists, return, IInv, TypeOK
  <2> QED
    BY <2>1, <2>2, <2>3, <2>4
       DEF Next, CallerStep, callerVars, threadVars, vars, remove_session,
           update_session_activity, add_to_blacklist, remove_from_blacklist,
           cleanup_thread, cleanup_loop, cleanup_scan, cleanup_erase,
           cleanup_sleep, start_graceful_shutdown, assign_thread,
           graceful_shutdown_thread,
           graceful_interval, graceful_loop, graceful_pick, graceful_erase,
           graceful_wait, destroy, destroy_deactivate, destroy_join, Tick, Halted
<1> QED
  BY <1>1, Invariance, PTL DEF Spec, ResultIsTrue

(* After the destructor the manager is silent: JoinedThreadsEnded rules out *)
(* every action that writes the table or a record.                          *)
THEOREM SilentOnceDestroyed == Spec => QuietAfterDestruction
<1>1. IInv /\ [Next]_vars => [QuietStep]_vars
  <2> SUFFICES ASSUME IInv, Next, dpc = "done"
               PROVE  UNCHANGED <<tableVars, cdrVars>>
    BY DEF QuietStep
  <2>1. /\ \A w \in Callers : pc[w] = "idle"
        /\ cpc = "finished"
        /\ \A s \in Stops : gpc[s] \in {"none", "finished"} /\ spc[s] # "assign"
    BY DEF IInv, JoinedThreadsEnded
  <2> QED
    BY <2>1
       DEF Next, CallerStep, tableVars, cdrVars, vars, create_session,
           check_blacklist, insert_session, remove_session,
           update_session_activity, add_to_blacklist, remove_from_blacklist,
           cleanup_thread, cleanup_loop, cleanup_scan, cleanup_erase,
           cleanup_sleep, start_graceful_shutdown, assign_thread,
           graceful_shutdown_thread,
           graceful_interval, graceful_loop, graceful_pick, graceful_erase,
           graceful_wait, advance, destroy, destroy_deactivate, destroy_join, Tick, Halted
<1> QED
  BY <1>1, Invariance, PTL DEF Spec, QuietAfterDestruction

(* A GRACEFUL_SHUTDOWN record comes from the erasing section of a thread. *)
LEMMA RecordedByErase ==
  ASSUME IInv, Next, NEW j \in Imsi,
         open'[j] < open[j], last'[j] = "GRACEFUL_SHUTDOWN"
  PROVE  \E s \in Stops : gpc[s] = "erase"
<1>1. open[j] \in Int
  BY DEF IInv, TypeOK
<1> QED
  BY <1>1
     DEF Next, CallerStep, cdrVars, vars, create_session, emit_event, Delta,
         check_blacklist, insert_session, remove_session,
         update_session_activity, add_to_blacklist, remove_from_blacklist,
         cleanup_thread, cleanup_loop, cleanup_scan, cleanup_erase,
         cleanup_sleep, start_graceful_shutdown, assign_thread,
         graceful_shutdown_thread, graceful_interval, graceful_loop,
         graceful_pick, graceful_erase, graceful_wait, advance, destroy,
         destroy_deactivate, destroy_join, Tick, Halted

(* There, by WaitKept, the only graceful-shutdown thread has its wait behind *)
(* it, and the wait has filled the time since the previous record.           *)
LEMMA EraseAfterWait ==
  ASSUME IInv, OneThread, NEW s \in Stops, gpc[s] = "erase"
  PROVE  ShutdownRate # 0 /\ gap >= SleepDuration
<1>1. Alone(s) /\ ShutdownRate # 0
  BY DEF IInv, OneThread, Alone, WaitKept
<1>2. pause[s] = 0
  BY <1>1 DEF IInv, TypeOK, WaitKept
<1> QED
  BY <1>1, <1>2, SleepDurationType, ConstantsAssumption DEF IInv, TypeOK, WaitKept

(* Graceful shutdown keeps its pace: two records are the rate's share of a  *)
(* second apart, rounded down to whole ticks.                               *)
THEOREM ShutdownKeepsPace == Spec => ShutdownIsPaced
<1>1. IInv /\ [Next]_vars => [PaceStep]_vars
  <2> SUFFICES ASSUME IInv, Next, OneThread, NEW j \in Imsi,
                      open'[j] < open[j], last'[j] = "GRACEFUL_SHUTDOWN"
               PROVE  (gap + 1) * ShutdownRate > Second
    BY DEF PaceStep
  <2>1. PICK s \in Stops : gpc[s] = "erase"
    BY RecordedByErase
  <2>2. ShutdownRate # 0 /\ gap >= SleepDuration
    BY <2>1, EraseAfterWait
  <2>3. /\ ShutdownRate \in Nat /\ Second \in Nat /\ SleepDuration \in Nat
        /\ gap \in Nat
        /\ (SleepDuration + 1) * ShutdownRate > Second
    BY <2>2, SleepDurationType, SleepDurationBound, ConstantsAssumption
       DEF IInv, TypeOK
  <2>4. (gap + 1) * ShutdownRate >= (SleepDuration + 1) * ShutdownRate
    BY <2>2, <2>3
  <2> QED
    BY <2>3, <2>4
<1> QED
  BY <1>1, Invariance, PTL DEF Spec, ShutdownIsPaced

(* For a rate that divides the second this is the documented limit: a       *)
(* GRACEFUL_SHUTDOWN record comes 1/ShutdownRate of a second after the       *)
(* previous one at the earliest.                                            *)
THEOREM DividingRateIsKept ==
  ASSUME NEW k \in Nat, Second = k * ShutdownRate
  PROVE  Spec => [][OneThread /\ (\E i \in Imsi : open'[i] < open[i]
                                              /\ last'[i] = "GRACEFUL_SHUTDOWN")
                      => gap * ShutdownRate >= Second]_vars
<1>1. ASSUME IInv, Next, OneThread, NEW j \in Imsi,
             open'[j] < open[j], last'[j] = "GRACEFUL_SHUTDOWN"
      PROVE  gap * ShutdownRate >= Second
  <2>1. PICK s \in Stops : gpc[s] = "erase"
    BY <1>1, RecordedByErase
  <2>2. ShutdownRate # 0 /\ gap >= SleepDuration
    BY <1>1, <2>1, EraseAfterWait
  <2>3. /\ ShutdownRate \in Nat /\ gap \in Nat
        /\ SleepDuration = k
    BY <1>1, <2>2, ConstantsAssumption DEF SleepDuration, IInv, TypeOK
  <2>4. gap * ShutdownRate >= k * ShutdownRate
    BY <2>2, <2>3
  <2> QED
    BY <2>4
<1>2. IInv /\ [Next]_vars =>
        [OneThread /\ (\E i \in Imsi : open'[i] < open[i]
                                     /\ last'[i] = "GRACEFUL_SHUTDOWN")
           => gap * ShutdownRate >= Second]_vars
  BY <1>1
<1> QED
  BY <1>2, Invariance, PTL DEF Spec

(* With a positive shutdown rate and at most one stop request, nothing in   *)
(* the manager aborts the process.                                         *)
THEOREM OneStopIsGraceful ==
  ASSUME \A s, t \in Stops : s = t, ShutdownRate # 0
  PROVE  Spec => []StopIsGraceful
<1>1. Init => StopIsGraceful
  BY DEF Init, StopIsGraceful
<1>2. StopIsGraceful /\ [Next]_vars => StopIsGraceful'
  BY DEF StopIsGraceful, Next, CallerStep, flagVars, vars, create_session,
         check_blacklist, insert_session, remove_session,
         update_session_activity, add_to_blacklist, remove_from_blacklist,
         cleanup_thread, cleanup_loop, cleanup_scan, cleanup_erase,
         cleanup_sleep, start_graceful_shutdown, assign_thread,
         graceful_shutdown_thread, graceful_interval, graceful_loop,
         graceful_pick, graceful_erase, graceful_wait, destroy,
         destroy_deactivate, destroy_join, Tick, Halted
<1> QED
  BY <1>1, <1>2, PTL DEF Spec
=============================================================================
