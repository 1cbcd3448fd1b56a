--------------------------- MODULE SessionManager ---------------------------
(***************************************************************************)
(* The session table of pgw_server (src/src/session_manager.{h,cpp}): the  *)
(* callers of create_session (the dispatcher's worker threads), the        *)
(* cleanup thread, the graceful-shutdown thread and the owner that         *)
(* destroys the manager.                                                   *)
(*                                                                         *)
(* Every critical section under sessions_mutex_ or blacklist_mutex_ is one *)
(* action; whatever the code reads outside of a lock, or carries from one  *)
(* critical section to the next, is kept in a variable and may be stale.   *)
(*                                                                         *)
(* The CDR file, fed by emit_event, is abstracted for each IMSI to its     *)
(* latest record and to the balance of CREATED records over records that   *)
(* end a session.                                                          *)
(***************************************************************************)
EXTENDS Integers

CONSTANTS
  Imsi,          \* every string some caller passes to the manager
  Valid,         \* the ones the IMSI constructor accepts
  NoImsi,        \* "no call in progress"
  Blacklist,     \* blacklist_ as configured
  Editable,      \* IMSIs given to add_to_/remove_from_blacklist at run time
  Callers,       \* threads that call create_session
  Timeout,       \* session_timeout_, in clock ticks
  ShutdownRate,  \* shutdown_rate_, sessions per second
  Second,        \* clock ticks per second: 1000 in the code
  Stops,         \* the calls of start_graceful_shutdown of a behaviour
  MaxTime,       \* bound: the last clock tick
  MaxRemovals    \* bound: unrecorded remove_session calls per IMSI

ASSUME ConstantsAssumption ==
  /\ Valid \cup Blacklist \cup Editable \subseteq Imsi
  /\ NoImsi \notin Imsi
  /\ {Timeout, ShutdownRate, Second, MaxTime, MaxRemovals} \subseteq Nat

SessionAction == {"CREATED", "REJECTED", "TIMEOUT", "GRACEFUL_SHUTDOWN"}
CreateResult == {"CREATED", "ALREADY_EXISTS", "BLACKLISTED"}

VARIABLES
  clock,          \* steady_clock::now()
  sessions,       \* the keys of sessions_
  last_activity,  \* Session::last_activity, meaningful for keys of sessions_
  blacklist,      \* blacklist_
  running,        \* running_
  active,         \* graceful_shutdown_active_
  open,           \* CDR file: CREATED records minus ending records, per IMSI
  last,           \* CDR file: the latest record, per IMSI
  pc, call, result,          \* create_session: where each caller is, its argument, what it got
  cpc, now, expired,         \* cleanup_thread: control, sampled time, expired_sessions
  spc,                       \* start_graceful_shutdown: where each call is
  gpc, target, pause,        \* the graceful_shutdown_thread each of them has started:
                             \* control, imsi_to_remove, rest of wait_for
  dpc,                       \* ~SessionManager: control
  terminated,                \* the process was aborted (std::terminate, SIGFPE)
  unrecorded,     \* history: sessions of an IMSI dropped by remove_session
  gap,            \* history: ticks since the latest GRACEFUL_SHUTDOWN record, at most Second
  barred          \* history: the caller's IMSI was blacklisted ever since the call began

tableVars    == <<sessions, last_activity>>
cdrVars      == <<open, last>>
flagVars     == <<running, active, dpc, terminated>>
callerVars   == <<pc, call, result, barred>>
cleanupVars  == <<cpc, now, expired>>
gracefulVars == <<spc, gpc, target, pause>>
historyVars  == <<unrecorded, gap>>
threadVars   == <<callerVars, cleanupVars, gracefulVars>>
vars == <<clock, tableVars, blacklist, cdrVars, flagVars, threadVars, historyVars>>

TypeOK ==
  /\ clock \in Nat
  /\ sessions \subseteq Imsi
  /\ last_activity \in [Imsi -> Nat]
  /\ blacklist \subseteq Imsi
  /\ running \in BOOLEAN /\ active \in BOOLEAN /\ terminated \in BOOLEAN
  /\ open \in [Imsi -> Int]
  /\ last \in [Imsi -> SessionAction \cup {"NONE"}]
  /\ pc \in [Callers -> {"idle", "blacklist", "insert"}]
  /\ call \in [Callers -> Imsi \cup {NoImsi}]
  /\ result \in [Callers -> CreateResult \cup {"NONE"}]
  /\ barred \in [Callers -> BOOLEAN]
  /\ cpc \in {"loop", "scan", "erase", "sleep", "finished"}
  /\ now \in Nat
  /\ expired \subseteq Imsi
  /\ spc \in [Stops -> {"idle", "assign", "returned", "failed"}]
  /\ gpc \in [Stops -> {"none", "start", "loop", "pick", "erase", "wait", "finished"}]
  /\ target \in [Stops -> Imsi \cup {NoImsi}]
  /\ pause \in [Stops -> Nat]
  /\ dpc \in {"live", "deactivate", "join_cleanup", "join_graceful", "done"}
  /\ unrecorded \in [Imsi -> Nat]
  /\ gap \in 0 .. Second

-----------------------------------------------------------------------------
(* The constructor: the cleanup thread starts at once. *)
Init ==
  /\ clock = 0
  /\ sessions = {} /\ last_activity = [i \in Imsi |-> 0]
  /\ blacklist = Blacklist
  /\ running = TRUE /\ active = FALSE /\ terminated = FALSE
  /\ open = [i \in Imsi |-> 0]
  /\ last = [i \in Imsi |-> "NONE"]
  /\ pc = [w \in Callers |-> "idle"]
  /\ call = [w \in Callers |-> NoImsi]
  /\ result = [w \in Callers |-> "NONE"]
  /\ barred = [w \in Callers |-> FALSE]
  /\ cpc = "loop" /\ now = 0 /\ expired = {}
  /\ spc = [s \in Stops |-> "idle"] /\ gpc = [s \in Stops |-> "none"]
  /\ target = [s \in Stops |-> NoImsi] /\ pause = [s \in Stops |-> 0]
  /\ dpc = "live"
  /\ unrecorded = [i \in Imsi |-> 0] /\ gap = Second

(* What a record does to the balance of its IMSI. *)
Delta(action) ==
  IF action = "CREATED" THEN 1 ELSE IF action = "REJECTED" THEN 0 ELSE -1

(* One record of kind `action' for each IMSI of S. *)
emit_event(S, action) ==
  /\ open' = [i \in Imsi |-> IF i \in S THEN open[i] + Delta(action) ELSE open[i]]
  /\ last' = [i \in Imsi |-> IF i \in S THEN action ELSE last[i]]

-----------------------------------------------------------------------------
(* create_session *)

return(w, r) ==
  /\ pc' = [pc EXCEPT ![w] = "idle"]
  /\ call' = [call EXCEPT ![w] = NoImsi]
  /\ result' = [result EXCEPT ![w] = r]
  /\ barred' = [barred EXCEPT ![w] = FALSE]

(* The IMSI constructor throws on an invalid string: BLACKLISTED, no record. *)
create_session(w, i) ==
  /\ dpc = "live"
  /\ pc[w] = "idle"
  /\ \/ /\ i \notin Valid
        /\ return(w, "BLACKLISTED")
     \/ /\ i \in Valid
        /\ pc' = [pc EXCEPT ![w] = "blacklist"]
        /\ call' = [call EXCEPT ![w] = i]
        /\ result' = [result EXCEPT ![w] = "NONE"]
        /\ barred' = [barred EXCEPT ![w] = i \in blacklist]
  /\ UNCHANGED <<clock, tableVars, blacklist, cdrVars, flagVars, cleanupVars,
                 gracefulVars, historyVars>>

(* Variant: the check is left out. *)
Refused_never(w) == FALSE
Refused(w) == call[w] \in blacklist

(* The block under blacklist_mutex_; it is released before sessions_mutex_  *)
(* is taken.                                                               *)
check_blacklist(w) ==
  /\ pc[w] = "blacklist"
  /\ \/ /\ Refused(w)
        /\ emit_event({call[w]}, "REJECTED")
        /\ return(w, "BLACKLISTED")
     \/ /\ ~Refused(w)
        /\ pc' = [pc EXCEPT ![w] = "insert"]
        /\ UNCHANGED <<call, result, barred, cdrVars>>
  /\ UNCHANGED <<clock, tableVars, blacklist, flagVars, cleanupVars,
                 gracefulVars, historyVars>>

(* Variant: no look-up before the session is created. *)
Exists_never(w) == FALSE
Exists(w) == call[w] \in sessions

(* Variant: only a new session gets a time. *)
Refreshed_when_new(w) ==
  IF Exists(w) THEN last_activity ELSE [last_activity EXCEPT ![call[w]] = clock]
Refreshed(w) == [last_activity EXCEPT ![call[w]] = clock]

(* The block under sessions_mutex_. *)
insert_session(w) ==
  /\ pc[w] = "insert"
  /\ last_activity' = Refreshed(w)
  /\ \/ /\ Exists(w)
        /\ return(w, "ALREADY_EXISTS")
        /\ UNCHANGED <<sessions, cdrVars>>
     \/ /\ ~Exists(w)
        /\ sessions' = sessions \cup {call[w]}
        /\ emit_event({call[w]}, "CREATED")
        /\ return(w, "CREATED")
  /\ UNCHANGED <<clock, blacklist, flagVars, cleanupVars, gracefulVars, historyVars>>

-----------------------------------------------------------------------------
(* The other public operations: no caller in pgw_server, part of the class. *)

(* Erases without emit_event. *)
remove_session(i) ==
  /\ dpc = "live"
  /\ i \in sessions
  /\ unrecorded[i] < MaxRemovals
  /\ sessions' = sessions \ {i}
  /\ unrecorded' = [unrecorded EXCEPT ![i] = @ + 1]
  /\ UNCHANGED <<clock, last_activity, blacklist, cdrVars, flagVars, threadVars, gap>>

update_session_activity(i) ==
  /\ dpc = "live"
  /\ i \in sessions
  /\ last_activity' = [last_activity EXCEPT ![i] = clock]
  /\ UNCHANGED <<clock, sessions, blacklist, cdrVars, flagVars, threadVars, historyVars>>

add_to_blacklist(i) ==
  /\ dpc = "live"
  /\ blacklist' = blacklist \cup {i}
  /\ UNCHANGED <<clock, tableVars, cdrVars, flagVars, threadVars, historyVars>>

remove_from_blacklist(i) ==
  /\ dpc = "live"
  /\ blacklist' = blacklist \ {i}
  /\ barred' = [w \in Callers |-> barred[w] /\ call[w] # i]
  /\ UNCHANGED <<clock, tableVars, cdrVars, flagVars, pc, call, result,
                 cleanupVars, gracefulVars, historyVars>>

-----------------------------------------------------------------------------
(* cleanup_thread: sample the time, collect under the shared lock, check    *)
(* again and erase under the exclusive lock, sleep.                        *)

(* Variant: while (true). *)
CleanupGoesOn_always == TRUE
CleanupGoesOn == running

(* Variant: a session that has been idle for exactly the timeout is kept. *)
IsExpired_strict(i) == now - last_activity[i] > Timeout

(* now - last_activity >= session_timeout_, for the time the thread sampled. *)
IsExpired(i) == now - last_activity[i] >= Timeout

(* Variant: the second check of the session's age is left out. *)
Victims_unchecked == expired \cap sessions
Victims == {i \in expired \cap sessions : IsExpired(i)}

cleanup_loop ==
  /\ cpc = "loop"
  /\ \/ CleanupGoesOn /\ now' = clock /\ cpc' = "scan"
     \/ ~CleanupGoesOn /\ cpc' = "finished" /\ UNCHANGED now
  /\ UNCHANGED <<clock, tableVars, blacklist, cdrVars, flagVars, callerVars,
                 expired, gracefulVars, historyVars>>

cleanup_scan ==
  /\ cpc = "scan"
  /\ expired' = {i \in sessions : IsExpired(i)}
  /\ cpc' = IF expired' = {} THEN "sleep" ELSE "erase"
  /\ UNCHANGED <<clock, tableVars, blacklist, cdrVars, flagVars, callerVars, now,
                 gracefulVars, historyVars>>

cleanup_erase ==
  /\ cpc = "erase"
  /\ sessions' = sessions \ Victims
  /\ emit_event(Victims, "TIMEOUT")
  /\ expired' = {}
  /\ cpc' = "sleep"
  /\ UNCHANGED <<clock, last_activity, blacklist, flagVars, callerVars, now,
                 gracefulVars, historyVars>>

cleanup_sleep ==
  /\ cpc = "sleep"
  /\ cpc' = "loop"
  /\ UNCHANGED <<clock, tableVars, blacklist, cdrVars, flagVars, callerVars, now,
                 expired, gracefulVars, historyVars>>

cleanup_thread == cleanup_loop \/ cleanup_scan \/ cleanup_erase \/ cleanup_sleep

-----------------------------------------------------------------------------
(* Graceful shutdown *)

(* The flag, and a thread in a temporary.  If it cannot be created          *)
(* std::system_error goes to the caller and the flag stays up.              *)
start_graceful_shutdown(s) ==
  /\ dpc = "live"
  /\ spc[s] = "idle"
  /\ active' = TRUE
  /\ \/ /\ spc' = [spc EXCEPT ![s] = "assign"]
        /\ gpc' = [gpc EXCEPT ![s] = "start"]
     \/ spc' = [spc EXCEPT ![s] = "failed"] /\ UNCHANGED gpc
  /\ UNCHANGED <<clock, tableVars, blacklist, cdrVars, running, dpc, terminated,
                 callerVars, cleanupVars, target, pause, historyVars>>

(* The temporary, whose thread is running already, is assigned to           *)
(* graceful_shutdown_thread_.  If an earlier call has done so it is still   *)
(* joinable, and std::terminate is called.                                  *)
assign_thread(s) ==
  /\ spc[s] = "assign"
  /\ IF \E t \in Stops : spc[t] = "returned"
       THEN terminated' = TRUE /\ UNCHANGED spc
       ELSE spc' = [spc EXCEPT ![s] = "returned"] /\ UNCHANGED terminated
  /\ UNCHANGED <<clock, tableVars, blacklist, cdrVars, running, active, dpc,
                 callerVars, cleanupVars, gpc, target, pause, historyVars>>

(* Variant: the quotient is one of seconds, not of milliseconds. *)
SleepDuration_seconds == 1 \div ShutdownRate

(* 1000 / shutdown_rate_: an integer division, 0 above 1000. *)
SleepDuration == Second \div ShutdownRate

advance(s, here, next) == gpc[s] = here /\ gpc' = [gpc EXCEPT ![s] = next]

graceful_interval(s) ==
  /\ IF ShutdownRate = 0
       THEN gpc[s] = "start" /\ terminated' = TRUE /\ UNCHANGED gpc
       ELSE advance(s, "start", "loop") /\ UNCHANGED terminated
  /\ UNCHANGED <<clock, tableVars, blacklist, cdrVars, running, active, dpc,
                 callerVars, cleanupVars, spc, target, pause, historyVars>>

graceful_loop(s) ==
  /\ advance(s, "loop", IF active /\ running THEN "pick" ELSE "finished")
  /\ UNCHANGED <<clock, tableVars, blacklist, cdrVars, flagVars, callerVars,
                 cleanupVars, spc, target, pause, historyVars>>

(* Under the shared lock: sessions_.begin() is any session of the table.   *)
graceful_pick(s) ==
  /\ \/ /\ sessions = {}
        /\ active' = FALSE
        /\ advance(s, "pick", "finished")
        /\ UNCHANGED target
     \/ /\ \E i \in sessions : target' = [target EXCEPT ![s] = i]
        /\ advance(s, "pick", "erase")
        /\ UNCHANGED active
  /\ UNCHANGED <<clock, tableVars, blacklist, cdrVars, running, dpc, terminated,
                 callerVars, cleanupVars, spc, pause, historyVars>>

(* Variants: the session is not looked up again before it is recorded; the  *)
(* test of the look-up is inverted.                                        *)
Found_blind(s) == {target[s]}
Found_inverted(s) == {target[s]} \ sessions
Found(s) == sessions \cap {target[s]}

(* Under the exclusive lock, after the session may have ended otherwise.    *)
(* The wait follows whether it had or not.                                 *)
graceful_erase(s) ==
  /\ advance(s, "erase", "wait")
  /\ sessions' = sessions \ Found(s)
  /\ emit_event(Found(s), "GRACEFUL_SHUTDOWN")
  /\ gap' = IF Found(s) = {} THEN gap ELSE 0
  /\ target' = [target EXCEPT ![s] = NoImsi]
  /\ pause' = [pause EXCEPT ![s] = SleepDuration]
  /\ UNCHANGED <<clock, last_activity, blacklist, flagVars, callerVars,
                 cleanupVars, spc, unrecorded>>

(* wait_for returns after the interval or once active is false. *)
graceful_wait(s) ==
  /\ advance(s, "wait", "loop")
  /\ pause[s] = 0 \/ ~active
  /\ UNCHANGED <<clock, tableVars, blacklist, cdrVars, flagVars, callerVars,
                 cleanupVars, spc, target, pause, historyVars>>

graceful_shutdown_thread(s) ==
  \/ graceful_interval(s) \/ graceful_loop(s) \/ graceful_pick(s)
  \/ graceful_erase(s) \/ graceful_wait(s)

-----------------------------------------------------------------------------
(* ~SessionManager: no call is in progress and none follows. *)

destroy ==
  /\ dpc = "live"
  /\ \A w \in Callers : pc[w] = "idle"
  /\ \A s \in Stops : spc[s] # "assign"
  /\ running' = FALSE
  /\ dpc' = "deactivate"
  /\ UNCHANGED <<clock, tableVars, blacklist, cdrVars, active, terminated,
                 threadVars, historyVars>>

destroy_deactivate ==
  /\ dpc = "deactivate"
  /\ active' = FALSE
  /\ dpc' = "join_cleanup"
  /\ UNCHANGED <<clock, tableVars, blacklist, cdrVars, running, terminated,
                 threadVars, historyVars>>

(* Variant: the graceful-shutdown thread is not joined. *)
GracefulEnded_unasked == TRUE
GracefulEnded == \A s \in Stops : spc[s] = "returned" => gpc[s] = "finished"

destroy_join ==
  /\ \/ dpc = "join_cleanup" /\ cpc = "finished" /\ dpc' = "join_graceful"
     \/ dpc = "join_graceful" /\ GracefulEnded /\ dpc' = "done"
  /\ UNCHANGED <<clock, tableVars, blacklist, cdrVars, running, active,
                 terminated, threadVars, historyVars>>

-----------------------------------------------------------------------------
(* Time passes for the sessions until MaxTime, for waiting graceful threads *)
(* as long as they wait.                                                   *)
Tick ==
  /\ dpc # "done"
  /\ clock < MaxTime \/ \E s \in Stops : pause[s] > 0
  /\ clock' = IF clock < MaxTime THEN clock + 1 ELSE clock
  /\ pause' = [s \in Stops |-> IF pause[s] > 0 THEN pause[s] - 1 ELSE 0]
  /\ gap' = IF gap < Second THEN gap + 1 ELSE gap
  /\ UNCHANGED <<tableVars, blacklist, cdrVars, flagVars, callerVars,
                 cleanupVars, spc, gpc, target, unrecorded>>

(* The manager is gone, or the process is. *)
Halted ==
  /\ terminated \/ dpc = "done"
  /\ UNCHANGED vars

CallerStep(w) == check_blacklist(w) \/ insert_session(w)

Next ==
  \/ /\ ~terminated
     /\ \/ \E w \in Callers, i \in Imsi : create_session(w, i)
        \/ \E w \in Callers : CallerStep(w)
        \/ \E i \in Imsi : remove_session(i) \/ update_session_activity(i)
        \/ \E i \in Editable : add_to_blacklist(i) \/ remove_from_blacklist(i)
        \/ cleanup_thread
        \/ \E s \in Stops :
             \/ start_graceful_shutdown(s) \/ assign_thread(s)
             \/ graceful_shutdown_thread(s)
        \/ destroy \/ destroy_deactivate \/ destroy_join
        \/ Tick
  \/ Halted

Spec == Init /\ [][Next]_vars

(* Threads are scheduled and time passes; nobody is obliged to call.       *)
Fairness ==
  /\ \A w \in Callers : WF_vars(~terminated /\ CallerStep(w))
  /\ WF_vars(~terminated /\ cleanup_thread)
  /\ \A s \in Stops :
       /\ WF_vars(~terminated /\ assign_thread(s))
       /\ WF_vars(~terminated /\ graceful_shutdown_thread(s))
  /\ WF_vars(~terminated /\ (destroy_deactivate \/ destroy_join))
  /\ WF_vars(~terminated /\ Tick)

FairSpec == Spec /\ Fairness

-----------------------------------------------------------------------------
(* Safety *)

(* The CDR file agrees with the table, whichever thread ended the session:  *)
(* CREATED and ending records of an IMSI alternate, except that each        *)
(* remove_session leaves one CREATED record without its end.  A session     *)
(* recorded twice, or ended by cleanup and by graceful shutdown both,       *)
(* breaks it.                                                              *)
CdrMatchesSessions ==
  \A i \in Imsi : open[i] = unrecorded[i] + (IF i \in sessions THEN 1 ELSE 0)

(* An IMSI of the configured blacklist never has a session, unless its      *)
(* entry is edited at run time, when create_session may pass the check just *)
(* before add_to_blacklist; a string the IMSI constructor refuses never has *)
(* one at all.                                                             *)
OnlyAdmissibleSessions ==
  sessions \subseteq Valid \ (Blacklist \ Editable)

(* A TIMEOUT record is written only for a session that has in fact been     *)
(* idle for session_timeout_, although cleanup_thread sampled the time and  *)
(* chose its victims in earlier critical sections, between which            *)
(* create_session may have refreshed, or ended and re-created, the session. *)
TimeoutStep ==
  \A i \in Imsi :
    open'[i] < open[i] /\ last'[i] = "TIMEOUT"
      => i \in sessions /\ clock - last_activity[i] >= Timeout
TimeoutOnlyWhenIdle == [][TimeoutStep]_vars

(* A create_session during all of which its IMSI was blacklisted returns    *)
(* BLACKLISTED, whatever add_to_blacklist and remove_from_blacklist do      *)
(* for other IMSIs meanwhile and although the two mutexes are not held      *)
(* together.                                                               *)
RefusalStep ==
  \A w \in Callers :
    barred[w] /\ pc'[w] = "idle" => result'[w] = "BLACKLISTED"
BarredCallIsRefused == [][RefusalStep]_vars

(* Once ~SessionManager returned, no thread of the manager emits a record   *)
(* (the CDR writer is destroyed next) or touches the table.                 *)
QuietStep == dpc = "done" => UNCHANGED <<tableVars, cdrVars>>
QuietAfterDestruction == [][QuietStep]_vars

(* What a returning create_session says is true of the table at that        *)
(* moment, although blacklist and table are looked at under different       *)
(* mutexes: a call that is not refused leaves a session with fresh          *)
(* activity, one that is refused was for an IMSI that is or may be          *)
(* blacklisted.                                                            *)
ReturnStep ==
  \A w \in Callers : pc[w] # "idle" /\ pc'[w] = "idle" =>
    \/ /\ result'[w] = "BLACKLISTED"
       /\ call[w] \in Blacklist \cup Editable
    \/ /\ result'[w] \in {"CREATED", "ALREADY_EXISTS"}
       /\ call[w] \notin Blacklist \ Editable
       /\ call[w] \in sessions' /\ last_activity'[call[w]] = clock
ResultIsTrue == [][ReturnStep]_vars

(* Graceful shutdown is paced by shutdown_rate_: between two                *)
(* GRACEFUL_SHUTDOWN records 1/ShutdownRate of a second passes, rounded     *)
(* down to whole ticks, although the wait is interruptible and a picked     *)
(* session may turn out to be gone.  That is the documented number of       *)
(* sessions per second exactly when the rate divides 1000; otherwise the    *)
(* rounding ends more (a rate of 600 waits 1 ms: up to 1000 a second, and   *)
(* above 1000 there is no wait).  It is so while one graceful-shutdown      *)
(* thread was started; the thread of a second call runs without regard to   *)
(* the first until that call terminates the process.                       *)
OneThread == \A s, t \in Stops : gpc[s] # "none" /\ gpc[t] # "none" => s = t
PaceStep ==
  \A i \in Imsi :
    OneThread /\ open'[i] < open[i] /\ last'[i] = "GRACEFUL_SHUTDOWN"
      => (gap + 1) * ShutdownRate > Second
ShutdownIsPaced == [][PaceStep]_vars

(* start_graceful_shutdown does not bring the process down. *)
StopIsGraceful == ~terminated

(* The manager implements the abstract session table. *)
Table == INSTANCE SessionLifecycle WITH
           time <- clock, alive <- sessions, since <- last_activity,
           stopping <- (\E s \in Stops : gpc[s] # "none")
ImplementsLifecycle == Table!Spec

-----------------------------------------------------------------------------
(* The inductive invariant: what the threads rely on between their critical *)
(* sections.                                                               *)

(* A call past the IMSI constructor has a valid argument; one past the      *)
(* blacklist check does not carry a permanently blacklisted one.            *)
CallsAdmissible ==
  \A w \in Callers :
    /\ pc[w] # "idle" => call[w] \in Valid
    /\ pc[w] = "insert" => call[w] \notin Blacklist \ Editable

(* Only entries of Editable IMSIs ever differ from the configured blacklist. *)
BlacklistBounds ==
  /\ Blacklist \ Editable \subseteq blacklist
  /\ blacklist \subseteq Blacklist \cup Editable

(* A call whose IMSI was blacklisted all along cannot be past the check. *)
BarredCallsWait ==
  \A w \in Callers : barred[w] => pc[w] = "blacklist" /\ call[w] \in blacklist

(* The destructor's joins: what has ended by the time it has passed them. *)
JoinedThreadsEnded ==
  /\ \A s \in Stops : gpc[s] # "none" <=> spc[s] \in {"assign", "returned"}
  /\ dpc # "live" =>
       (\A w \in Callers : pc[w] = "idle") /\ \A s \in Stops : spc[s] # "assign"
  /\ dpc \in {"join_graceful", "done"} => cpc = "finished"
  /\ dpc = "done" => \A s \in Stops : gpc[s] \in {"none", "finished"}

(* The only graceful thread is past its wait early only if the destructor   *)
(* has begun, and then does not pick another session; and what it still has *)
(* to wait makes up what is missing since the last record.                  *)
Alone(s) == \A t \in Stops : gpc[t] # "none" => t = s
WaitKept ==
  \A s \in Stops :
    /\ gpc[s] \notin {"none", "start"} => ShutdownRate # 0
    /\ gpc[s] \in {"none", "start"} => pause[s] = 0
    /\ Alone(s) =>
         /\ pause[s] > 0 => gpc[s] \in {"loop", "wait", "finished"}
         /\ pause[s] > 0 /\ gpc[s] = "loop" => ~active
         /\ gpc[s] \notin {"none", "finished"} /\ ~active =>
              dpc \notin {"live", "deactivate"}
         /\ ShutdownRate # 0 => gap + pause[s] >= SleepDuration

IInv ==
  /\ TypeOK
  /\ CallsAdmissible
  /\ BlacklistBounds
  /\ BarredCallsWait
  /\ JoinedThreadsEnded
  /\ WaitKept
  /\ now <= clock
  /\ OnlyAdmissibleSessions
  /\ CdrMatchesSessions

-----------------------------------------------------------------------------
(* Liveness *)

(* A session that stays idle is removed: its activity at time t is not its  *)
(* last state once Timeout has passed (time ends at MaxTime in the model),  *)
(* unless a repeated request to stop terminates the process.                *)
IdleSessionEnds ==
  \A i \in Imsi, t \in 0 .. MaxTime :
    i \in sessions /\ last_activity[i] = t /\ t + Timeout <= MaxTime
      ~> i \notin sessions \/ last_activity[i] # t \/ dpc # "live" \/ terminated

(* A requested graceful shutdown removes every session and ends, provided   *)
(* that at some point no more create_session calls come in.  Without that   *)
(* it need not end: create_session admits new sessions during a shutdown.   *)
(* A second request terminates the process instead.                         *)
ShutdownEndsOnceCallsCease ==
  <>[](\A w \in Callers : pc[w] = "idle")
    => \A s \in Stops : gpc[s] = "start" ~> gpc[s] = "finished" \/ terminated

(* ~SessionManager joins both threads and returns: it wakes the graceful    *)
(* thread from its rate-limiting wait, and neither loop outlives running_.  *)
DestructorReturns == dpc = "deactivate" ~> dpc = "done"
=============================================================================
