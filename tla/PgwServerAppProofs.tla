------------------------ MODULE PgwServerAppProofs ------------------------
(***************************************************************************)
(* Proofs about pgw_server's main thread and its HTTP server, for any       *)
(* number of POST /stop requests and of worker threads.                    *)
(***************************************************************************)
EXTENDS PgwServerApp, TLAPS

-----------------------------------------------------------------------------
(* The HTTP server *)

LEMMA ListenKeepsHttpInv ==
  ASSUME HttpInv, listen \/ listen_returned
  PROVE  HttpInv'
<1> USE HttpAssumption
    DEF HttpInv, HttpTypeOK, Stoppers, OneCloser, JoinedAfterHandlers,
        DestroyedInOrder, Destroyed, Closing, Handling, requestVars
<1>1. CASE listen
  BY <1>1 DEF listen
<1>2. CASE listen_returned
  BY <1>2 DEF listen_returned
<1> QED
  BY <1>1, <1>2

LEMMA HandlerKeepsHttpInv ==
  ASSUME HttpInv, NEW c \in Calls,
         post_stop(c) \/ handle_stop(c) \/ handle_stop_error(c)
  PROVE  HttpInv'
<1> USE HttpAssumption
    DEF HttpInv, HttpTypeOK, Stoppers, OneCloser, JoinedAfterHandlers,
        DestroyedInOrder, Destroyed, Closing, Handling
<1>1. CASE post_stop(c)
  BY <1>1 DEF post_stop
<1>2. CASE handle_stop_shutdown(c)
  <2>1. /\ hpc[c] = "shutdown" /\ hpc' = [hpc EXCEPT ![c] = "spawn"]
        /\ UNCHANGED <<running, shutdown_requested, lpc, joinable, spc>>
    BY <1>2 DEF handle_stop_shutdown
  <2>2. graceful' \in BOOLEAN /\ terminated' \in BOOLEAN
    BY <1>2 DEF handle_stop_shutdown
  <2> QED
    BY <2>1, <2>2
<1>3. CASE handle_stop_spawn(c)
  BY <1>3 DEF handle_stop_spawn, Detached
<1>4. CASE handle_stop_error(c)
  BY <1>4 DEF handle_stop_error
<1> QED
  BY <1>1, <1>2, <1>3, <1>4 DEF handle_stop

LEMMA StopKeepsHttpInv ==
  ASSUME HttpInv, ~Destroyed, NEW s \in Stoppers, stop(s)
  PROVE  HttpInv'
<1> USE HttpAssumption
    DEF HttpInv, HttpTypeOK, Stoppers, OneCloser, JoinedAfterHandlers,
        DestroyedInOrder, Destroyed, Closing, Handling, requestVars
<1>1. CASE stop_exchange(s)
  BY <1>1 DEF stop_exchange, Claimed
<1>2. CASE stop_close(s)
  BY <1>2 DEF stop_close, Closed
<1>3. CASE stop_join(s)
  BY <1>3 DEF stop_join, ThreadEnded
<1> QED
  BY <1>1, <1>2, <1>3 DEF stop

(* A thread that comes too late touches nothing that is still there. *)
LEMMA DanglingKeepsHttpInv ==
  ASSUME HttpInv, NEW c \in Calls, stop_dangling(c)
  PROVE  HttpInv'
<1> USE HttpAssumption
    DEF HttpInv, HttpTypeOK, Stoppers, OneCloser, JoinedAfterHandlers,
        DestroyedInOrder, Destroyed, Closing, Handling, requestVars
<1>1. CASE UNCHANGED spc
  BY <1>1 DEF stop_dangling
<1>2. CASE spc' = [spc EXCEPT ![c] = "returned"] /\ UNCHANGED terminated
  <2>1. \A s \in Stoppers : Closing(s)' <=> Closing(s)
    BY <1>2 DEF stop_dangling
  <2> QED
    BY <1>2, <2>1 DEF stop_dangling
<1> QED
  BY <1>1, <1>2 DEF stop_dangling

(* The operations of the owner. *)
LEMMA StartKeepsHttpInv ==
  ASSUME HttpInv, lpc = "none", ~running, \A s \in Stoppers : spc[s] = "idle",
         start \/ start_throws
  PROVE  HttpInv'
<1> USE HttpAssumption
    DEF HttpInv, HttpTypeOK, Stoppers, OneCloser, JoinedAfterHandlers,
        DestroyedInOrder, Destroyed, Closing, Handling, requestVars
<1>1. CASE start
  BY <1>1 DEF start
<1>2. CASE start_throws
  BY <1>2 DEF start_throws
<1> QED
  BY <1>1, <1>2

LEMMA DestroyKeepsHttpInv ==
  ASSUME HttpInv, destroy \/ destroy_members
  PROVE  HttpInv'
<1> USE HttpAssumption
    DEF HttpInv, HttpTypeOK, Stoppers, OneCloser, JoinedAfterHandlers,
        DestroyedInOrder, Destroyed, Closing, Handling, requestVars
<1>1. CASE destroy
  BY <1>1 DEF destroy, FirstStep
<1>2. CASE destroy_members
  BY <1>2 DEF destroy_members
<1> QED
  BY <1>1, <1>2

LEMMA HttpInvUntouched ==
  ASSUME HttpInv, UNCHANGED <<running, requestVars, lpc, joinable, spc>>,
         terminated' \in BOOLEAN
  PROVE  HttpInv'
  BY DEF HttpInv, HttpTypeOK, Stoppers, OneCloser, JoinedAfterHandlers,
         DestroyedInOrder, Destroyed, Closing, Handling, requestVars

(* Whatever step the process takes. *)
LEMMA HttpInvStep == AppInv /\ [AppNext]_allVars => HttpInv'
<1> SUFFICES ASSUME AppInv, [AppNext]_allVars PROVE HttpInv'
  OBVIOUS
<1>1. HttpInv /\ terminated \in BOOLEAN /\ io \in BOOLEAN
  BY DEF AppInv, HttpInv, HttpTypeOK, AppTypeOK
<1>2. CASE load_configs \/ setup_logging \/ load_blacklist \/ run
           \/ destroy_dispatcher \/ destroy_shared \/ UNCHANGED allVars
  BY <1>1, <1>2, HttpInvUntouched
     DEF load_configs, setup_logging, load_blacklist, run, destroy_dispatcher,
         destroy_shared, allVars, httpVars
<1>3. CASE init_components
  <2>1. terminated' \in BOOLEAN
    BY <1>1, <1>3 DEF init_components, make, make_dispatcher
  <2> QED
    BY <1>1, <1>3, <2>1, HttpInvUntouched DEF init_components
<1>4. CASE start_servers
  <2>1. CASE UNCHANGED httpVars
    BY <1>1, <2>1, HttpInvUntouched DEF httpVars
  <2>2. CASE apc = "start_http" /\ (start \/ start_throws)
    BY <1>1, <2>2, StartKeepsHttpInv DEF AppInv, Steps
  <2> QED
    BY <1>4, <2>1, <2>2 DEF start_servers, step
<1>5. CASE destroy_http
  <2>1. CASE stop(Owner)
    <3>1. ~Destroyed
      BY <2>1 DEF stop, stop_exchange, stop_close, stop_join, Destroyed
    <3> QED
      BY <1>1, <2>1, <3>1, StopKeepsHttpInv DEF Stoppers
  <2>2. CASE UNCHANGED httpVars
    BY <1>1, <2>2, HttpInvUntouched DEF httpVars
  <2> QED
    BY <1>1, <1>5, <2>1, <2>2, DestroyKeepsHttpInv DEF destroy_http
<1>6. CASE destroy_udp
  BY <1>1, <1>6, HttpInvUntouched DEF destroy_udp, IoJoinable
<1>7. CASE HttpStep
  BY <1>1, <1>7, ListenKeepsHttpInv, HandlerKeepsHttpInv, StopKeepsHttpInv,
     DanglingKeepsHttpInv
     DEF HttpStep, detached_thread, Stoppers
<1>8. CASE Idle
  BY <1>1, <1>8, HttpInvUntouched DEF Idle, allVars, httpVars
<1>9. CASE graceful_shutdown_thread \/ uncaught
  BY <1>1, <1>9, HttpInvUntouched DEF graceful_shutdown_thread, uncaught
<1> QED
  BY <1>2, <1>3, <1>4, <1>5, <1>6, <1>7, <1>8, <1>9 DEF AppNext, Main, Destruction

-----------------------------------------------------------------------------
(* Types *)

LEMMA LevelType ==
  ASSUME NEW str
  PROVE  string_to_level(str) \in trace .. off
<1>1. CASE \E l \in trace .. off : Names[l + 1] = str
  BY <1>1 DEF string_to_level
<1>2. CASE ~ \E l \in trace .. off : Names[l + 1] = str
  BY <1>2 DEF string_to_level, trace, info, off
<1> QED
  BY <1>1, <1>2

LEMMA LogTypeStep == AppInv /\ [AppNext]_allVars => LogTypeOK'
<1> SUFFICES ASSUME AppInv, [AppNext]_allVars PROVE LogTypeOK'
  OBVIOUS
<1>1. LogTypeOK
  BY DEF AppInv, AppTypeOK
<1>2. CASE UNCHANGED logVars
  BY <1>1, <1>2 DEF logVars, LogTypeOK
<1>3. ASSUME NEW n \in Loggers, NEW f, NEW str, configure_logger(n, f, str)
      PROVE  LogTypeOK'
  <2>1. PICK l \in trace .. off : l = string_to_level(str)
    BY LevelType
  <2> QED
    BY <1>1, <1>3, <2>1 DEF configure_logger, LogTypeOK
<1>4. ASSUME NEW n \in Loggers, NEW f \in Files, NEW str,
             configure_component_logger(n, f, str)
      PROVE  LogTypeOK'
  <2>1. PICK l \in trace .. off : l = string_to_level(str)
    BY LevelType
  <2>2. PICK k \in Loggers : k = find_existing_file_sink(n, f)
    BY <1>1 DEF find_existing_file_sink, LogTypeOK
  <2>3. /\ Lowered(console, l) \in trace .. off
        /\ Lowered(sink_level[k], l) \in trace .. off
    BY <1>1, <2>1, <2>2 DEF Lowered, LogTypeOK
  <2>4. /\ registry' = [registry EXCEPT ![f] = k]
        /\ sink_level' = [sink_level EXCEPT ![k] = Lowered(sink_level[k], l)]
        /\ console' = Lowered(console, l)
        /\ level' = [level EXCEPT ![n] = l]
        /\ sink' = [sink EXCEPT ![n] = k]
    BY <1>4, <2>1, <2>2 DEF configure_component_logger
  <2> HIDE DEF Lowered
  <2> QED
    BY <1>1, <2>1, <2>2, <2>3, <2>4 DEF LogTypeOK
<1>5. CASE setup_logging
  <2>1. CASE apc \in {"log_pgw", "log_udp", "log_http"}
    <3>1. config \in Configs
      BY <2>1 DEF AppInv
    <3>2. config.udp.file \in Files /\ config.http.file \in Files
      BY <3>1, AppAssumption
    <3> QED
      BY <1>2, <1>3, <1>4, <1>5, <3>2, AppAssumption DEF setup_logging
  <2> QED
    BY <1>5, <2>1 DEF setup_logging, step
<1>6. CASE init_components \/ start_servers \/ load_configs \/ load_blacklist
           \/ run \/ Destruction \/ Idle \/ graceful_shutdown_thread \/ uncaught
  BY <1>2, <1>6
     DEF init_components, start_servers, load_configs, load_blacklist, run,
         graceful_shutdown_thread, uncaught, Destruction, destroy_dispatcher, destroy_http, destroy_udp,
         destroy_shared, destroyed, Idle, allVars
<1> QED
  BY <1>2, <1>5, <1>6 DEF AppNext, Main, allVars

LEMMA AppTypeStep == AppInv /\ [AppNext]_allVars => AppTypeOK'
<1> SUFFICES ASSUME AppInv, [AppNext]_allVars PROVE AppTypeOK'
  OBVIOUS
<1>1. HttpTypeOK' /\ LogTypeOK'
  BY HttpInvStep, LogTypeStep DEF HttpInv
<1>2. AppTypeOK
  BY DEF AppInv
<1> USE DEF AppTypeOK, Steps, Objects, step, throw
<1>3. CASE (load_configs \/ setup_logging \/ load_blacklist \/ run) /\ UNCHANGED struck
  BY <1>1, <1>2, <1>3 DEF load_configs, setup_logging, load_blacklist, run
<1>4. CASE init_components /\ UNCHANGED struck
  BY <1>1, <1>2, <1>4 DEF init_components, make, make_dispatcher
<1>5. CASE start_servers /\ UNCHANGED struck
  BY <1>1, <1>2, <1>5 DEF start_servers
<1>6. ASSUME NEW m \in {"dispatcher", "http", "udp", "manager", "cdr"}, destroyed(m),
             UNCHANGED struck
      PROVE  AppTypeOK'
  BY <1>1, <1>2, <1>6 DEF destroyed, Following
<1>7. CASE UNCHANGED appVars
  BY <1>1, <1>2, <1>7 DEF appVars
<1>8. CASE Destruction /\ UNCHANGED struck
  BY <1>6, <1>7, <1>8 DEF Destruction, destroy_dispatcher, destroy_http,
                          destroy_udp, destroy_shared
<1>9. CASE graceful_shutdown_thread
  BY <1>7, <1>9 DEF graceful_shutdown_thread
<1>10. CASE uncaught
  BY <1>1, <1>2, <1>10 DEF uncaught
<1> QED
  BY <1>3, <1>4, <1>5, <1>7, <1>8, <1>9, <1>10 DEF AppNext, Main, Idle, allVars

-----------------------------------------------------------------------------
(* Construction and destruction *)

(* The server is not touched before it is built, nor by its owner before    *)
(* the dispatcher is gone.                                                 *)
PhaseInv ==
  /\ apc \in {"log_pgw", "log_udp", "log_http"} => config \in Configs
  /\ apc \in Steps \ {"enter"} =>
       lpc = "none" /\ ~running /\ \A s \in Stoppers : spc[s] = "idle"
  /\ spc[Owner] # "idle" => apc \notin Steps \cup {"dispatcher"}

LEMMA PhaseStep == AppInv /\ [AppNext]_allVars => PhaseInv'
<1> SUFFICES ASSUME AppInv, [AppNext]_allVars PROVE PhaseInv'
  OBVIOUS
<1>1. PhaseInv /\ HttpInv /\ HttpTypeOK
  BY DEF AppInv, PhaseInv, HttpInv
<1> USE HttpAssumption DEF PhaseInv, Steps, step, throw, Stoppers
<1>2. CASE load_configs \/ setup_logging \/ load_blacklist \/ run
  BY <1>1, <1>2 DEF load_configs, setup_logging, load_blacklist, run, httpVars
<1>3. CASE init_components
  BY <1>1, <1>3 DEF init_components, make, make_dispatcher
<1>4. CASE start_servers
  BY <1>1, <1>4 DEF start_servers, start, start_throws, httpVars
<1>5. CASE Destruction
  <2>1. apc \notin Steps /\ apc' \notin Steps \cup {"dispatcher"}
    BY <1>5 DEF Destruction, destroy_dispatcher, destroy_http, destroy_udp,
                destroy_shared, destroyed, Following, appVars
  <2> QED
    BY <2>1
<1>6. CASE HttpStep /\ UNCHANGED appVars
  <2>1. CASE apc \in Steps \ {"enter"}
    <3>1. ~Handling
      BY <1>1, <2>1 DEF HttpInv
    <3>2. FALSE
      BY <1>1, <1>6, <2>1, <3>1
         DEF HttpStep, listen, listen_returned, post_stop, handle_stop,
             handle_stop_shutdown, handle_stop_spawn, handle_stop_error,
             detached_thread, stop_dangling, stop,
             stop_exchange, stop_close, stop_join, Handling
    <3> QED
      BY <3>2
  <2>2. spc'[Owner] = spc[Owner]
    BY <1>1, <1>6
       DEF HttpStep, listen, listen_returned, post_stop, handle_stop,
           handle_stop_shutdown, handle_stop_spawn, handle_stop_error,
           detached_thread, stop_dangling, stop,
           stop_exchange, stop_close, stop_join, HttpTypeOK
  <2> QED
    BY <1>1, <1>6, <2>1, <2>2 DEF appVars
<1>7. CASE UNCHANGED allVars
  BY <1>1, <1>7 DEF allVars, appVars, httpVars
<1>8. CASE graceful_shutdown_thread \/ uncaught
  BY <1>1, <1>8 DEF graceful_shutdown_thread, uncaught, appVars
<1> QED
  BY <1>2, <1>3, <1>4, <1>5, <1>6, <1>7, <1>8 DEF AppNext, Main, Idle

LifeInv == MembersServed /\ Built /\ Over

LEMMA LifeStep == AppInv /\ [AppNext]_allVars /\ ~terminated' => LifeInv'
<1> SUFFICES ASSUME AppInv, [AppNext]_allVars, ~terminated' PROVE LifeInv'
  OBVIOUS
<1>1. CASE UNCHANGED allVars
  BY <1>1 DEF allVars, appVars, httpVars, requestVars, AppInv, LifeInv,
              OwnersOutliveUsers, MembersServed, Built, Over, Handling
<1> SUFFICES ASSUME ~terminated PROVE LifeInv'
  BY <1>1 DEF AppNext, Idle
<1>2. /\ LifeInv
      /\ HttpInv /\ JoinedAfterHandlers
      /\ Handling => lpc \in {"listening", "closing"}
      /\ lpc = "none" => ~joinable
      /\ workers \in Nat
      /\ apc \in Steps \ {"enter"} => lpc = "none"
  <2>1. workers \in Nat
    BY AppAssumption DEF AppInv, AppTypeOK
  <2>2. LifeInv /\ HttpInv
    BY DEF AppInv, LifeInv, OwnersOutliveUsers
  <2>3. apc \in Steps \ {"enter"} => lpc = "none"
    BY DEF AppInv
  <2> QED
    BY <2>1, <2>2, <2>3 DEF HttpInv
<1>3. Handling' => lpc' \in {"listening", "closing"}
  BY HttpInvStep DEF HttpInv
<1> USE DEF LifeInv, MembersServed, Built, Over, step, throw, Steps
<1>4. CASE load_configs \/ setup_logging \/ load_blacklist \/ run
  <2>1. UNCHANGED <<workers, io, lpc, joinable, hpc>>
    BY <1>4 DEF load_configs, setup_logging, load_blacklist, run, httpVars, requestVars
  <2>2. Handling' <=> Handling
    BY <2>1 DEF Handling
  <2> QED
    BY <1>2, <1>4, <2>1, <2>2 DEF load_configs, setup_logging, load_blacklist, run
<1>5. CASE init_components
  <2>1. UNCHANGED <<io, lpc, joinable>> /\ lpc = "none"
    BY <1>2, <1>5 DEF init_components, make, make_dispatcher
  <2> QED
    BY <1>2, <1>3, <1>5, <2>1 DEF init_components, make, make_dispatcher
<1>6. CASE start_servers
  BY <1>2, <1>3, <1>6 DEF start_servers, start, start_throws, httpVars
<1>7. CASE destroy_dispatcher
  BY <1>2, <1>3, <1>7 DEF destroy_dispatcher, destroyed, Following, httpVars
<1>8. CASE destroy_http
  <2>1. CASE (destroy \/ stop(Owner)) /\ UNCHANGED appVars
    <3>1. /\ lpc' = lpc \/ lpc = "listening"
          /\ joinable' => joinable
      BY <2>1 DEF destroy, stop, stop_exchange, stop_close, stop_join, Closed
    <3> QED
      BY <1>2, <1>3, <2>1, <3>1 DEF appVars
  <2>2. CASE destroyed("http") /\ destroy_members
    <3>1. /\ ~joinable /\ ~joinable'
          /\ lpc \in {"none", "ended", "dead"} /\ lpc' = lpc
      BY <1>2, <2>2 DEF destroy_members, JoinedAfterHandlers
    <3> QED
      BY <1>2, <1>3, <2>2, <3>1 DEF destroyed, Following
  <2>3. CASE destroyed("http") /\ "http" \notin alive /\ UNCHANGED httpVars
    BY <1>2, <1>3, <2>3 DEF destroyed, Following, httpVars
  <2> QED
    BY <1>8, <2>1, <2>2, <2>3 DEF destroy_http
<1>9. CASE destroy_udp
  BY <1>2, <1>3, <1>9 DEF destroy_udp, destroyed, Following, IoJoinable
<1>10. CASE destroy_shared
  BY <1>2, <1>3, <1>10 DEF destroy_shared, destroyed, Following, httpVars
<1>11. CASE HttpStep /\ UNCHANGED appVars
  <2>1. lpc \in {"none", "ended", "dead"} => lpc' = lpc
    BY <1>2, <1>11
       DEF HttpStep, listen, listen_returned, post_stop, handle_stop,
           handle_stop_shutdown, handle_stop_spawn, handle_stop_error,
           detached_thread, stop_dangling, stop,
           stop_exchange, stop_close, stop_join, Closed
  <2>2. lpc = "none" => lpc' = "none"
    BY <2>1
  <2>3. joinable' => joinable
    BY <1>11
       DEF HttpStep, listen, listen_returned, post_stop, handle_stop,
           handle_stop_shutdown, handle_stop_spawn, handle_stop_error,
           detached_thread, stop_dangling, stop,
           stop_exchange, stop_close, stop_join
  <2> QED
    BY <1>2, <1>3, <1>11, <2>1, <2>2, <2>3 DEF appVars
<1>12. CASE graceful_shutdown_thread \/ uncaught
  BY <1>12 DEF graceful_shutdown_thread, uncaught
<1> QED
  BY <1>1, <1>4, <1>5, <1>6, <1>7, <1>8, <1>9, <1>10, <1>11, <1>12
     DEF AppNext, Main, Destruction, Idle

(* A detached thread with a server thread to join has a server, and one     *)
(* that still sleeps has it until ~EventDispatcher returns.                 *)
LEMMA StopsServed ==
  ASSUME AppTypeOK', HttpInv', PhaseInv', Over'
  PROVE  DetachedServed'
<1> SUFFICES ASSUME NEW c \in Calls,
                    Closing(c)' \/ (spc'[c] = "exchange" /\ workers' > 0)
             PROVE  "http" \in alive'
  BY DEF DetachedServed
<1>1. CASE Closing(c)'
  <2>1. joinable'
    BY <1>1 DEF HttpInv
  <2> QED
    BY <2>1 DEF Over
<1>2. CASE spc'[c] = "exchange" /\ workers' > 0
  <2>1. hpc'[c] = "answered"
    BY <1>2 DEF HttpInv
  <2>2. lpc' # "none"
    BY <2>1 DEF HttpInv
  <2>3. apc' \notin Steps \ {"enter"}
    BY <2>2 DEF PhaseInv
  <2>4. apc' \in {"enter", "dispatcher"}
    BY <1>2, <2>3 DEF AppTypeOK, Objects, Over
  <2> QED
    BY <2>2, <2>4 DEF Over
<1> QED
  BY <1>1, <1>2

-----------------------------------------------------------------------------
LEMMA AppInvInitially == AppInit => AppInv
<1> SUFFICES ASSUME AppInit PROVE AppInv
  OBVIOUS
<1>1. HttpInv
  <2>1. HttpTypeOK
    BY DEF AppInit, HttpInit, HttpTypeOK
  <2> QED
    BY <2>1, HttpAssumption
       DEF AppInit, HttpInit, HttpInv, Stoppers, OneCloser, JoinedAfterHandlers,
           DestroyedInOrder, Destroyed, Closing, Handling
<1>2. AppTypeOK
  <2>1. thrown \in BOOLEAN /\ io \in BOOLEAN
    BY DEF AppInit
  <2> QED
    BY <1>1, <2>1 DEF AppInit, LogInit, HttpInv, AppTypeOK, LogTypeOK, Steps, trace, off
<1> QED
  BY <1>1, <1>2
     DEF AppInit, HttpInit, AppInv, Steps, Stoppers, OwnersOutliveUsers,
         MembersServed, DetachedServed, Closing, Built, Over, Handling

THEOREM AppInvariance == AppSpec => []AppInv
<1>1. AppInv /\ [AppNext]_allVars => AppInv'
  <2> SUFFICES ASSUME AppInv, [AppNext]_allVars PROVE AppInv'
    OBVIOUS
  <2>1. AppTypeOK' /\ HttpInv' /\ PhaseInv' /\ (~terminated' => LifeInv')
    BY AppTypeStep, HttpInvStep, PhaseStep, LifeStep
  <2>2. ~terminated' => DetachedServed'
    BY <2>1, StopsServed DEF LifeInv
  <2> QED
    BY <2>1, <2>2 DEF AppInv, PhaseInv, LifeInv, OwnersOutliveUsers
<1> QED
  BY <1>1, AppInvInitially, PTL DEF AppSpec

(* Every variable of the process keeps its type. *)
THEOREM AppTypes == AppSpec => []AppTypeOK
<1>1. AppInv => AppTypeOK
  BY DEF AppInv
<1> QED
  BY <1>1, AppInvariance, PTL

(* However many threads call stop(), one at most closes the HTTP server. *)
THEOREM ClosersExclude == AppSpec => []OneCloser
<1>1. AppInv => OneCloser
  BY DEF AppInv, HttpInv
<1> QED
  BY <1>1, AppInvariance, PTL

(* The server thread is joined only after every handler is through. *)
THEOREM HandlersFinishFirst == AppSpec => []JoinedAfterHandlers
<1>1. AppInv => JoinedAfterHandlers
  BY DEF AppInv, HttpInv
<1> QED
  BY <1>1, AppInvariance, PTL

(* The destructor of the HTTP server finds its thread joined, or one of the *)
(* two reasons why it does not.                                            *)
THEOREM HttpDestroyedInOrder == AppSpec => []DestroyedInOrder
<1>1. AppInv => DestroyedInOrder
  BY DEF AppInv, HttpInv
<1> QED
  BY <1>1, AppInvariance, PTL

(* No thread outlives the objects it uses on any path out of the process,   *)
(* the detached threads of POST /stop included, as long as there is a       *)
(* worker to keep the process from destroying them.                        *)
THEOREM NoDanglingUse == AppSpec => []OwnersOutliveUsers
<1>1. AppInv => OwnersOutliveUsers
  BY DEF AppInv, OwnersOutliveUsers
<1> QED
  BY <1>1, AppInvariance, PTL

(* main never returns once a worker or the io thread has been started,      *)
(* neither after ENTER nor to report an exception.                         *)
THEOREM StartedServerNeverReturns ==
  AppSpec => [](~terminated /\ apc = "returned" => workers = 0 /\ ~io)
<1>1. AppInv => (~terminated /\ apc = "returned" => workers = 0 /\ ~io)
  <2>1. SUFFICES ASSUME AppInv, ~terminated, apc = "returned"
                 PROVE  workers = 0 /\ ~io
    OBVIOUS
  <2>2. Over /\ workers \in ThreadCounts \cup {0}
    BY <2>1 DEF AppInv, AppTypeOK
  <2>3. ~(workers > 0) /\ ~io
    BY <2>1, <2>2 DEF Over
  <2>4. workers \in Nat
    <3>1. ThreadCounts \subseteq Nat
      BY AppAssumption
    <3> QED
      BY <2>2, <3>1
  <2> QED
    BY <2>3, <2>4
<1> QED
  BY <1>1, AppInvariance, PTL

-----------------------------------------------------------------------------
(* Why the process goes down *)

(* Inductive: a session table that is shutting down was told to by a call.  *)
AbortInv ==
  /\ AbortCauses
  /\ graceful => \E c \in Calls : PastShutdown(c)

(* What one POST /stop does to the flags; a second one is fatal. *)
LEMMA HandlerAborts ==
  ASSUME HttpTypeOK, AbortInv, ~terminated, NEW c \in Calls,
         post_stop(c) \/ handle_stop(c) \/ handle_stop_error(c)
  PROVE  /\ graceful' => \E d \in Calls : PastShutdown(d)'
         /\ terminated' => \E d, e \in Calls :
                             d # e /\ PastShutdown(d)' /\ PastShutdown(e)'
<1> USE DEF HttpTypeOK, AbortInv, PastShutdown
<1>1. \A d \in Calls : PastShutdown(d) => PastShutdown(d)'
  BY DEF post_stop, handle_stop, handle_stop_shutdown, handle_stop_spawn,
         handle_stop_error
<1>2. CASE handle_stop_shutdown(c)
  <2>1. ~PastShutdown(c) /\ PastShutdown(c)'
    BY <1>2 DEF handle_stop_shutdown
  <2>2. terminated' => \E d \in Calls : PastShutdown(d)
    BY <1>2 DEF handle_stop_shutdown
  <2> QED
    BY <1>1, <2>1, <2>2
<1>3. CASE post_stop(c) \/ handle_stop_spawn(c) \/ handle_stop_error(c)
  <2>1. graceful' = graceful /\ ~terminated'
    BY <1>3 DEF post_stop, handle_stop_spawn, Detached, handle_stop_error
  <2> QED
    BY <1>1, <2>1
<1> QED
  BY <1>2, <1>3 DEF handle_stop

LEMMA AbortStep == AppInv /\ AbortInv /\ [AppNext]_allVars => AbortInv'
<1> SUFFICES ASSUME AppInv, AbortInv, [AppNext]_allVars PROVE AbortInv'
  OBVIOUS
<1>1. CASE UNCHANGED allVars
  BY <1>1 DEF allVars, appVars, httpVars, requestVars, AbortInv, AbortCauses,
              PastShutdown, Destroyed, DividesByZero
<1> SUFFICES ASSUME ~terminated PROVE AbortInv'
  BY <1>1 DEF AppNext, Idle
<1>2. HttpTypeOK
  BY DEF AppInv, AppTypeOK
<1>3. ASSUME UNCHANGED requestVars PROVE graceful' => \E c \in Calls : PastShutdown(c)'
  BY <1>3 DEF requestVars, AbortInv, PastShutdown
<1>4. ASSUME UNCHANGED requestVars, ~terminated' PROVE AbortInv'
  BY <1>3, <1>4 DEF AbortInv, AbortCauses
<1>5. CASE load_configs \/ setup_logging \/ load_blacklist \/ run
  BY <1>4, <1>5 DEF load_configs, setup_logging, load_blacklist, run, httpVars
<1>6. CASE init_components
  BY <1>3, <1>6 DEF init_components, make, make_dispatcher, AbortInv, AbortCauses
<1>7. CASE start_servers
  BY <1>4, <1>7 DEF start_servers, start, start_throws, httpVars
<1>8. CASE destroy_dispatcher \/ destroy_shared
  BY <1>4, <1>8 DEF destroy_dispatcher, destroy_shared, httpVars
<1>9. CASE destroy_http
  <2>1. CASE destroy \/ stop(Owner) \/ UNCHANGED httpVars
    BY <1>4, <2>1 DEF destroy, stop, stop_exchange, stop_close, stop_join, httpVars
  <2>2. CASE destroy_members
    <3>1. Destroyed' /\ joinable' = joinable /\ terminated' = joinable
      BY <1>2, <2>2 DEF destroy_members, Destroyed, HttpTypeOK, Stoppers
    <3>2. UNCHANGED requestVars
      BY <2>2 DEF destroy_members
    <3> QED
      BY <1>3, <3>1, <3>2 DEF AbortInv, AbortCauses
  <2> QED
    BY <1>9, <2>1, <2>2 DEF destroy_http
<1>10. CASE destroy_udp
  <2>1. /\ terminated' = io /\ io' = io /\ "udp" \notin alive'
        /\ UNCHANGED requestVars
    BY <1>10 DEF destroy_udp, destroyed, IoJoinable
  <2> QED
    BY <1>3, <2>1 DEF AbortInv, AbortCauses
<1>11. CASE HttpStep
  <2>1. ASSUME NEW c \in Calls, post_stop(c) \/ handle_stop(c) \/ handle_stop_error(c)
        PROVE  AbortInv'
    BY <1>2, <2>1, HandlerAborts DEF AbortInv, AbortCauses
  <2>2. ASSUME NEW c \in Calls, stop(c) PROVE AbortInv'
    BY <1>4, <2>2 DEF stop, stop_exchange, stop_close, stop_join
  <2>3. ASSUME listen \/ listen_returned PROVE AbortInv'
    BY <1>4, <2>3 DEF listen, listen_returned
  <2>4. ASSUME NEW c \in Calls, stop_dangling(c) PROVE AbortInv'
    <3>1. UNCHANGED requestVars
      BY <2>4 DEF stop_dangling
    <3>2. CASE UNCHANGED terminated
      BY <1>4, <3>1, <3>2
    <3>3. CASE UNCHANGED spc
      BY <1>3, <2>4, <3>1, <3>3 DEF stop_dangling, Destroyed, AbortInv, AbortCauses
    <3> QED
      BY <2>4, <3>2, <3>3 DEF stop_dangling
  <2> QED
    BY <1>11, <2>1, <2>2, <2>3, <2>4 DEF HttpStep, detached_thread
<1>12. CASE graceful_shutdown_thread
  BY <1>3, <1>12
     DEF graceful_shutdown_thread, DividesByZero, appVars, requestVars, AbortInv,
         AbortCauses
<1>13. CASE uncaught
  BY <1>3, <1>13 DEF uncaught, AbortInv, AbortCauses
<1> QED
  BY <1>1, <1>5, <1>6, <1>7, <1>8, <1>9, <1>10, <1>11, <1>12, <1>13
     DEF AppNext, Main, Destruction, Idle

(* Of what can fail in the model the process is aborted only in the ways of *)
(* AbortCauses, whatever the number of POST /stop requests, threads and     *)
(* their interleaving.                                                     *)
THEOREM AbortsExplained == AppSpec => []AbortCauses
<1>1. AppInit => AbortInv
  BY DEF AppInit, HttpInit, AbortInv, AbortCauses
<1>2. AbortInv => AbortCauses
  BY DEF AbortInv
<1> QED
  BY <1>1, <1>2, AbortStep, AppInvariance, PTL DEF AppSpec

-----------------------------------------------------------------------------
(* The queue *)

(* Inductive: the queue lives from the making of the dispatcher to the end  *)
(* of init_components, the io thread from start_servers on, its owner until *)
(* after ENTER.                                                            *)
QueueInv ==
  /\ "queue" \in alive => apc \in {"make_udp", "make_http", "callback"}
  /\ io => apc \notin Steps \ {"start_http", "enter"}
  /\ apc \in {"make_http", "callback", "start_udp", "start_http", "enter"}
       => "udp" \in alive

LEMMA QueueInvariance == AppSpec => []QueueInv
<1>1. AppInit => QueueInv
  BY DEF AppInit, QueueInv
<1>2. AppInv /\ QueueInv /\ [AppNext]_allVars => QueueInv'
  <2> SUFFICES ASSUME AppInv, QueueInv, [AppNext]_allVars PROVE QueueInv'
    OBVIOUS
  <2> USE DEF QueueInv, Steps, step, throw
  <2>1. CASE load_configs \/ setup_logging \/ load_blacklist \/ run
    BY <2>1 DEF load_configs, setup_logging, load_blacklist, run
  <2>2. CASE init_components
    BY <2>2 DEF init_components, make, make_dispatcher
  <2>3. CASE start_servers
    BY <2>3 DEF start_servers
  <2>4. ASSUME NEW m \in {"dispatcher", "http", "udp", "manager", "cdr"}, destroyed(m)
        PROVE  QueueInv'
    BY <2>4 DEF destroyed, Following
  <2>5. CASE UNCHANGED appVars
    BY <2>5 DEF appVars
  <2>6. CASE Destruction
    BY <2>4, <2>5, <2>6 DEF Destruction, destroy_dispatcher, destroy_http,
                            destroy_udp, destroy_shared
  <2>7. CASE graceful_shutdown_thread \/ uncaught
    BY <2>5, <2>7 DEF graceful_shutdown_thread, uncaught
  <2> QED
    BY <2>1, <2>2, <2>3, <2>5, <2>6, <2>7 DEF AppNext, Main, Idle, allVars
<1> QED
  BY <1>1, <1>2, AppInvariance, PTL DEF AppSpec

(* The local shared_ptr of init_components is the queue's only owner: the   *)
(* io thread never runs while the queue it fills exists, nor does the       *)
(* server ever wait for ENTER with a queue.                                 *)
THEOREM QueueGoneBeforeUse ==
  AppSpec => [](io \/ apc = "enter" => "queue" \notin alive)
<1>1. QueueInv => (io \/ apc = "enter" => "queue" \notin alive)
  BY DEF QueueInv, Steps
<1> QED
  BY <1>1, QueueInvariance, PTL

(* A server that waits for ENTER is aborted by an exception in the io       *)
(* thread or a worker, by a shutdown_rate of 0, or by a second POST /stop:  *)
(* never by one POST /stop with another rate, wherever its handler, its     *)
(* detached thread and the failing or closing HTTP server meet.             *)
THEOREM OneStopIsSurvived ==
  AppSpec => [](terminated /\ apc = "enter" =>
                  \/ struck # "nothing"
                  \/ DividesByZero
                  \/ \E c, d \in Calls : c # d /\ PastShutdown(c) /\ PastShutdown(d))
<1>1. ASSUME AppInv, QueueInv, AbortCauses, terminated, apc = "enter"
      PROVE  \/ struck # "nothing"
             \/ DividesByZero
             \/ \E c, d \in Calls : c # d /\ PastShutdown(c) /\ PastShutdown(d)
  <2>1. ~Destroyed
    BY <1>1 DEF AppInv, Steps, Destroyed
  <2>2. "udp" \in alive
    BY <1>1 DEF QueueInv
  <2> QED
    BY <1>1, <2>1, <2>2 DEF AbortCauses
<1> QED
  BY <1>1, AppInvariance, QueueInvariance, AbortsExplained, PTL

-----------------------------------------------------------------------------
(* The loggers *)

(* Inductive: a logger writes to the sink that the registry has for its     *)
(* file; before the first logger is configured there is none.              *)
SinkInv ==
  /\ NoMessageSwallowed
  /\ \A n \in Loggers : sink[n] # NoSink => registry[LogFile(n)] = sink[n]
  /\ apc \in {"configs", "log_pgw"} => \A n \in Loggers : sink[n] = NoSink

(* The first logger sets the level of the console and of its own sink. *)
LEMMA DefaultLoggerKeepsSinks ==
  ASSUME AppInv, SinkInv, config \in Configs, apc = "log_pgw",
         config' = config, apc' \notin {"configs", "log_pgw"},
         configure_logger("pgw", config.udp.file, config.udp.level)
  PROVE  SinkInv'
<1>1. LogTypeOK /\ "pgw" \in Loggers /\ config.udp.file \in Files
  BY AppAssumption DEF AppInv, AppTypeOK
<1>2. PICK l \in trace .. off : l = string_to_level(config.udp.level)
  BY LevelType
<1>3. /\ console' = l
      /\ sink_level' = [sink_level EXCEPT !["pgw"] = l]
      /\ registry' = [registry EXCEPT ![config.udp.file] = "pgw"]
      /\ level' = [m \in Loggers |-> IF m = "pgw" \/ sink[m] # NoSink THEN l ELSE level[m]]
      /\ sink' = [sink EXCEPT !["pgw"] = "pgw"]
  BY <1>2 DEF configure_logger
<1>4. \A n \in Loggers : sink'[n] # NoSink => n = "pgw"
  BY <1>1, <1>3 DEF SinkInv, LogTypeOK
<1>5. /\ level'["pgw"] = l /\ sink'["pgw"] = "pgw" /\ sink_level'["pgw"] = l
      /\ registry'[config.udp.file] = "pgw"
  BY <1>1, <1>3 DEF LogTypeOK
<1>6. LogFile("pgw")' = config.udp.file
  BY DEF LogFile
<1> QED
  BY <1>3, <1>4, <1>5, <1>6 DEF SinkInv, NoMessageSwallowed, trace, off

(* A component's logger lowers the levels of the sinks it comes to share,   *)
(* and enters a new sink only for a file that no logger writes to.          *)
LEMMA ComponentLoggerKeepsSinks ==
  ASSUME AppInv, SinkInv, NEW c \in Loggers, NEW str, config' = config,
         config \in Configs,
         apc' \notin {"configs", "log_pgw"},
         configure_component_logger(c, LogFile(c), str)
  PROVE  SinkInv'
<1>1. LogTypeOK /\ \A n \in Loggers : LogFile(n) \in Files
  BY AppAssumption DEF AppInv, AppTypeOK, LogFile
<1>2. PICK l \in trace .. off : l = string_to_level(str)
  BY LevelType
<1>3. PICK k \in Loggers : k = find_existing_file_sink(c, LogFile(c))
  BY <1>1 DEF find_existing_file_sink, LogTypeOK
<1>4. /\ registry' = [registry EXCEPT ![LogFile(c)] = k]
      /\ sink_level' = [sink_level EXCEPT ![k] = Lowered(sink_level[k], l)]
      /\ console' = Lowered(console, l)
      /\ level' = [level EXCEPT ![c] = l]
      /\ sink' = [sink EXCEPT ![c] = k]
  BY <1>2, <1>3 DEF configure_component_logger
<1>5. /\ console' \in Nat /\ console' <= console /\ console' <= l
      /\ \A j \in Loggers : sink_level'[j] \in Nat /\ sink_level'[j] <= sink_level[j]
      /\ sink_level'[k] <= l
  BY <1>1, <1>4 DEF Lowered, LogTypeOK, trace, off
<1>6. NoMessageSwallowed'
  <2> SUFFICES ASSUME NEW n \in Loggers, sink'[n] # NoSink
               PROVE  console' <= level'[n] /\ sink_level'[sink'[n]] <= level'[n]
    BY DEF NoMessageSwallowed
  <2>1. CASE n = c
    BY <1>1, <1>4, <1>5, <2>1 DEF LogTypeOK
  <2>2. CASE n # c
    <3>1. sink'[n] = sink[n] /\ level'[n] = level[n] /\ sink[n] \in Loggers
      BY <1>1, <1>4, <2>2 DEF LogTypeOK
    <3>2. console <= level[n] /\ sink_level[sink[n]] <= level[n]
      BY <3>1 DEF SinkInv, NoMessageSwallowed
    <3>3. /\ console \in Nat /\ sink_level[sink[n]] \in Nat /\ level[n] \in Nat
      BY <1>1, <3>1 DEF LogTypeOK, trace, off
    <3> QED
      BY <1>5, <3>1, <3>2, <3>3
  <2> QED
    BY <2>1, <2>2
<1>7. \A n \in Loggers : LogFile(n)' = LogFile(n)
  BY DEF LogFile
<1>8. ASSUME NEW n \in Loggers, sink'[n] # NoSink
      PROVE  registry'[LogFile(n)] = sink'[n]
  <2>1. CASE n = c
    BY <1>1, <1>4, <2>1 DEF LogTypeOK
  <2>2. CASE n # c
    <3>1. sink'[n] = sink[n] /\ registry[LogFile(n)] = sink[n]
      BY <1>1, <1>4, <1>8, <2>2 DEF SinkInv, LogTypeOK
    <3>2. LogFile(n) = LogFile(c) => k = sink[n]
      BY <1>3, <1>8, <3>1 DEF find_existing_file_sink
    <3>3. registry'[LogFile(n)] = IF LogFile(n) = LogFile(c) THEN k ELSE registry[LogFile(n)]
      <4>1. CASE LogFile(n) = LogFile(c)
        BY <1>1, <1>4, <4>1 DEF LogTypeOK
      <4>2. CASE LogFile(n) # LogFile(c)
        BY <1>1, <1>4, <4>2 DEF LogTypeOK
      <4> QED
        BY <4>1, <4>2
    <3> QED
      BY <3>1, <3>2, <3>3
  <2> QED
    BY <2>1, <2>2
<1> QED
  BY <1>6, <1>7, <1>8 DEF SinkInv

LEMMA SinkStep == AppInv /\ SinkInv /\ [AppNext]_allVars => SinkInv'
<1> SUFFICES ASSUME AppInv, SinkInv, [AppNext]_allVars PROVE SinkInv'
  OBVIOUS
<1>1. ASSUME UNCHANGED <<config, logVars>>,
             apc' = apc \/ apc' \notin {"configs", "log_pgw"}
      PROVE  SinkInv'
  BY <1>1 DEF SinkInv, NoMessageSwallowed, LogFile, logVars
<1>2. CASE load_configs
  BY <1>2 DEF load_configs, step, throw, SinkInv, NoMessageSwallowed, logVars
<1>3. CASE setup_logging
  <2>1. CASE UNCHANGED logVars /\ throw
    BY <1>1, <1>3, <2>1 DEF setup_logging, throw
  <2>2. CASE /\ step("log_pgw", "log_udp")
             /\ configure_logger("pgw", config.udp.file, config.udp.level)
    <3>1. apc = "log_pgw" /\ apc' = "log_udp" /\ config' = config
      BY <1>3, <2>2 DEF setup_logging, step
    <3>2. config \in Configs
      BY <3>1 DEF AppInv
    <3> QED
      BY <2>2, <3>1, <3>2, DefaultLoggerKeepsSinks
  <2>3. CASE /\ step("log_udp", "log_http")
             /\ configure_component_logger("udp", config.udp.file, config.udp.level)
    <3>1. apc = "log_udp" /\ apc' = "log_http" /\ config' = config
      BY <1>3, <2>3 DEF setup_logging, step
    <3>2. config \in Configs /\ "udp" \in Loggers /\ LogFile("udp") = config.udp.file
      BY <3>1, AppAssumption DEF AppInv, LogFile
    <3> QED
      BY <2>3, <3>1, <3>2, ComponentLoggerKeepsSinks
  <2>4. CASE /\ step("log_http", "blacklist")
             /\ configure_component_logger("http", config.http.file, config.http.level)
    <3>1. apc = "log_http" /\ apc' = "blacklist" /\ config' = config
      BY <1>3, <2>4 DEF setup_logging, step
    <3>2. config \in Configs /\ "http" \in Loggers /\ LogFile("http") = config.http.file
      BY <3>1, AppAssumption DEF AppInv, LogFile
    <3> QED
      BY <2>4, <3>1, <3>2, ComponentLoggerKeepsSinks
  <2> QED
    BY <1>3, <2>1, <2>2, <2>3, <2>4 DEF setup_logging
<1>4. CASE load_blacklist \/ init_components \/ start_servers \/ run
  BY <1>1, <1>4
     DEF load_blacklist, init_components, make, make_dispatcher, start_servers,
         run, step, throw
<1>5. CASE Destruction
  BY <1>1, <1>5
     DEF Destruction, destroy_dispatcher, destroy_http, destroy_udp,
         destroy_shared, destroyed, step, Following, appVars
<1>6. CASE UNCHANGED <<appVars, logVars>>
  BY <1>1, <1>6 DEF appVars
<1>7. CASE graceful_shutdown_thread \/ uncaught
  BY <1>1, <1>7 DEF graceful_shutdown_thread, uncaught, appVars
<1> QED
  BY <1>2, <1>3, <1>4, <1>5, <1>6, <1>7 DEF AppNext, Main, Idle, allVars

LEMMA SinkInvariance == AppSpec => []SinkInv
<1>1. AppInit => SinkInv
  BY DEF AppInit, LogInit, SinkInv, NoMessageSwallowed
<1> QED
  BY <1>1, SinkStep, AppInvariance, PTL DEF AppSpec

(* Whatever the levels and the files of the settings, a message that its    *)
(* logger lets pass reaches the console and the file.                       *)
THEOREM MessagesPass == AppSpec => []NoMessageSwallowed
<1>1. SinkInv => NoMessageSwallowed
  BY DEF SinkInv
<1> QED
  BY <1>1, SinkInvariance, PTL

(* Loggers with the same file have the same sink, for any settings. *)
THEOREM SameFileSameSink == AppSpec => []OneSinkPerFile
<1>1. SinkInv => OneSinkPerFile
  BY DEF SinkInv, OneSinkPerFile
<1> QED
  BY <1>1, SinkInvariance, PTL
=============================================================================
