---------------------------- MODULE PgwServerApp ----------------------------
(***************************************************************************)
(* pgw_server as a process (src/src/pgw_server_app.{h,cpp}, main.cpp): the  *)
(* main thread builds the components one after the other, starts the        *)
(* servers, waits for ENTER and destroys the components in the reverse      *)
(* order of their declaration, which is also what an exception does to the  *)
(* ones built so far.  Around it run the worker threads of the dispatcher,  *)
(* the io thread of the UDP server and the threads of the HTTP server.      *)
(*                                                                         *)
(* What the components do inside is modelled in EventDispatcher, UdpServer  *)
(* and SessionManager.  Three facts are taken from there: ~EventDispatcher  *)
(* does not return while it has a worker (StopNeverReturns), ~SessionManager *)
(* returns (DestructorReturns), and a datagram or the failure of a system   *)
(* call can abort the process in two ways (WhatAbortsTheServer).            *)
(***************************************************************************)
EXTENDS HttpServer, LoggerConfig

CONSTANTS
  ThreadCounts,   \* values of threads_count
  Configs         \* settings: [udp, http -> [file, level], rate -> Nat]

ASSUME AppAssumption ==
  /\ ThreadCounts \subseteq Nat
  /\ \A c \in Configs : {c.udp.file, c.http.file} \subseteq Files
  /\ \A c \in Configs : c.rate \in Nat
  /\ Loggers = {"pgw", "udp", "http"}

VARIABLES
  apc,      \* the main thread: control
  config,   \* what load_configs read
  thrown,   \* an exception is on its way to main
  alive,    \* the objects constructed and not yet destroyed
  workers,  \* threads of dispatcher_
  io,       \* udp_'s io_thread_ was started; nobody joins it
  struck    \* history: what went wrong in the io thread or in a worker

appVars == <<apc, config, thrown, alive, workers, io, struck>>
allVars == <<appVars, httpVars, logVars>>

Objects == {"cdr", "manager", "udp", "http", "dispatcher", "queue"}

(* The steps of the constructor and of run(). *)
Steps == {"configs", "log_pgw", "log_udp", "log_http", "blacklist", "make_cdr",
           "make_manager", "make_dispatcher", "make_udp", "make_http",
           "callback", "start_udp", "start_http", "enter"}

AppTypeOK ==
  /\ HttpTypeOK /\ LogTypeOK
  /\ apc \in Steps \cup (Objects \ {"queue"}) \cup {"returned"}
  /\ config \in Configs \cup {<<>>}
  /\ thrown \in BOOLEAN /\ io \in BOOLEAN
  /\ alive \subseteq Objects
  /\ workers \in ThreadCounts \cup {0}
  /\ struck \in {"nothing", "undecodable", "recvfrom"}

AppInit ==
  /\ HttpInit /\ LogInit
  /\ apc = "configs"
  /\ config = <<>>
  /\ thrown = FALSE /\ io = FALSE
  /\ alive = {}
  /\ workers = 0
  /\ struck = "nothing"

-----------------------------------------------------------------------------
(* An exception frees the local queue of init_components and destroys the   *)
(* members, the last one first.                                            *)
throw ==
  /\ thrown' = TRUE
  /\ alive' = alive \ {"queue"}
  /\ apc' = "dispatcher"

step(here, next) == apc = here /\ apc' = next /\ UNCHANGED thrown

(* load_config throws if the file cannot be read or a key is missing. *)
load_configs ==
  /\ \/ /\ step("configs", "log_pgw")
        /\ config' \in Configs
        /\ UNCHANGED alive
     \/ apc = "configs" /\ throw /\ UNCHANGED config
  /\ UNCHANGED <<workers, io, httpVars, logVars>>

(* A log file that cannot be opened is an exception, too; udp's file is     *)
(* open already.                                                           *)
setup_logging ==
  /\ \/ /\ UNCHANGED alive
        /\ \/ /\ step("log_pgw", "log_udp")
              /\ configure_logger("pgw", config.udp.file, config.udp.level)
           \/ /\ step("log_udp", "log_http")
              /\ configure_component_logger("udp", config.udp.file, config.udp.level)
           \/ /\ step("log_http", "blacklist")
              /\ configure_component_logger("http", config.http.file, config.http.level)
     \/ /\ \/ apc = "log_pgw"
           \/ apc = "log_http" /\ registry[config.http.file] = NoSink
        /\ throw
        /\ UNCHANGED logVars
  /\ UNCHANGED <<config, workers, io, httpVars>>

(* Errors are logged and the blacklist left as far as it was read. *)
load_blacklist ==
  /\ step("blacklist", "make_cdr")
  /\ UNCHANGED <<config, alive, workers, io, httpVars, logVars>>

make(object, here, next) ==
  /\ step(here, next)
  /\ alive' = alive \cup object
  /\ UNCHANGED <<workers, terminated>>

(* dispatcher_ starts its threads.  If the first cannot be created the      *)
(* exception is thrown; if a later one, the vector of the ones running is   *)
(* destroyed, which is fatal.                                              *)
make_dispatcher ==
  \E n \in ThreadCounts :
    \/ /\ step("make_dispatcher", "make_udp")
       /\ workers' = n
       /\ alive' = alive \cup {"dispatcher", "queue"}
       /\ UNCHANGED terminated
    \/ /\ apc = "make_dispatcher"
       /\ n > 0
       /\ throw
       /\ UNCHANGED <<workers, terminated>>
    \/ /\ apc = "make_dispatcher"
       /\ n > 1
       /\ terminated' = TRUE
       /\ UNCHANGED <<apc, thrown, alive, workers>>

(* The constructors of CDRWriter, SessionManager and UdpServer throw if the *)
(* file, the cleanup thread or the port is not to be had.  The queue that   *)
(* dispatcher_ and udp_ refer to ends with init_components.                 *)
init_components ==
  /\ \/ make({"cdr"}, "make_cdr", "make_manager")
     \/ make({"manager"}, "make_manager", "make_dispatcher")
     \/ make_dispatcher
     \/ make({"udp"}, "make_udp", "make_http")
     \/ make({"http"}, "make_http", "callback")
     \/ /\ apc \in {"make_cdr", "make_manager", "make_udp"}
        /\ throw
        /\ UNCHANGED <<workers, terminated>>
     \/ /\ step("callback", "start_udp")
        /\ alive' = alive \ {"queue"}
        /\ UNCHANGED <<workers, terminated>>
  /\ UNCHANGED <<config, io, running, requestVars, lpc, joinable, spc, logVars>>

(* Either thread may fail to start. *)
start_servers ==
  /\ \/ /\ step("start_udp", "start_http")
        /\ io' = TRUE
        /\ UNCHANGED <<alive, httpVars>>
     \/ apc = "start_udp" /\ throw /\ UNCHANGED <<io, httpVars>>
     \/ step("start_http", "enter") /\ start /\ UNCHANGED <<alive, io>>
     \/ apc = "start_http" /\ throw /\ start_throws /\ UNCHANGED io
  /\ UNCHANGED <<config, workers, logVars>>

(* ENTER is pressed, after start() has slept until listen is up or failed.  *)
run ==
  /\ step("enter", "dispatcher")
  /\ lpc # "bind"
  /\ UNCHANGED <<config, alive, workers, io, httpVars, logVars>>

-----------------------------------------------------------------------------
(* Variant: cdr_writer_ declared after session_manager_. *)
Following_swapped == [dispatcher |-> "http", http |-> "udp", udp |-> "cdr",
                      cdr |-> "manager", manager |-> "returned"]

(* The members are destroyed in the reverse order of their declaration.     *)
Following == [dispatcher |-> "http", http |-> "udp", udp |-> "manager",
              manager |-> "cdr", cdr |-> "returned"]

destroyed(m) ==
  /\ step(m, Following[m])
  /\ alive' = alive \ {m}
  /\ UNCHANGED <<config, workers, io, logVars>>

destroy_dispatcher ==
  /\ "dispatcher" \in alive => workers = 0
  /\ destroyed("dispatcher")
  /\ UNCHANGED httpVars

destroy_http ==
  \/ /\ apc = "http"
     /\ "http" \in alive
     /\ destroy \/ stop(Owner)
     /\ UNCHANGED <<appVars, logVars>>
  \/ destroyed("http") /\ "http" \in alive /\ destroy_members
  \/ destroyed("http") /\ "http" \notin alive /\ UNCHANGED httpVars

(* Variant: the constructor of UdpServer starts the thread. *)
IoJoinable_from_construction == "udp" \in alive
IoJoinable == io

(* UdpServer has no destructor: io_thread_ is destroyed while joinable. *)
destroy_udp ==
  /\ destroyed("udp")
  /\ terminated' = IoJoinable
  /\ UNCHANGED <<running, requestVars, lpc, joinable, spc>>

(* The last references to either: dispatcher_ and http_ are gone. *)
destroy_shared ==
  /\ destroyed("manager") \/ destroyed("cdr")
  /\ UNCHANGED httpVars

Destruction == destroy_dispatcher \/ destroy_http \/ destroy_udp \/ destroy_shared

(* The graceful shutdown thread divides a second by shutdown_rate. *)
DividesByZero == graceful /\ config.rate = 0

graceful_shutdown_thread ==
  /\ DividesByZero
  /\ terminated' = TRUE
  /\ UNCHANGED <<appVars, running, requestVars, lpc, joinable, spc, logVars>>

(* A worker meets a datagram that is no IMSI, or recvfrom fails in the io   *)
(* thread: an exception that nothing can catch.                            *)
uncaught ==
  /\ io
  /\ struck' \in {"recvfrom"} \cup (IF workers > 0 THEN {"undecodable"} ELSE {})
  /\ terminated' = TRUE
  /\ UNCHANGED <<apc, config, thrown, alive, workers, io, running, requestVars,
                 lpc, joinable, spc, logVars>>

(* Workers wait for events for ever, a process that is gone does nothing.   *)
Idle ==
  /\ workers > 0 \/ terminated \/ apc = "returned"
  /\ UNCHANGED allVars

-----------------------------------------------------------------------------
Main ==
  \/ load_configs \/ setup_logging \/ load_blacklist \/ init_components
  \/ start_servers \/ Destruction

AppNext ==
  \/ ~terminated /\ (Main \/ run) /\ UNCHANGED struck
  \/ ~terminated /\ HttpStep /\ UNCHANGED <<appVars, logVars>>
  \/ ~terminated /\ (graceful_shutdown_thread \/ uncaught)
  \/ Idle

AppSpec == AppInit /\ [][AppNext]_allVars

(* Threads are scheduled and handlers return; nobody is obliged to press    *)
(* ENTER, nor the system to fail.                                          *)
AppFairness ==
  /\ WF_allVars(~terminated /\ Main /\ UNCHANGED struck)
  /\ WF_allVars(~terminated /\ graceful_shutdown_thread)
  /\ WF_allVars(~terminated /\ (listen \/ listen_returned)
                /\ UNCHANGED <<appVars, logVars>>)
  /\ \A c \in Calls :
       WF_allVars(~terminated /\ (handle_stop(c) \/ detached_thread(c))
                  /\ UNCHANGED <<appVars, logVars>>)

AppFairSpec == AppSpec /\ AppFairness

-----------------------------------------------------------------------------
(* No thread outlives what it calls into, on any way out of the process:    *)
(* the callback of the session manager holds a bare reference to the CDR    *)
(* writer, workers and HTTP handlers use the manager, the io thread calls   *)
(* the dispatcher, and the thread that POST /stop detaches sleeps half a    *)
(* second before it calls stop() on the HTTP server.  With threads_count 0, *)
(* when ~EventDispatcher has no worker to wait for, two of them do dangle:  *)
(* the io thread and a detached thread that still sleeps; one that is       *)
(* inside stop() never does, as the process is aborted first.  And not so   *)
(* the queue, which is freed at the end of init_components under workers    *)
(* and io thread.                                                          *)
MembersServed ==
  /\ "manager" \in alive => "cdr" \in alive
  /\ workers > 0 => {"manager", "dispatcher"} \subseteq alive
  /\ Handling => {"manager", "http"} \subseteq alive
  /\ io => "udp" \in alive
  /\ io /\ workers > 0 => "dispatcher" \in alive
DetachedServed ==
  \A c \in Calls :
    Closing(c) \/ (spc[c] = "exchange" /\ workers > 0) => "http" \in alive
OwnersOutliveUsers == ~terminated => MembersServed /\ DetachedServed

(* What it rests on: what each step finds built, and what is over when the  *)
(* members of PGWServerApp are destroyed in their order.                    *)
Built ==
  /\ apc \in {"make_manager", "make_dispatcher", "make_udp", "make_http",
              "callback", "start_udp", "start_http"} => "cdr" \in alive
  /\ apc \in {"make_dispatcher", "make_udp", "make_http", "callback",
              "start_udp", "start_http"} => "manager" \in alive
  /\ apc \in {"make_http", "callback", "start_udp", "start_http"} => "udp" \in alive
  /\ apc \in {"callback", "start_udp", "start_http"} => "http" \in alive

Over ==
  /\ workers > 0 => apc \notin {"http", "udp", "manager", "cdr", "returned"}
  /\ lpc \notin {"none", "ended", "dead"} =>
       {"manager", "http"} \subseteq alive /\ apc \notin {"udp", "manager", "cdr", "returned"}
  /\ joinable \/ (lpc # "none" /\ apc \in {"enter", "dispatcher"}) => "http" \in alive
  /\ io => apc \notin {"manager", "cdr", "returned"}
  /\ "manager" \in alive => apc \notin {"cdr", "returned"}

AppInv ==
  /\ AppTypeOK /\ HttpInv
  /\ apc \in {"log_pgw", "log_udp", "log_http"} => config \in Configs
  /\ apc \in Steps \ {"enter"} =>
       lpc = "none" /\ ~running /\ \A s \in Stoppers : spc[s] = "idle"
  /\ spc[Owner] # "idle" => apc \notin Steps \cup {"dispatcher"}
  /\ ~terminated => OwnersOutliveUsers /\ Built /\ Over

(* What aborts the process, of the failures modelled: a worker thread that  *)
(* cannot be created, a second POST /stop, the first one if shutdown_rate   *)
(* is 0, an HTTP server that is destroyed with its thread still to be       *)
(* joined, a detached thread that calls stop() on one already destroyed,    *)
(* the io thread, which nobody ever joins, and an exception in the io       *)
(* thread or a worker.  So with a rate that is not 0 one POST /stop and     *)
(* its detached thread never abort a server that waits for ENTER, whatever  *)
(* they interleave with.                                                   *)
PastShutdown(c) == hpc[c] \notin {"unsent", "shutdown"}
AbortCauses ==
  terminated =>
    \/ apc = "make_dispatcher"
    \/ \E c, d \in Calls : c # d /\ PastShutdown(c) /\ PastShutdown(d)
    \/ DividesByZero
    \/ Destroyed /\ (joinable \/ \E c \in Calls : spc[c] = "exchange")
    \/ struck # "nothing"
    \/ io /\ "udp" \notin alive

(* One sink writes to a log file, or two would rotate it under each other. *)
LogFile(n) == IF n = "http" THEN config.http.file ELSE config.udp.file
OneSinkPerFile ==
  \A m, n \in Loggers :
    sink[m] # NoSink /\ sink[n] # NoSink /\ LogFile(m) = LogFile(n)
      => sink[m] = sink[n]

(* An exception reaches main and ends the process, as long as neither the   *)
(* workers nor the io thread are running.                                   *)
EarlyFailureReported ==
  thrown /\ workers = 0 /\ ~io ~> apc = "returned"

(* "Press ENTER to stop...": then main returns, unless the process is      *)
(* aborted on the way.                                                     *)
EnterStops == apc = "dispatcher" /\ ~thrown ~> apc = "returned" \/ terminated
=============================================================================
