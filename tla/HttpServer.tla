----------------------------- MODULE HttpServer -----------------------------
(***************************************************************************)
(* pgw_server's HTTP server (src/src/http_server.{h,cpp}): the operations   *)
(* of its owner, the thread that blocks in httplib::Server::listen, the     *)
(* handlers of POST /stop and the detached thread that each of them leaves  *)
(* behind to call stop().  PgwServerApp is the owner and composes these     *)
(* actions.                                                                *)
(*                                                                         *)
(* httplib is external and modelled as the code uses it: listen runs the    *)
(* handlers, returns after stop() once no handler is running, and returns   *)
(* at once if the port cannot be bound.  POST /check_subscriber and the     *)
(* getters change no state and are left out.                               *)
(***************************************************************************)
EXTENDS Naturals

CONSTANTS
  Calls,      \* the POST /stop requests of a behaviour
  Owner       \* the thread that owns the HttpServer

ASSUME HttpAssumption == Owner \notin Calls

Stoppers == Calls \cup {Owner}

VARIABLES
  running,             \* running_
  shutdown_requested,  \* shutdown_requested_
  graceful,            \* session_manager_->start_graceful_shutdown was called
  lpc,                 \* server_thread_: control
  joinable,            \* server_thread_.joinable()
  hpc,                 \* handle_stop of each call: control
  spc,                 \* stop() of the owner and of each detached thread: control
  terminated           \* the process has been aborted

requestVars == <<shutdown_requested, graceful, hpc>>
httpVars == <<running, requestVars, lpc, joinable, spc, terminated>>

HttpTypeOK ==
  /\ running \in BOOLEAN /\ joinable \in BOOLEAN /\ terminated \in BOOLEAN
  /\ shutdown_requested \in BOOLEAN /\ graceful \in BOOLEAN
  /\ lpc \in {"none", "bind", "listening", "closing", "returned", "failed",
              "ended", "dead"}
  /\ hpc \in [Calls -> {"unsent", "shutdown", "spawn", "answered", "failed"}]
  /\ spc \in [Stoppers -> {"idle", "exchange", "close", "join", "returned",
                           "destroyed"}]

HttpInit ==
  /\ running = FALSE /\ joinable = FALSE /\ terminated = FALSE
  /\ shutdown_requested = FALSE /\ graceful = FALSE
  /\ lpc = "none"
  /\ hpc = [c \in Calls |-> "unsent"]
  /\ spc = [s \in Stoppers |-> "idle"]

Destroyed == spc[Owner] = "destroyed"

-----------------------------------------------------------------------------
(* start() of the owner. *)
start ==
  /\ running' = TRUE
  /\ lpc' = "bind"
  /\ joinable' = TRUE
  /\ UNCHANGED <<requestVars, spc, terminated>>

(* The thread cannot be created: the exception leaves running_ set. *)
start_throws ==
  /\ running' = TRUE
  /\ UNCHANGED <<requestVars, lpc, joinable, spc, terminated>>

Handling == \E c \in Calls : hpc[c] \in {"shutdown", "spawn"}

(* The body of server_thread_. *)
listen ==
  /\ \/ lpc = "bind" /\ lpc' \in {"listening", "failed"}
     \/ lpc = "closing" /\ ~Handling /\ lpc' = "returned"
  /\ UNCHANGED <<running, requestVars, joinable, spc, terminated>>

listen_returned ==
  /\ lpc \in {"returned", "failed"}
  /\ running' = FALSE
  /\ lpc' = IF lpc = "failed" THEN "dead" ELSE "ended"
  /\ UNCHANGED <<requestVars, joinable, spc, terminated>>

-----------------------------------------------------------------------------
(* A request is accepted while the server listens. *)
post_stop(c) ==
  /\ lpc = "listening"
  /\ hpc[c] = "unsent"
  /\ hpc' = [hpc EXCEPT ![c] = "shutdown"]
  /\ UNCHANGED <<running, shutdown_requested, graceful, lpc, joinable, spc,
                 terminated>>

(* start_graceful_shutdown must not be called twice: see SessionManager.    *)
(* What its thread then does to the process is the owner's to model.        *)
handle_stop_shutdown(c) ==
  /\ hpc[c] = "shutdown"
  /\ graceful' = TRUE
  /\ terminated' = graceful
  /\ hpc' = [hpc EXCEPT ![c] = "spawn"]
  /\ UNCHANGED <<running, shutdown_requested, lpc, joinable, spc>>

(* Variant: the std::thread goes out of scope without detach(). *)
Detached_not == FALSE
Detached == TRUE

(* The flag, the detached thread, and the end of the handler. *)
handle_stop_spawn(c) ==
  /\ hpc[c] = "spawn"
  /\ shutdown_requested' = TRUE
  /\ spc' = [spc EXCEPT ![c] = "exchange"]
  /\ terminated' = ~Detached
  /\ hpc' = [hpc EXCEPT ![c] = "answered"]
  /\ UNCHANGED <<running, graceful, lpc, joinable>>

(* Either thread cannot be created: std::system_error, answered with 500.   *)
handle_stop_error(c) ==
  /\ hpc[c] \in {"shutdown", "spawn"}
  /\ shutdown_requested' = (shutdown_requested \/ hpc[c] = "spawn")
  /\ hpc' = [hpc EXCEPT ![c] = "failed"]
  /\ UNCHANGED <<running, graceful, lpc, joinable, spc, terminated>>

handle_stop(c) == handle_stop_shutdown(c) \/ handle_stop_spawn(c)

-----------------------------------------------------------------------------
(* Variant: the destructor does not call stop(). *)
FirstStep_none == "returned"
FirstStep == "exchange"

(* The owner begins to destroy the server. *)
destroy ==
  /\ spc[Owner] = "idle"
  /\ spc' = [spc EXCEPT ![Owner] = FirstStep]
  /\ UNCHANGED <<running, requestVars, lpc, joinable, terminated>>

(* Variant: running_ is read, not exchanged. *)
Claimed_not == running
Claimed == FALSE

(* stop(), by any of them: running_.exchange(false) *)
stop_exchange(s) ==
  /\ spc[s] = "exchange"
  /\ running' = Claimed
  /\ spc' = [spc EXCEPT ![s] = IF running THEN "close" ELSE "returned"]
  /\ UNCHANGED <<requestVars, lpc, joinable, terminated>>

(* Variant: listen is not told to return. *)
Closed_not == lpc
Closed == IF lpc = "listening" THEN "closing" ELSE lpc

(* server_->stop() *)
stop_close(s) ==
  /\ spc[s] = "close"
  /\ lpc' = Closed
  /\ spc' = [spc EXCEPT ![s] = "join"]
  /\ UNCHANGED <<running, requestVars, joinable, terminated>>

(* Variant: the thread is detached instead of joined. *)
ThreadEnded_or_not == TRUE
ThreadEnded == lpc \in {"ended", "dead"}

(* server_thread_.join() *)
stop_join(s) ==
  /\ spc[s] = "join"
  /\ ~joinable \/ ThreadEnded
  /\ joinable' = FALSE
  /\ spc' = [spc EXCEPT ![s] = "returned"]
  /\ UNCHANGED <<running, requestVars, lpc, terminated>>

stop(s) == stop_exchange(s) \/ stop_close(s) \/ stop_join(s)

(* The members: destroying a joinable std::thread is fatal. *)
destroy_members ==
  /\ spc[Owner] = "returned"
  /\ spc' = [spc EXCEPT ![Owner] = "destroyed"]
  /\ terminated' = joinable
  /\ UNCHANGED <<running, requestVars, lpc, joinable>>

(* A detached thread wakes up after the server is gone: whatever is left in *)
(* the place of running_ sends it home or on to a dead server_.             *)
stop_dangling(c) ==
  /\ Destroyed
  /\ spc[c] = "exchange"
  /\ \/ spc' = [spc EXCEPT ![c] = "returned"] /\ UNCHANGED terminated
     \/ terminated' = TRUE /\ UNCHANGED spc
  /\ UNCHANGED <<running, requestVars, lpc, joinable>>

detached_thread(c) == (~Destroyed /\ stop(c)) \/ stop_dangling(c)

(* What happens without the owner. *)
HttpStep ==
  \/ listen \/ listen_returned
  \/ \E c \in Calls :
       \/ post_stop(c) \/ handle_stop(c) \/ handle_stop_error(c)
       \/ detached_thread(c)

-----------------------------------------------------------------------------
Closing(s) == spc[s] \in {"close", "join"}

(* Of all the threads that call stop(), one at most closes the server and   *)
(* joins its thread: joining a std::thread twice is an error.               *)
OneCloser ==
  \A s, t \in Stoppers : Closing(s) /\ Closing(t) => s = t

(* The thread is joined only after listen has returned and every handler    *)
(* with it, so no handler uses the object after an orderly stop().          *)
JoinedAfterHandlers ==
  lpc # "none" /\ ~joinable => lpc \in {"ended", "dead"} /\ ~Handling

(* The destructor finds the server thread joined or never started, but for  *)
(* two cases: the port could not be bound, or a detached thread is in the   *)
(* middle of stop(), which makes the destructor's own stop() return at      *)
(* once.                                                                   *)
DestroyedInOrder ==
  Destroyed =>
    \/ lpc \in {"none", "ended", "dead"} /\ ~joinable
    \/ lpc = "dead"
    \/ \E c \in Calls : Closing(c)

(* What the three rest on: running_ is set only while nobody is closing the *)
(* server, a detached thread that is closing it has its thread to join, and *)
(* a server that was started and is not running_ has failed, has been       *)
(* joined, or is being closed.                                             *)
HttpInv ==
  /\ HttpTypeOK
  /\ OneCloser /\ JoinedAfterHandlers /\ DestroyedInOrder
  /\ running => \A s \in Stoppers : ~Closing(s)
  /\ lpc \in {"closing", "returned"} \/ spc[Owner] \in {"returned", "destroyed"}
       => ~running
  /\ Handling => lpc \in {"listening", "closing"}
  /\ \A c \in Calls :
       /\ hpc[c] # "answered" => spc[c] = "idle"
       /\ hpc[c] # "unsent" => lpc # "none"
       /\ Closing(c) => joinable
  /\ lpc = "none" => ~joinable
  /\ running /\ lpc # "none" => joinable
  /\ ~running /\ lpc # "none" =>
       \/ lpc = "dead"
       \/ lpc = "ended" /\ ~joinable
       \/ \E s \in Stoppers : Closing(s)

(* POST /stop stops the server unless it is answered with 500, although the *)
(* handler that serves it is one of those listen waits for.                 *)
StopRequestStops ==
  \A c \in Calls :
    hpc[c] = "shutdown" ~>
      hpc[c] = "failed" \/ lpc = "ended" \/ terminated \/ Destroyed
=============================================================================
