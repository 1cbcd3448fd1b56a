---------------------------- MODULE LoggerConfig ----------------------------
(***************************************************************************)
(* The loggers of pgw_server (src/utils/logger_config.cpp): a default       *)
(* logger and component loggers, which share the console sink and, through  *)
(* a registry, the sink of a common log file.  A message is written if both *)
(* its logger and the sink let its level pass.                             *)
(*                                                                         *)
(* A file sink is named after the logger whose configuration created it.    *)
(* The program drops no logger, so no entry of the registry expires.        *)
(***************************************************************************)
EXTENDS Naturals

CONSTANTS
  Loggers,   \* names of loggers
  Files,     \* names of log files
  NoSink

ASSUME LoggerAssumption == NoSink \notin Loggers

VARIABLES
  console,     \* level of the console sink
  sink_level,  \* level of each file sink
  registry,    \* get_file_sinks_registry
  level,       \* level of each logger
  sink         \* file sink of each logger

logVars == <<console, sink_level, registry, level, sink>>

trace == 0
info == 2
off == 6

LogTypeOK ==
  /\ console \in trace .. off
  /\ sink_level \in [Loggers -> trace .. off]
  /\ registry \in [Files -> Loggers \cup {NoSink}]
  /\ level \in [Loggers -> trace .. off]
  /\ sink \in [Loggers -> Loggers \cup {NoSink}]

(* A new sink lets everything pass; a logger not yet there, nothing. *)
LogInit ==
  /\ console = trace
  /\ sink_level = [n \in Loggers |-> trace]
  /\ registry = [f \in Files |-> NoSink]
  /\ level = [n \in Loggers |-> off]
  /\ sink = [n \in Loggers |-> NoSink]

Names == <<"TRACE", "DEBUG", "INFO", "WARN", "ERROR", "CRITICAL", "OFF">>

string_to_level(s) ==
  IF \E l \in trace .. off : Names[l + 1] = s
  THEN CHOOSE l \in trace .. off : Names[l + 1] = s
  ELSE info

(* The default logger; spdlog::set_level applies to every logger.          *)
configure_logger(n, file, s) ==
  LET l == string_to_level(s) IN
  /\ console' = l
  /\ sink_level' = [sink_level EXCEPT ![n] = l]
  /\ registry' = [registry EXCEPT ![file] = n]
  /\ level' = [m \in Loggers |-> IF m = n \/ sink[m] # NoSink THEN l ELSE level[m]]
  /\ sink' = [sink EXCEPT ![n] = n]

(* Variant: a file sink for each logger. *)
find_existing_file_sink_never(n, file) == n
find_existing_file_sink(n, file) == IF registry[file] = NoSink THEN n ELSE registry[file]

(* Variant: the sink follows the logger that came last. *)
Lowered_last(old, l) == l
Lowered(old, l) == IF old < l THEN old ELSE l

configure_component_logger(n, file, s) ==
  LET l == string_to_level(s)
      file_sink == find_existing_file_sink(n, file)
  IN
  /\ registry' = [registry EXCEPT ![file] = file_sink]
  /\ sink_level' = [sink_level EXCEPT ![file_sink] = Lowered(@, l)]
  /\ console' = Lowered(console, l)
  /\ level' = [level EXCEPT ![n] = l]
  /\ sink' = [sink EXCEPT ![n] = file_sink]

(* "Set sink level to minimum of existing and new logger levels": whatever  *)
(* a logger lets pass reaches the console and its file, also after a less   *)
(* talkative component has come to share them.                             *)
NoMessageSwallowed ==
  \A n \in Loggers :
    sink[n] # NoSink => console <= level[n] /\ sink_level[sink[n]] <= level[n]
=============================================================================
