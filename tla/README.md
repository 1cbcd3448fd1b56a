# pgw: a TLA+ model of the packet gateway

`pgw_server` keeps a table of subscriber sessions. A client sends an IMSI in BCD
over UDP; the server creates a session, or finds the subscriber blacklisted, and
answers `created` or `rejected`. Sessions end after a time without activity or by
a rate-limited graceful shutdown, and each change is written to a CDR file. An
HTTP server answers status queries and starts the shutdown.

## 1. Inventory

Paths are relative to the repository's root.

| Component (source) | State | Operations | What makes it correct |
|---|---|---|---|
| `SessionManager` (`src/session_manager.*`) | session table with activity times, blacklist, `running_`, `graceful_shutdown_active_`, two threads | `create_session`, `remove_session`, `update_session_activity`, blacklist edits, `start_graceful_shutdown`, cleanup thread, graceful thread, destructor | one session per subscriber; each session has one CREATED and one ending record; timeouts only when due; blacklisted subscribers are refused; the shutdown keeps its rate; threads are joined |
| `EventDispatcher` (`src/event_dispatcher.*`) | queue (shared), `event_available_`, `stop_`, mutex and condition variable, thread pool | worker loop, `notify_event_available`, `handleUdpEvent`, `stop` | every event is handled once, no wakeup is lost, the pool can be stopped |
| `UdpServer` (`src/udp_server.*`) | socket, epoll registration, io thread | `start`, `epoll_loop`, `process_incoming_packets`, `send_response` | an edge-triggered socket is drained; each datagram is answered once, also when the queue is full |
| `HttpServer` (`src/http_server.*`) | `running_`, `shutdown_requested_`, server thread, detached threads | `start`, `stop`, POST `/stop`, POST `/check_subscriber`, destructor | `stop()` by several threads closes and joins once; a request can stop the server that serves it |
| `PGWServerApp` (`src/pgw_server_app.*`, `src/main.cpp`) | owns all of the above | construction, `run`, destruction, exceptions | no thread outlives what it uses; a failure is reported; ENTER stops the server |
| `CDRWriter` (`src/cdr_writer.*`) | logger, counter, `gmtime`'s static buffer | `write_record` | records are in order and carry their own time |
| `LoggerConfig` (`utils/logger_config.*`) | loggers, shared sinks with levels, registry of files | `configure_logger`, `configure_component_logger` | a file has one sink; no logger's messages are swallowed |
| `IMSI` (`utils/include/pgw_utils/imsi.h`) | digits | constructor, `to_bcd`, `from_bcd` | encoding and decoding are inverse |
| `UdpClient`, `pgw_client` (`client/`) | socket, statistics, `shutdown_requested` | `send_imsi_with_response`, single-shot and periodic mode, signal handler | a reply is credited to its request; a signal stops the client |
| `UniqueFd`, configuration, `imsi_generator`, scripts | - | - | section 6 |

How they interact. The io thread of `UdpServer` is the queue's only producer; after
each successful `try_enqueue` it calls `notify_event_available` through a callback.
Workers decode the IMSI, call `create_session`, and answer with `send_response`
from their own thread. `SessionManager` calls the CDR writer through a callback
while it holds a mutex. A handler of `HttpServer` calls `start_graceful_shutdown`
and leaves a detached thread that calls `HttpServer::stop`. `PGWServerApp` builds
everything in its constructor and destroys it through the order of its members.
Everything runs concurrently; no state survives the process.

What is hard here: three kinds of threads that end sessions, each in two critical
sections; two mutexes that are not held together; a condition variable notified
without its mutex; an edge-triggered socket; a thread pool and a server that are
stopped by several parties; components that hold bare references to one another;
detached threads that come back to an object after half a second; a signal handler that
logs; a C library buffer shared by threads under different mutexes; replies that carry no
identification. `PROJECT.json` lists these hazards with their lines and the
properties that cover them.

## 2. Modules

| Module | Models |
|---|---|
| `SessionLifecycle` | abstract: what the session table promises its users, without threads, locks and flags |
| `SessionManager` | the class; one action per critical section, with everything that is read outside a lock or carried between two locks in a variable |
| `RequestService` | abstract: what the UDP port promises its clients, without buffers, queue, threads and locks |
| `EventDispatcher` | the queue, the workers, `notify_event_available` and `stop`; `notify_cv_.wait` is split into predicate, block, wake and relock |
| `UdpServer` | extends `EventDispatcher`: the receive buffer, the epoll edge and the io thread take the place of its free producer `Produce` |
| `HttpServer` | server thread, `/stop` handlers, detached threads, and the operations of an owner; it has no specification of its own |
| `LoggerConfig` | loggers and sinks; operations only |
| `PgwServerApp` | extends `HttpServer` and `LoggerConfig`: the main thread as their owner, from the configuration to the end of `main` |
| `CdrWriter` | `emit_event` and `write_record` in several threads, the static `struct tm` field by field |
| `Imsi` | both conversion loops, one action per turn, next to loop-free definitions of what they compute |
| `UdpClient` | the client against a network that loses, delays, reorders and duplicates, and a stranger who sends to its port |
| `MCSession`, `MCApp`, `MCImsi` | symmetry and inputs for TLC |
| `*Proofs` | theorems for TLAPS |

Operators whose comment begins with "Variant" are faulty versions of a part of an
operation, one small plausible mistake each. They are part of no specification:
putting one in the place of the real one shows that a property can fail
(`PROJECT.json`, "mutants"). That is why some guards and values have names of their own.

Abstractions.

- *Time* is a clock of ticks. `cleanup_thread` samples it in an action of its own, so
  the sampled value may be old when it is used. The graceful thread's `wait_for` counts
  down `pause`, `Second \div ShutdownRate` ticks; its predicate is evaluated whenever the
  thread looks, so a missed notification costs nothing but time. `Second` is 1000 in the
  code. Clocks do not go backwards; for `system_clock`, whose times are in the records,
  that is an assumption about the host.
- *The CDR file* is kept in `SessionManager` per IMSI as its latest record and the number
  of CREATED records minus ending records; `emit_event` is called under the mutex, hence
  in the same action. `CdrWriter` has the inside of that call: the lock is held from the
  beginning of a session's record to its end, not at all for a REJECTED one, whose lock on
  the blacklist is shared. There the file is a sequence of records; of a date the minute
  and the second remain, because two fields suffice to be mixed.
- *An IMSI string* in `SessionManager` is a model value; `Valid` are those the
  constructor accepts. Digits and nibbles are in `Imsi`.
- *A request* in `EventDispatcher` is a slot, reused once answered. That keeps the state
  finite without a bound on the number of requests.
- *`create_session` seen from the dispatcher* is the reply it leads to; `SessionManager`
  has its inside. `ResultsAreTrue` justifies it for a blacklist that nobody edits, which is
  how the server runs: whether a call is refused depends on the blacklist alone.
- *The dispatcher, the UDP server and the session manager seen from the application* are
  their threads and their lifetimes. `PgwServerApp` takes from the other modules that
  `~EventDispatcher` does not return while there are workers (`StopNeverReturns`), that
  `~SessionManager` returns (`DestructorReturns`), and by what the io thread and the workers
  abort the process (`WhatAbortsTheServer`): its action `uncaught` lets that happen at any
  time while the io thread is there, and `struck` remembers it.
- *A second `start_graceful_shutdown`* has its own thread, running before the temporary is
  assigned (`assign_thread`); the assignment to a joinable thread terminates the process.
  The assignment itself is one step.
- *The client's signal handler* runs on the only thread, so a step of the thread is either
  before or after it, except for spdlog: where the thread may be inside a logging call
  (`Logging`) the handler's own `spdlog::info` may find the sink's mutex held, and then the
  client is `"deadlocked"` with the flag not set. Which levels are filtered before the mutex
  is taken is left open.
- *The queue* (`moodycamel::ConcurrentQueue`, fetched by the build) is a FIFO with a
  bounded `try_enqueue` and a linearizable `try_dequeue`, which with one producer is how
  the code uses it. It refuses an event when no block is free, and a block is freed only as
  a whole: from `Capacity` events on it may refuse one, at `Limit` it must. The library allows `try_dequeue` to miss an element that is being
  enqueued concurrently; the element's notification then follows its enqueue, which is
  the order that `NoEventForgotten` relies on. `init_components` frees the queue when it
  returns (`PgwServerApp` shows where, and `QueueGoneBeforeUse` proves it); what a freed
  queue does is not defined, and the models of its users go on with a queue that works.
- *httplib* is modelled from its use: `listen` returns after `stop()` when no handler is
  running, or at once if the port cannot be bound; `start()`'s sleep of 100 ms is taken
  to be long enough for one of the two, so ENTER (`run`) comes after it.
- *spdlog* writes a message if logger and sink let its level pass; a file sink appends a
  line under its own mutex. No logger is dropped, so no entry of the registry expires.
- *Undefined or fatal outcomes* (assigning to or destroying a joinable `std::thread`, an
  exception out of a `noexcept` function or a thread, division by zero) set `terminated`,
  after which nothing happens. A detached thread that calls `stop()` on a destroyed
  `HttpServer` (`stop_dangling`) returns or aborts the process. `update_session_activity` writes a 64-bit time under a
  shared lock; on 64-bit Linux (the server needs epoll) a racing reader sees the old or
  the new value, which the two orders of the actions give. The accesses of `gmtime` and
  `strftime` to their buffer interleave field by field.
- *Failure of the system*: `recvfrom`, `epoll_wait` and `sendto` of the server, every
  system call of the client, every step of the application's construction that acquires
  something (configuration, log file, CDR file, port, each thread) and thread creation in
  POST `/stop` may fail. Which calls of the server may fail is chosen per behaviour
  (`faults`, out of `FaultSets`), so that what follows from a failure is told from what
  happens without one. Memory exhaustion and the threads of httplib's own pool are not
  modelled.

History variables (`unrecorded`, `gap` and `barred` in `SessionManager`, `disturbed` in
`CdrWriter`, `struck` in `PgwServerApp`, `taken`, `signalled` and `duplicated` in
`UdpClient`, and the field `of` of a packet)
exist for the properties and are read by no guard, except that `unrecorded` carries the
bound `MaxRemovals`.

## 3. Runs

| Run | Instance | Result |
|---|---|---|
| `session` | 2 callers, IMSIs: one editable in the blacklist, one always blacklisted, one invalid; timeout 1, clock to 2, 3 ticks a second, rate 2, one `start_graceful_shutdown` | holds |
| `session_live` | 1 caller, 2 IMSIs, fairness | holds |
| `session_stop_twice` | two calls of `start_graceful_shutdown` | **violated**: the process terminates |
| `udp` | 2 workers, 3 datagrams (one blacklisted, one undecodable), a queue that takes 1 or 2, receive buffer of 2, either `sendto` and `epoll_wait` or `recvfrom` failing, fairness | holds |
| `dispatcher_wakeup` | 1 worker, fairness | **violated**: a lost wakeup |
| `dispatcher_undecodable` | 2 workers, one undecodable request | **violated**: the process terminates |
| `imsi` | all IMSIs over {0, 1, 9} up to 7 digits; byte strings of up to 4 bytes over 8 kinds of byte | holds |
| `client` | 3 requests, buffer of 2, both modes, all network faults, signals at any moment, fairness | holds |
| `app` | 2 POST `/stop`, no workers or 2, rate 0 or not, all pairs of log settings over 2 files and 3 levels, every failure, fairness | holds |
| `app_stop` | 2 workers, ENTER, fairness | **violated**: `main` never returns |
| `cdr` | 2 writers, 2 milliseconds a second, 2 seconds a minute, clock to 4, 2 records before the last one begins | holds |
| `cdr_time` | the same | **violated**: a mixed time |

Properties, by what they protect:

- *Sessions and their records.* `CdrMatchesSessions`: balance of records and table agree,
  whichever of cleanup, graceful shutdown and removal ends a session (`remove_session`
  alone leaves no record, and is counted). `TimeoutOnlyWhenIdle`, `BarredCallIsRefused`,
  `OnlyAdmissibleSessions`, `QuietAfterDestruction`: about values that are stale when
  they are used. `ResultIsTrue`: what `create_session` returns is true of the table at that
  moment. `ShutdownIsPaced` measures with a clock of its own (`gap`) how long ago the last
  session was ended by the graceful thread, and holds it against the configured rate:
  `(gap + 1) * ShutdownRate > Second`, that is 1/rate of a second rounded down to a whole
  tick, although the picked session may be gone by then and the wait can be interrupted.
  `ImplementsLifecycle`: the refinement of `SessionLifecycle`, with
  `time <- clock, alive <- sessions, since <- last_activity` and `stopping` once some
  graceful thread was started.
- *Requests and wakeups.* `NoEventForgotten` explains why clearing the flag after the
  wait is harmless; `NeverAllAsleep` why notifying without the mutex is harmless with two
  workers or more: only the worker that holds the mutex can be between predicate and
  wait, so the notification reaches a second one. With one worker that argument fails
  (`dispatcher_wakeup`), and the request waits for the next packet.
  `EachDatagramOnce`: conservation of datagrams through buffer, io thread, queue and
  workers. `NoDatagramStuck`: the draining loop. These are checked in the composition
  `UdpServer`, whose dispatcher is that of `EventDispatcher` action by action.
  `ImplementsService`: the refinement of `RequestService`, with `answer` as it is and
  `Refused <- Blacklisted, Fatal <- Undecodable, down <- terminated`. A request is answered once and only while it is waiting; who is not
  blacklisted is turned away only if `Capacity` others are waiting at that moment, although
  workers empty the queue while the io thread answers; an answer is lost only where `sendto` may fail, and the process goes down only where
  `recvfrom` may fail or an undecodable datagram is waiting. Each half is checked in
  behaviours without the other's failure. `EveryDatagramAnswered`: after a failure of
  `epoll_wait` what the io thread has taken out of the buffer is still answered.
- *Stopping and lifetimes.* `OneCloser`, `JoinedAfterHandlers`, `StopRequestStops`;
  `DestroyedInOrder` names the two cases in which the destructor of `HttpServer` meets a
  joinable thread. `OwnersOutliveUsers`: the members of `PGWServerApp` are declared in an
  order that keeps the CDR writer alive for the manager's callback, the manager for
  workers and handlers, the dispatcher for the io thread, on every way out. A detached
  thread of POST `/stop` has its server while it is inside `stop()`, and while it sleeps as
  long as there is a worker; with `threads_count` 0 it can wake up after `~HttpServer`.
  `EarlyFailureReported`: an exception reaches `main`'s handler if no worker and no io
  thread is running yet; afterwards it does not, since the dispatcher's destructor waits
  and the joinable `io_thread_` is fatal. `AbortCauses` lists what aborts the
  process, of the failures modelled: a worker thread that cannot be created, two POST
  `/stop`, one with a `shutdown_rate` of 0, an HTTP server destroyed before its thread is
  joined or used after that, the io thread that nobody joins, and an exception in the io
  thread or a worker. One POST `/stop` with another rate to a running server is not among
  them (`OneStopIsSurvived`).
- *Logging.* `NoMessageSwallowed`, `OneSinkPerFile`: for each pair of settings, whichever
  component is the more talkative and whether or not they share a file.
- *Records.* `SessionRecordsInOrder`, `OwnTimeUnlessDisturbed`: what sessions_mutex_ gives
  the records of sessions, and exactly what REJECTED records take away from it.
- *Encoding.* `RoundTrip`; `AcceptsExactlyDecodable` and `OneCanonicalEncoding` say
  exactly which byte strings `from_bcd` takes and which of them are not what `to_bcd`
  would produce (a filler before the last byte).
- *Client.* `FreshUntilGap`: although replies are not identified, a call takes its own
  reply until some call got none from the server (a timeout, an error, a stranger's
  packet); after that a late reply is credited to a later request. `SignalStopsClient`:
  after a signal the client exits, with the one exception of a signal that interrupts a
  spdlog call (section 4).

Types are checked with the inductive invariants: `IInv`, `AppInv`, `LoopInv`, `CdrInv` and
`ClientInv` contain them.

### Bounds

`MaxTime = 1` with `Timeout = 1` lets a session expire, be refreshed just before and just
after the sample, and be created again; `session_live` goes one tick further, to the end
of a session that was refreshed or created again. `Second = 3` with a rate of 2 gives an
interval of one tick by truncation, so that sessions are ended with and without the wait
behind them. One `start_graceful_shutdown` keeps the run small; the same properties were
also checked once with `MaxTime` 2 (1.9 million states) and once with two calls of it
(`Second` 2: 5.8 million states).
Two callers suffice for the interleavings of
`create_session` with itself; a third would only repeat them. `MaxRemovals` bounds the
history counter. Two workers are the smallest pool for which `NeverAllAsleep` holds;
`UdpTwoWorkersStayAwake` covers the larger ones. A queue of one event reaches the full queue
with two datagrams, and a `Limit` of two lets it take or refuse the second. 7 digits cover odd and even lengths at and below the limit, 4 bytes
are one too many. Three requests are the fewest in which a stale reply can be followed
by another. Two calls of POST `/stop` and the owner are three callers of `stop()`. No
workers (`threads_count` 0) is the only configuration in which the destruction gets past
the dispatcher, two show the configured one and a partial failure. In `cdr` a clock of 4
milliseconds crosses a second and a minute, and `MaxRecords = 2` lets both threads begin
a record behind one already written. The theorems below do not depend on any of these
bounds, except that clocks and counters stay within theirs, whatever they are.

### Fairness

Weak fairness of each thread's own steps: the operating system schedules threads. In
`SessionManager` a critical section is one action, so weak fairness also says that a
thread is not kept out of `sessions_mutex_` for ever; `std::shared_mutex` does not promise
that, but every section is short and the threads sleep or wait between theirs. In the
dispatcher `worker_lock` is an action of its own and weak fairness asks nothing of
`notify_mutex_`: a worker need only get it if it stays free.
Time passes. Nobody is
obliged to call `create_session`, to send a packet or a signal, to press ENTER, to stop or
destroy anything; a condition variable is not obliged to wake spuriously; system calls are
not obliged to fail. The network owes the client nothing. In `PgwServerApp` the main
thread is scheduled while it builds or destroys, the server thread and each handler with
its detached thread separately, and the graceful thread, which with a rate of 0 aborts.

## 4. What the violations show

- A second POST `/stop` before the HTTP server has closed (500 ms) terminates the process
  in the middle of the graceful shutdown, its own graceful thread perhaps already at work
  beside the first. `OneStopIsGraceful` proves that the second call
  (or a rate of 0) is needed for that.
- With `threads_count` 1 a request can stay unanswered until another one arrives.
  `TwoWorkersStayAwake` proves that any larger pool is safe from that.
- A packet that is not an IMSI ends the process, because `from_bcd` is `noexcept`; the
  `catch` block that would answer it is unreachable. `OnlyUndecodableAborts` and
  `DecodableNeverAborts` prove that nothing else in the workers is fatal, and
  `EncodingsDecodable` that no datagram `pgw_client` builds is of that kind.
- `EventDispatcher::stop` resets `stop_` instead of setting it, so ENTER leads the main
  thread into a join that never returns. `StopNeverReturns` and
  `StartedServerNeverReturns` prove it for every instance.
- A REJECTED record can give another record its time or get one, because `std::gmtime`
  fills in a static buffer and the two are not written under the same mutex.
  `TimesOwnWithoutRejections` proves that nothing else is wrong: without rejections every
  record carries its own time.

`ShutdownEndsOnceCallsCease` has a hypothesis on purpose: `create_session` admits sessions
during a graceful shutdown, which therefore need not end under steady traffic.

Met while modelling, and stated as the exceptions of properties that hold:

- `shutdown_rate` is documented as sessions per second (README.md:133,
  src/session_manager.h:86). The interval is `1000 / shutdown_rate_` in whole milliseconds:
  the documented limit is kept exactly if the rate divides 1000 (`DividingRateIsKept`);
  otherwise more sessions end per second (600 gives 1 ms, so up to 1000), and above 1000
  there is no wait. `ShutdownIsPaced` is the bound that holds for every rate.
- A `shutdown_rate` of 0 divides by zero in the graceful thread: one POST `/stop` ends the
  process (`AbortCauses`).
- With `threads_count` 0, ENTER within half a second of a POST `/stop` destroys the
  `HttpServer` that the detached thread then uses (`OwnersOutliveUsers`).
- `signal_handler` of `pgw_client` logs before it sets the flag (client/main.cpp:18). If it
  interrupts the thread inside spdlog the sink's mutex is never released, and neither this
  signal nor another ends the client (`SignalStopsClient`).

Met while modelling, and not stated as a property: `pgw_client` with three arguments
(`<IMSI> <interval> <timeout>`, src/client/main.cpp:50) runs in single-shot mode, so the
interval of its usage line counts only if the timeout is left out; `shutdown_requested_`
of `HttpServer` is read by nobody; the queue does not outlive `init_components`, so that
dispatcher and io thread use it after its end (`QueueGoneBeforeUse`).

## 5. Theorems

All theorems hold for every value of the constants that satisfies the named assumptions
of the modules (`ConstantsAssumption`, `DispatcherAssumption`, `UdpAssumption`,
`HttpAssumption`, `LoggerAssumption`, `AppAssumption`, `CdrAssumption`, `ImsiAssumption`,
`ClientAssumption`): well-formedness of the sets and numbers only.

- `SessionManagerProofs`. `IInv` adds to the properties what the threads rely on between
  critical sections: a call past the constructor has a valid argument, one past the
  blacklist check not a permanently blacklisted one (`CallsAdmissible`), the sampled time
  is not in the future (needed for `TimeoutOnlyWhenIdle`: an old sample errs on the safe
  side), a call whose IMSI was blacklisted all along has not passed the check
  (`BarredCallsWait`), which threads have ended when the destructor has passed which
  join (`JoinedThreadsEnded`), and that what is left of the wait and what has passed since
  the last record make up the interval as long as one graceful thread was started
  (`WaitKept`). From `Invariance` follow the safety
  properties, the action properties and `Refinement`. `ResultsAreTrue` is about the step in
  which a call of `create_session` returns: a result other than BLACKLISTED means a session
  with fresh activity in the table of that very step.
  `ShutdownKeepsPace` takes from `SleepDurationBound` that an interval and one tick are more
  than 1/rate of a second; `DividingRateIsKept` has the rate divide the second.
- `EventDispatcherProofs`. `WaitInv` combines types, who holds the mutex
  (`LockDiscipline`), `NoEventForgotten` and the fact that no worker leaves (`WorkersStay`). `TwoWorkersStayAwake` assumes two
  different workers; its argument is the one given above. `RequestsConserved`
  (`EachRequestOnce`) uses `EventInHand`: a worker has an event in hand exactly while it
  handles it. `OnlyUndecodableAborts` needs no invariant beyond its own statement, since an
  aborted worker keeps its event.
- `UdpServerProofs`. Lifts these results to the composition and adds the io thread's part:
  `DatagramsDrained`, and `DatagramsConserved`, whose case of a full queue is the one the
  dispatcher alone does not have. `ServiceImplemented` is the refinement of
  `RequestService`, step by step (`WorkerServes`, `DispatcherServes`, `ServiceStep`). It
  rests on `EachDatagramOnce` twice: what a thread answers is still waiting, because what it
  holds is nowhere else and unanswered; and a full queue holds `Capacity` different waiting
  requests other than the one in the io thread's hand (`FullQueueCrowds`), which is what
  `TurnAway` asks for. `BarredNeverAdmitted` and `OverloadIsReal` are then proved of
  `RequestService` and inherited by the server.
- `PgwServerAppProofs`. `HttpInv` is the invariant of the HTTP server on its own: `running_`
  is set only while nobody closes the server, a detached thread that closes it has a thread
  to join, and a started server that is not `running_` has failed, has been joined or is
  being closed. `AppInv` adds what each step of the
  construction finds built (`Built`) and what is over by the time a member is destroyed
  (`Over`); `OwnersOutliveUsers` is not inductive without the two. Its part about detached
  threads (`StopsServed`) follows from them and `HttpInv` in each state. `SinkInv`, for the
  loggers, says that a logger writes to the sink which the registry has for its file. The
  number of calls, workers and settings is arbitrary. `AbortsExplained` needs `AbortInv`:
  who has started the graceful shutdown is known by where its handler is, and a cause that
  holds keeps holding because nothing happens after an abort. `QueueGoneBeforeUse` follows
  from `QueueInv`, the stretch of the construction in which the queue lives, and
  `OneStopIsSurvived` from both: before ENTER no server has been destroyed.
- `CdrWriterProofs`. `CdrInv`: who holds the lock, no time is younger than the clock and
  none in the file younger than the one being written (`NoneYounger`, needed for the
  order), two threads that format at once are both marked (`BothDisturbed`), and the
  static buffer holds an unmarked thread's fields as far as it has got (`OwnTm`).
  `TimesOwnWithoutRejections` adds that nobody is marked while nobody rejects; its
  hypothesis is one on behaviours, `[][~Rejecting]_vars`. `RecordsCounted` relates the
  counter to the file for any finite set of threads.
- `ImsiProofs`. `LoopInv` says what has been written and read so far, also for byte strings
  of unknown origin, with the number of fillers met; the round trip, the set of accepted
  strings and the canonical ones are its value at the end. `MaxDigits` is arbitrary.
  `ToBcdEncodes`, `EncodingInjective` and `EncodingsDecodable` complete the picture of
  what goes over the wire: the encoding tells IMSIs apart, also those of different length
  (the filler marks an odd one), and the server can decode each of them.
- `UdpClientProofs`. `ClientInv` says that, as long as the network has not duplicated a
  reply, each reply not yet taken is in one place and belongs to a request made; if no call
  before `k` missed its reply, the replies before `k` are used up, so the one taken by `k`
  is its own. `CallsAreCounted`: in periodic mode the calls made are those counted plus the
  one under way, unless the signal handler waits for itself in the middle of a call.

Only model-checked: the liveness properties (fairness and `ENABLED` are beyond the proof
system). Every invariant, every action property and both refinements of the passing runs
are proved.

## 6. Not modelled

- `UniqueFd`: a move-only owner of one descriptor. The program builds two, never moves,
  resets or shares them; there is no sequence of operations to check.
- Configuration: that `load_config` may throw is a step of `PgwServerApp`; which JSON text
  gives which values is pure input.
- `imsi_generator` and the scripts: straight-line tools for load tests.
- Read-only operations (`session_exists`, `is_blacklisted`, POST `/check_subscriber`),
  patterns and sizes of log files, response times and averages of the client, operations
  that nobody calls (`CDRWriter::write_record` with its own time, `UdpClient::send_imsi`).

## 7. Plan

1. Done: every component with state of its own is modelled, checked and proved about; see
   above.
2. Left: the composition of the dispatcher with `SessionManager`, so that a reply `created`
   is related to the table in one state machine. Its two halves are proved:
   `ResultsAreTrue` relates each call's result to the table, `BarredNeverAdmitted` and
   `ServiceImplemented` relate each reply to the request.
