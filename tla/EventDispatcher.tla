-------------------------- MODULE EventDispatcher --------------------------
(***************************************************************************)
(* The worker pool of pgw_server (src/src/event_dispatcher.{h,cpp}): a      *)
(* queue filled by one producer, workers that drain it and otherwise wait   *)
(* on notify_cv_, the producer's notify_event_available, and the            *)
(* destructor.                                                             *)
(*                                                                         *)
(* notify_cv_.wait(lock, pred) is taken apart into its steps, because       *)
(* notify_event_available touches neither notify_mutex_ nor any other lock: *)
(* evaluating the predicate, releasing the mutex and blocking, waking up    *)
(* and taking the mutex again are separate actions.                        *)
(*                                                                         *)
(* The queue is moodycamel::ConcurrentQueue as the code uses it: one        *)
(* producer, first in first out, a bounded try_enqueue (a queue built with  *)
(* no argument has a fixed number of preallocated blocks).  It refuses when *)
(* no block is free, and blocks are freed as a whole: between Capacity and  *)
(* Limit events it may take another one or refuse it.                       *)
(*                                                                         *)
(* A request is a slot that is reused once it is answered; what the client  *)
(* of the slot has got is kept in `answer'.                                *)
(***************************************************************************)
EXTENDS Naturals, Sequences

CONSTANTS
  Workers,          \* thread_pool_
  Requests,         \* slots for requests
  Undecodable,      \* the ones from which IMSI::from_bcd cannot build an IMSI
  Blacklisted,      \* the ones create_session turns down
  Capacity,         \* with fewer events try_enqueue succeeds
  Limit,            \* with this many it fails
  FaultSets,        \* the sets of system calls that may fail in a behaviour
  NoRequest, NoWorker

ASSUME DispatcherAssumption ==
  /\ Undecodable \cup Blacklisted \subseteq Requests
  /\ NoRequest \notin Requests
  /\ NoWorker \notin Workers
  /\ Capacity \in Nat \ {0} /\ Limit \in Nat /\ Capacity <= Limit
  /\ \A F \in FaultSets : F \subseteq {"sendto", "recvfrom", "epoll_wait"}

VARIABLES
  queue,            \* queue_
  event_available,  \* event_available_
  stop,             \* stop_
  holder,           \* who holds notify_mutex_
  wpc, event,       \* each worker: control, the event it took
  ppc,              \* the producer, inside notify_event_available or not
  dpc,              \* ~EventDispatcher: control
  answer,           \* per slot: "pending" while the server owes an answer, else what
                    \* the client got last ("nothing" before the first request)
  faults,           \* the system calls that may fail in this behaviour
  terminated        \* std::terminate was called

workerVars == <<wpc, event>>
flagVars == <<event_available, stop>>
vars == <<queue, flagVars, holder, workerVars, ppc, dpc, answer, faults, terminated>>

WorkerPc == {"loop", "dequeue", "handle", "lock", "pred", "block", "wait",
             "relock", "clear", "exit"}
Answers == {"nothing", "pending", "created", "rejected"}

TypeOK ==
  /\ queue \in Seq(Requests)
  /\ event_available \in BOOLEAN /\ stop \in BOOLEAN /\ terminated \in BOOLEAN
  /\ holder \in Workers \cup {NoWorker}
  /\ wpc \in [Workers -> WorkerPc]
  /\ event \in [Workers -> Requests \cup {NoRequest}]
  /\ ppc \in {"idle", "set", "notify"}
  /\ dpc \in {"live", "notify", "join", "returned"}
  /\ answer \in [Requests -> Answers]
  /\ faults \in FaultSets

-----------------------------------------------------------------------------
Init ==
  /\ queue = <<>>
  /\ event_available = FALSE /\ stop = FALSE /\ terminated = FALSE
  /\ holder = NoWorker
  /\ wpc = [w \in Workers |-> "loop"]
  /\ event = [w \in Workers |-> NoRequest]
  /\ ppc = "idle"
  /\ dpc = "live"
  /\ answer = [r \in Requests |-> "nothing"]
  /\ faults \in FaultSets

goto(w, l) == wpc' = [wpc EXCEPT ![w] = l]

-----------------------------------------------------------------------------
(* A worker *)

(* while (!stop_) *)
worker_loop(w) ==
  /\ wpc[w] = "loop"
  /\ goto(w, IF stop THEN "exit" ELSE "dequeue")
  /\ UNCHANGED <<queue, flagVars, holder, event, ppc, dpc, answer, faults, terminated>>

Rest == Tail(queue)

try_dequeue(w) ==
  /\ wpc[w] = "dequeue"
  /\ \/ /\ queue # <<>>
        /\ event' = [event EXCEPT ![w] = Head(queue)]
        /\ queue' = Rest
        /\ goto(w, "handle")
     \/ /\ queue = <<>>
        /\ goto(w, "lock")
        /\ UNCHANGED <<queue, event>>
  /\ UNCHANGED <<flagVars, holder, ppc, dpc, answer, faults, terminated>>

(* Variants: no case for BLACKLISTED, so the reply stays empty; no break    *)
(* before it.                                                              *)
response_incomplete(r) == IF r \in Blacklisted THEN "" ELSE "created"
response_fallthrough(r) == "rejected"

(* create_session and the reply it leads to; session_manager_ is modelled   *)
(* in SessionManager.                                                      *)
response(r) == IF r \in Blacklisted THEN "rejected" ELSE "created"

(* An error of sendto is logged, and the client gets nothing. *)
send_response(r, text) ==
  \E a \in IF "sendto" \in faults THEN {text, "nothing"} ELSE {text} :
    answer' = [answer EXCEPT ![r] = a]

(* IMSI::from_bcd is noexcept and the IMSI constructor throws: the handler  *)
(* of handleUdpEvent is never reached, std::terminate is.                   *)
handleUdpEvent(w) ==
  /\ wpc[w] = "handle"
  /\ \/ /\ event[w] \in Undecodable
        /\ terminated' = TRUE
        /\ UNCHANGED <<workerVars, answer>>
     \/ /\ event[w] \notin Undecodable
        /\ send_response(event[w], response(event[w]))
        /\ event' = [event EXCEPT ![w] = NoRequest]
        /\ goto(w, "loop")
        /\ UNCHANGED terminated
  /\ UNCHANGED <<queue, flagVars, holder, ppc, dpc, faults>>

(* std::unique_lock, and its reacquisition inside wait. *)
worker_lock(w) ==
  /\ wpc[w] \in {"lock", "relock"}
  /\ holder = NoWorker
  /\ holder' = w
  /\ goto(w, "pred")
  /\ UNCHANGED <<queue, flagVars, event, ppc, dpc, answer, faults, terminated>>

(* event_available_.load() || stop_.load() *)
wait_predicate(w) ==
  /\ wpc[w] = "pred"
  /\ goto(w, IF event_available \/ stop THEN "clear" ELSE "block")
  /\ UNCHANGED <<queue, flagVars, holder, event, ppc, dpc, answer, faults, terminated>>

(* Releasing the mutex and starting to wait are one step. *)
wait_block(w) ==
  /\ wpc[w] = "block"
  /\ holder' = NoWorker
  /\ goto(w, "wait")
  /\ UNCHANGED <<queue, flagVars, event, ppc, dpc, answer, faults, terminated>>

(* A condition variable may wake its waiters without a notification. *)
wait_spurious(w) ==
  /\ wpc[w] = "wait"
  /\ goto(w, "relock")
  /\ UNCHANGED <<queue, flagVars, holder, event, ppc, dpc, answer, faults, terminated>>

(* event_available_ = false; the lock ends with the loop body. *)
worker_clear(w) ==
  /\ wpc[w] = "clear"
  /\ event_available' = FALSE
  /\ holder' = NoWorker
  /\ goto(w, "loop")
  /\ UNCHANGED <<queue, stop, event, ppc, dpc, answer, faults, terminated>>

WorkerStep(w) ==
  \/ worker_loop(w) \/ try_dequeue(w) \/ handleUdpEvent(w) \/ worker_lock(w)
  \/ wait_predicate(w) \/ wait_block(w) \/ worker_clear(w)

-----------------------------------------------------------------------------
(* The producer *)

(* Puts r into the queue and enters notify_event_available. *)
try_enqueue(r) ==
  /\ ppc = "idle"
  /\ Len(queue) < Limit
  /\ queue' = Append(queue, r)
  /\ ppc' = "set"

(* Variant: the flag is not put up. *)
Raised_not == event_available
Raised == TRUE

notify_set ==
  /\ ppc = "set"
  /\ event_available' = Raised
  /\ ppc' = "notify"
  /\ UNCHANGED <<queue, stop, holder, workerVars, dpc, answer, faults, terminated>>

(* Variant: the flag alone is set, nobody is notified. *)
Waiting_nobody == {}
Waiting == {w \in Workers : wpc[w] = "wait"}

(* Wakes one waiting worker, if there is one. *)
notify_one ==
  /\ ppc = "notify"
  /\ \/ Waiting = {} /\ UNCHANGED wpc
     \/ \E w \in Waiting : goto(w, "relock")
  /\ ppc' = "idle"
  /\ UNCHANGED <<queue, flagVars, holder, event, dpc, answer, faults, terminated>>

notify_event_available == notify_set \/ notify_one

(* Any producer: a request arrives in a free slot. *)
Produce(r) ==
  /\ answer[r] # "pending"
  /\ answer' = [answer EXCEPT ![r] = "pending"]
  /\ try_enqueue(r)
  /\ UNCHANGED <<flagVars, holder, workerVars, dpc, faults, terminated>>

-----------------------------------------------------------------------------
(* ~EventDispatcher, which calls stop().  Joining the workers changes no    *)
(* state: see StopReturned.                                                *)

(* stop_.exchange(false): returns early if stop_ was set, and leaves it     *)
(* unset.                                                                  *)
stop_exchange ==
  /\ dpc = "live"
  /\ dpc' = IF stop THEN "returned" ELSE "notify"
  /\ stop' = FALSE
  /\ UNCHANGED <<queue, event_available, holder, workerVars, ppc, answer, faults, terminated>>

stop_notify_all ==
  /\ dpc = "notify"
  /\ wpc' = [w \in Workers |-> IF wpc[w] = "wait" THEN "relock" ELSE wpc[w]]
  /\ dpc' = "join"
  /\ UNCHANGED <<queue, flagVars, holder, event, ppc, answer, faults, terminated>>

StopReturned ==
  \/ dpc = "returned"
  \/ dpc = "join" /\ \A w \in Workers : wpc[w] = "exit"

-----------------------------------------------------------------------------
(* The process is gone. *)
Aborted == terminated /\ UNCHANGED vars

(* Everything but the producer's side of the queue. *)
DispatcherStep ==
  \/ ~terminated /\ \/ \E w \in Workers : WorkerStep(w) \/ wait_spurious(w)
                    \/ notify_event_available
                    \/ stop_exchange \/ stop_notify_all
  \/ Aborted

Next ==
  \/ ~terminated /\ \E r \in Requests : Produce(r)
  \/ DispatcherStep

Spec == Init /\ [][Next]_vars

(* Threads are scheduled.  Nobody is obliged to send a request, and a       *)
(* condition variable is not obliged to wake up spuriously.                *)
Fairness ==
  /\ \A w \in Workers : WF_vars(~terminated /\ WorkerStep(w))
  /\ WF_vars(~terminated /\ notify_event_available)
  /\ WF_vars(~terminated /\ stop_notify_all)

FairSpec == Spec /\ Fairness

-----------------------------------------------------------------------------
(* Safety *)

(* No event is forgotten: while the queue holds one, the flag is up or about *)
(* to be put up, or some worker looks into the queue before it next waits.  *)
(* Clearing the flag elsewhere than just before the queue is looked at, or  *)
(* raising it before the event is in the queue, breaks it.                  *)
NoEventForgotten ==
  queue # <<>> =>
    \/ event_available
    \/ ppc = "set"
    \/ \E w \in Workers : wpc[w] \in {"loop", "dequeue", "handle", "clear"}

(* With two workers or more a wakeup cannot be lost: once the producer is   *)
(* through with notify_event_available, some worker is on its way to the    *)
(* queue or to the flag.  The notification falls into the gap between       *)
(* wait_predicate and wait_block of one worker at most, the one that holds  *)
(* notify_mutex_, and is then not needed by the others.                     *)
NeverAllAsleep ==
  queue # <<>> /\ ppc = "idle" =>
    \E w \in Workers : wpc[w] \notin {"block", "wait", "exit"}

(* notify_mutex_ is held by exactly the worker that is between taking and   *)
(* releasing it, however it left the wait.                                 *)
LockDiscipline ==
  \A w \in Workers : wpc[w] \in {"pred", "block", "clear"} <=> holder = w

(* stop_.exchange(false) sets nothing, so no worker ever leaves its loop.   *)
WorkersStay == ~stop /\ dpc # "returned" /\ \A w \in Workers : wpc[w] # "exit"

(* What a sleeping worker relies on: the inductive invariant of the wait.   *)
WaitInv == TypeOK /\ LockDiscipline /\ NoEventForgotten /\ WorkersStay

(* No event is in two places of the dispatcher, and one that is in it has   *)
(* not been answered.                                                      *)
InQueue(r) == {k \in 1 .. Len(queue) : queue[k] = r}
InHand(r)  == {w \in Workers : event[w] = r}
EventInHand == \A w \in Workers : wpc[w] = "handle" <=> event[w] # NoRequest
NoEventTwice ==
  /\ EventInHand
  /\ \A j, k \in 1 .. Len(queue) : queue[j] = queue[k] => j = k
  /\ \A v, w \in Workers : event[v] = event[w] /\ event[v] # NoRequest => v = w
  /\ \A r \in Requests :
       /\ InQueue(r) = {} \/ InHand(r) = {}
       /\ InQueue(r) # {} \/ InHand(r) # {} => answer[r] = "pending"

(* An unanswered request that the dispatcher does not have. *)
Missing(r) == answer[r] = "pending" /\ InQueue(r) = {} /\ InHand(r) = {}

(* Each unanswered request is in one place only, the queue or the hand of   *)
(* one worker, and an answered one in none: no request is answered twice,   *)
(* and none is dropped.                                                    *)
EachRequestOnce == NoEventTwice /\ \A r \in Requests : ~Missing(r)

(* Every request is dealt with without bringing the process down. *)
NeverAborts == ~terminated

-----------------------------------------------------------------------------
(* Liveness *)

(* Every request that reached the queue is answered. *)
EveryRequestAnswered ==
  \A r \in Requests : answer[r] = "pending" ~> answer[r] # "pending" \/ terminated
=============================================================================
