----------------------- MODULE EventDispatcherProofs -----------------------
(***************************************************************************)
(* Proofs about EventDispatcher for any number of workers and requests and  *)
(* any capacity.  The lemmas are about single actions, so that they hold    *)
(* for every producer, the io thread of UdpServer included.                *)
(***************************************************************************)
EXTENDS EventDispatcher, TLAPS

-----------------------------------------------------------------------------
(* Waiting for events *)

(* WaitInv is preserved by whatever a worker does. *)
LEMMA WorkerKeepsWaitInv ==
  ASSUME WaitInv, NEW w \in Workers, WorkerStep(w) \/ wait_spurious(w)
  PROVE  WaitInv'
<1> USE DispatcherAssumption
    DEF WaitInv, TypeOK, WorkerPc, LockDiscipline, NoEventForgotten, WorkersStay,
        goto, workerVars, flagVars
<1>1. CASE worker_loop(w)
  BY <1>1 DEF worker_loop
<1>2. CASE try_dequeue(w)
  <2>1. CASE queue # <<>>
    <3>1. Head(queue) \in Requests /\ Tail(queue) \in Seq(Requests)
      BY <2>1
    <3>2. /\ event' = [event EXCEPT ![w] = Head(queue)]
          /\ queue' = Tail(queue)
          /\ wpc[w] = "dequeue" /\ wpc' = [wpc EXCEPT ![w] = "handle"]
          /\ UNCHANGED <<event_available, stop, holder, ppc, dpc, answer,
                         faults, terminated>>
      BY <1>2, <2>1 DEF try_dequeue, Rest
    <3>3. TypeOK'
      BY <3>1, <3>2
    <3>4. LockDiscipline' /\ NoEventForgotten' /\ WorkersStay'
      BY <3>2
    <3> QED
      BY <3>3, <3>4
  <2>2. CASE queue = <<>>
    BY <1>2, <2>2 DEF try_dequeue
  <2> QED
    BY <2>1, <2>2
<1>3. CASE handleUdpEvent(w)
  <2>1. answer' \in [Requests -> Answers]
    BY <1>3 DEF handleUdpEvent, send_response, response, Answers
  <2> QED
    BY <1>3, <2>1 DEF handleUdpEvent
<1>4. CASE worker_lock(w)
  BY <1>4 DEF worker_lock
<1>5. CASE wait_predicate(w)
  BY <1>5 DEF wait_predicate
<1>6. CASE wait_block(w)
  BY <1>6 DEF wait_block
<1>7. CASE worker_clear(w)
  BY <1>7 DEF worker_clear
<1>8. CASE wait_spurious(w)
  BY <1>8 DEF wait_spurious
<1> QED
  BY <1>1, <1>2, <1>3, <1>4, <1>5, <1>6, <1>7, <1>8 DEF WorkerStep

(* So do the producer's notification and the destructor. *)
LEMMA NotifierKeepsWaitInv ==
  ASSUME WaitInv,
         notify_event_available \/ stop_exchange \/ stop_notify_all
  PROVE  WaitInv'
<1> USE DispatcherAssumption
    DEF WaitInv, TypeOK, WorkerPc, LockDiscipline, NoEventForgotten, WorkersStay,
        goto, workerVars, flagVars
<1>1. CASE notify_set
  BY <1>1 DEF notify_set, Raised
<1>2. CASE notify_one
  BY <1>2 DEF notify_one, Waiting
<1>3. CASE stop_exchange
  BY <1>3 DEF stop_exchange
<1>4. CASE stop_notify_all
  BY <1>4 DEF stop_notify_all
<1> QED
  BY <1>1, <1>2, <1>3, <1>4 DEF notify_event_available

(* And any use of try_enqueue that leaves the workers alone. *)
LEMMA EnqueueKeepsWaitInv ==
  ASSUME WaitInv, NEW r \in Requests, try_enqueue(r),
         UNCHANGED <<flagVars, holder, workerVars, dpc, faults, terminated>>,
         answer' \in [Requests -> Answers]
  PROVE  WaitInv'
  BY DispatcherAssumption
     DEF WaitInv, TypeOK, WorkerPc, LockDiscipline, NoEventForgotten,
         WorkersStay, try_enqueue, workerVars, flagVars

LEMMA DispatcherKeepsWaitInv ==
  ASSUME WaitInv, DispatcherStep \/ UNCHANGED vars
  PROVE  WaitInv'
<1>1. CASE Aborted \/ UNCHANGED vars
  BY <1>1 DEF Aborted, vars, workerVars, flagVars, WaitInv, TypeOK,
              LockDiscipline, NoEventForgotten, WorkersStay
<1> QED
  BY <1>1, WorkerKeepsWaitInv, NotifierKeepsWaitInv DEF DispatcherStep

LEMMA WaitInvInitially == Init => WaitInv
<1> SUFFICES ASSUME Init PROVE WaitInv
  OBVIOUS
<1>1. TypeOK
  <2>1. event_available \in BOOLEAN /\ stop \in BOOLEAN /\ terminated \in BOOLEAN
    BY DEF Init
  <2> QED
    BY <2>1, DispatcherAssumption DEF Init, TypeOK, WorkerPc, Answers
<1> QED
  BY <1>1, DispatcherAssumption
     DEF Init, WaitInv, LockDiscipline, NoEventForgotten, WorkersStay

LEMMA WaitInvStep == WaitInv /\ [Next]_vars => WaitInv'
<1> SUFFICES ASSUME WaitInv, [Next]_vars PROVE WaitInv'
  OBVIOUS
<1>1. ASSUME NEW r \in Requests, Produce(r) PROVE WaitInv'
  <2>1. answer' \in [Requests -> Answers]
    BY <1>1 DEF Produce, WaitInv, TypeOK, Answers
  <2> QED
    BY <1>1, <2>1, EnqueueKeepsWaitInv DEF Produce
<1> QED
  BY <1>1, DispatcherKeepsWaitInv DEF Next

THEOREM WaitInvariance == Spec => []WaitInv
<1> QED
  BY WaitInvInitially, WaitInvStep, PTL DEF Spec

(* No event is forgotten, whatever the number of workers. *)
THEOREM EventsRemembered == Spec => []NoEventForgotten
<1>1. WaitInv => NoEventForgotten
  BY DEF WaitInv
<1> QED
  BY <1>1, WaitInvariance, PTL

(* The destructor cannot return: with at least one worker, no state is one  *)
(* in which every thread it joins has ended.                               *)
THEOREM StopNeverReturns ==
  ASSUME Workers # {}
  PROVE  Spec => []~StopReturned
<1>1. WaitInv => ~StopReturned
  BY DEF WaitInv, WorkersStay, StopReturned
<1> QED
  BY <1>1, WaitInvariance, PTL

-----------------------------------------------------------------------------
(* With two workers, somebody is awake whenever there is work. *)
TwoWorkers == \E v, w \in Workers : v # w

LEMMA DispatcherStaysAwake ==
  ASSUME TwoWorkers, WaitInv, NeverAllAsleep, DispatcherStep \/ UNCHANGED vars
  PROVE  NeverAllAsleep'
<1> USE DEF WaitInv, TypeOK, WorkerPc, NeverAllAsleep, goto, workerVars, flagVars
<1>1. ASSUME NEW w \in Workers, WorkerStep(w) \/ wait_spurious(w)
      PROVE  NeverAllAsleep'
  <2>1. CASE worker_loop(w)
    BY <1>1, <2>1 DEF worker_loop, WorkersStay
  <2>2. CASE try_dequeue(w)
    BY <2>2 DEF try_dequeue
  <2>3. CASE handleUdpEvent(w)
    BY <2>3 DEF handleUdpEvent
  <2>4. CASE worker_lock(w)
    BY <2>4 DEF worker_lock
  <2>5. CASE wait_predicate(w)
    BY <2>5 DEF wait_predicate, NoEventForgotten
  <2>6. CASE wait_block(w)
    BY <2>6 DEF wait_block
  <2>7. CASE worker_clear(w)
    BY <2>7 DEF worker_clear
  <2>8. CASE wait_spurious(w)
    BY <2>8 DEF wait_spurious
  <2> QED
    BY <1>1, <2>1, <2>2, <2>3, <2>4, <2>5, <2>6, <2>7, <2>8 DEF WorkerStep
<1>2. CASE notify_one
  (* Nobody waits: one of two workers is not the holder, hence not blocking. *)
  <2>1. CASE Waiting # {}
    BY <1>2, <2>1 DEF notify_one, Waiting
  <2>2. CASE Waiting = {}
    <3>1. PICK u \in Workers : u # holder
      BY DEF TwoWorkers
    <3>2. wpc[u] \notin {"block", "wait", "exit"}
      BY <2>2, <3>1 DEF LockDiscipline, WorkersStay, Waiting
    <3> QED
      BY <1>2, <2>2, <3>2 DEF notify_one
  <2> QED
    BY <2>1, <2>2
<1>3. CASE notify_set \/ stop_exchange \/ stop_notify_all
  BY <1>3 DEF notify_set, stop_exchange, stop_notify_all
<1>4. CASE Aborted \/ UNCHANGED vars
  BY <1>4 DEF Aborted, vars
<1> QED
  BY <1>1, <1>2, <1>3, <1>4 DEF DispatcherStep, notify_event_available

(* No wakeup is lost with two workers or more: whenever an event is queued  *)
(* and the producer is done, some worker is going to look.                  *)
THEOREM TwoWorkersStayAwake ==
  ASSUME TwoWorkers
  PROVE  Spec => []NeverAllAsleep
<1>1. Init => NeverAllAsleep
  BY DEF Init, NeverAllAsleep
<1>2. WaitInv /\ NeverAllAsleep /\ [Next]_vars => NeverAllAsleep'
  <2>1. ASSUME NEW r \in Requests, Produce(r) PROVE NeverAllAsleep'
    BY <2>1 DEF Produce, try_enqueue, NeverAllAsleep
  <2> QED
    BY <2>1, DispatcherStaysAwake DEF Next
<1> QED
  BY <1>1, <1>2, WaitInvariance, PTL DEF Spec

-----------------------------------------------------------------------------
(* Where each request is.  The dispatcher loses none: a request is missing  *)
(* after a step of it only if it was before.                               *)
NoneLost == NoEventTwice' /\ \A r \in Requests : Missing(r)' <=> Missing(r)

(* Steps that move no request. *)
LEMMA RequestsUntouched ==
  ASSUME NoEventTwice, UNCHANGED <<queue, event, answer>>,
         \A w \in Workers : wpc'[w] = "handle" <=> wpc[w] = "handle"
  PROVE  NoneLost
  BY DEF NoneLost, NoEventTwice, EventInHand, InQueue, InHand, Missing

(* try_dequeue moves the head of the queue into the hand of one worker. *)
LEMMA DequeueMovesRequest ==
  ASSUME TypeOK, NoEventTwice, NEW w \in Workers, try_dequeue(w), queue # <<>>
  PROVE  NoneLost
<1> USE DEF TypeOK
<1>1. /\ event' = [event EXCEPT ![w] = Head(queue)]
      /\ queue' = Tail(queue)
      /\ wpc[w] = "dequeue" /\ wpc' = [wpc EXCEPT ![w] = "handle"]
      /\ answer' = answer
  BY DEF try_dequeue, goto, Rest
<1>2. /\ Head(queue) = queue[1] /\ Head(queue) \in Requests
      /\ 1 \in 1 .. Len(queue)
      /\ \A k \in 1 .. Len(queue') : k + 1 \in 1 .. Len(queue) /\ queue'[k] = queue[k + 1]
      /\ \A k \in 1 .. Len(queue) : k # 1 => k - 1 \in 1 .. Len(queue')
  BY <1>1
<1>3. event[w] = NoRequest
  BY <1>1 DEF NoEventTwice, EventInHand
<1>4. EventInHand'
  BY <1>1, <1>2, DispatcherAssumption DEF NoEventTwice, EventInHand
<1>5. \A j, k \in 1 .. Len(queue') : queue'[j] = queue'[k] => j = k
  BY <1>2 DEF NoEventTwice
<1>6. \A v \in Workers : event[v] # Head(queue)
  BY <1>2 DEF NoEventTwice, InQueue, InHand
<1>7. \A u, v \in Workers : event'[u] = event'[v] /\ event'[u] # NoRequest => u = v
  BY <1>1, <1>6 DEF NoEventTwice
<1>8. ASSUME NEW r \in Requests
      PROVE  /\ InQueue(r)' = {} \/ InHand(r)' = {}
             /\ InQueue(r)' # {} \/ InHand(r)' # {}
                  <=> InQueue(r) # {} \/ InHand(r) # {}
  <2>1. CASE r = Head(queue)
    <3>1. InQueue(r)' = {}
      BY <1>2, <2>1 DEF NoEventTwice, InQueue
    <3>2. w \in InHand(r)'
      BY <1>1, <2>1 DEF InHand
    <3>3. 1 \in InQueue(r)
      BY <1>2, <2>1 DEF InQueue
    <3> QED
      BY <3>1, <3>2, <3>3
  <2>2. CASE r # Head(queue)
    <3>1. InHand(r)' = InHand(r)
      BY <1>1, <1>3, <2>2, DispatcherAssumption DEF InHand
    <3>2. InQueue(r)' # {} <=> InQueue(r) # {}
      <4>1. ASSUME NEW k \in InQueue(r)' PROVE k + 1 \in InQueue(r)
        BY <1>2, <4>1 DEF InQueue
      <4>2. ASSUME NEW k \in InQueue(r) PROVE k - 1 \in InQueue(r)'
        <5>1. k # 1
          BY <1>2, <2>2, <4>2 DEF InQueue
        <5>2. k - 1 \in 1 .. Len(queue')
          BY <1>2, <5>1, <4>2 DEF InQueue
        <5>3. queue'[k - 1] = queue[k]
          BY <1>2, <5>2, <4>2 DEF InQueue
        <5> QED
          BY <5>2, <5>3, <4>2 DEF InQueue
      <4> QED
        BY <4>1, <4>2
    <3> QED
      BY <3>1, <3>2 DEF NoEventTwice
  <2> QED
    BY <2>1, <2>2
<1>9. NoEventTwice'
  BY <1>1, <1>4, <1>5, <1>7, <1>8 DEF NoEventTwice
<1> QED
  BY <1>1, <1>8, <1>9 DEF NoneLost, Missing

(* handleUdpEvent answers the request in the hand of its worker. *)
LEMMA HandleAnswersRequest ==
  ASSUME TypeOK, NoEventTwice, NEW w \in Workers, handleUdpEvent(w),
         event[w] \notin Undecodable
  PROVE  NoneLost
<1> USE DEF TypeOK
<1>1. PICK a \in Answers \ {"pending"} :
        /\ wpc[w] = "handle" /\ wpc' = [wpc EXCEPT ![w] = "loop"]
        /\ event' = [event EXCEPT ![w] = NoRequest]
        /\ answer' = [answer EXCEPT ![event[w]] = a]
        /\ queue' = queue
  BY DEF handleUdpEvent, send_response, response, Answers, goto
<1>2. event[w] \in Requests
  BY <1>1 DEF NoEventTwice, EventInHand
<1>3. EventInHand'
  BY <1>1 DEF NoEventTwice, EventInHand
<1>4. \A u, v \in Workers : event'[u] = event'[v] /\ event'[u] # NoRequest => u = v
  BY <1>1 DEF NoEventTwice
<1>5. ASSUME NEW r \in Requests
      PROVE  /\ InQueue(r)' = {} \/ InHand(r)' = {}
             /\ InQueue(r)' # {} \/ InHand(r)' # {} => answer'[r] = "pending"
             /\ Missing(r)' <=> Missing(r)
  <2>1. InQueue(r)' = InQueue(r)
    BY <1>1 DEF InQueue
  <2>2. CASE r = event[w]
    <3>1. InHand(r)' = {}
      BY <1>1, <1>2, <2>2, DispatcherAssumption DEF InHand, NoEventTwice
    <3>2. InQueue(r) = {} /\ InHand(r) # {}
      BY <2>2 DEF NoEventTwice, InHand
    <3>3. answer'[r] # "pending"
      BY <1>1, <2>2
    <3> QED
      BY <2>1, <3>1, <3>2, <3>3 DEF Missing
  <2>3. CASE r # event[w]
    <3>1. InHand(r)' = InHand(r) /\ answer'[r] = answer[r]
      BY <1>1, <2>3, DispatcherAssumption DEF InHand
    <3> QED
      BY <2>1, <3>1 DEF NoEventTwice, Missing
  <2> QED
    BY <2>2, <2>3
<1>6. NoEventTwice'
  BY <1>1, <1>3, <1>4, <1>5 DEF NoEventTwice
<1> QED
  BY <1>5, <1>6 DEF NoneLost

LEMMA DispatcherLosesNone ==
  ASSUME TypeOK, NoEventTwice, DispatcherStep \/ UNCHANGED vars
  PROVE  NoneLost
<1>1. ASSUME NEW w \in Workers, try_dequeue(w), queue = <<>> PROVE NoneLost
  BY <1>1, RequestsUntouched DEF try_dequeue, goto, TypeOK
<1>2. ASSUME NEW w \in Workers, handleUdpEvent(w), event[w] \in Undecodable
      PROVE  NoneLost
  BY <1>2, RequestsUntouched DEF handleUdpEvent, workerVars
<1>3. ASSUME NEW w \in Workers,
             \/ worker_loop(w) \/ worker_lock(w) \/ wait_predicate(w)
             \/ wait_block(w) \/ worker_clear(w) \/ wait_spurious(w)
      PROVE  NoneLost
  <2>1. /\ UNCHANGED <<queue, event, answer>>
        /\ wpc[w] # "handle"
        /\ \E l \in WorkerPc \ {"handle"} : wpc' = [wpc EXCEPT ![w] = l]
    BY <1>3 DEF worker_loop, worker_lock, wait_predicate, wait_block,
                worker_clear, wait_spurious, goto, WorkerPc
  <2> QED
    BY <2>1, RequestsUntouched DEF TypeOK
<1>4. CASE notify_event_available
  BY <1>4, RequestsUntouched
     DEF notify_event_available, notify_set, notify_one, goto, workerVars,
         Waiting, TypeOK
<1>5. CASE stop_exchange \/ stop_notify_all
  BY <1>5, RequestsUntouched DEF stop_exchange, stop_notify_all, workerVars
<1>6. CASE Aborted \/ UNCHANGED vars
  BY <1>6, RequestsUntouched DEF Aborted, vars, workerVars
<1> QED
  BY <1>1, <1>2, <1>3, <1>4, <1>5, <1>6, DequeueMovesRequest, HandleAnswersRequest
     DEF DispatcherStep, WorkerStep

(* try_enqueue puts a request that was nowhere at the end of the queue. *)
LEMMA EnqueueAddsRequest ==
  ASSUME TypeOK, NoEventTwice, NEW q \in Requests, try_enqueue(q),
         UNCHANGED workerVars, InQueue(q) = {}, InHand(q) = {},
         answer' = [answer EXCEPT ![q] = "pending"]
  PROVE  /\ NoEventTwice'
         /\ \A r \in Requests : Missing(r)' <=> Missing(r) /\ r # q
<1> USE DEF TypeOK
<1>1. /\ queue' = Append(queue, q)
      /\ UNCHANGED <<event, wpc>>
  BY DEF try_enqueue, workerVars
<1>2. /\ Len(queue') = Len(queue) + 1
      /\ queue'[Len(queue) + 1] = q
      /\ \A k \in 1 .. Len(queue) : queue'[k] = queue[k]
      /\ Len(queue) \in Nat
  BY <1>1
<1>3. \A k \in 1 .. Len(queue) : queue[k] # q
  BY DEF InQueue
<1>4. ASSUME NEW j \in 1 .. Len(queue'), NEW k \in 1 .. Len(queue'),
             queue'[j] = queue'[k]
      PROVE  j = k
  <2>1. /\ j \in 1 .. Len(queue) \/ j = Len(queue) + 1
        /\ k \in 1 .. Len(queue) \/ k = Len(queue) + 1
    BY <1>2
  <2>2. CASE j \in 1 .. Len(queue) /\ k \in 1 .. Len(queue)
    BY <1>2, <1>4, <2>2 DEF NoEventTwice
  <2> QED
    BY <1>2, <1>3, <1>4, <2>1, <2>2
<1>5. ASSUME NEW r \in Requests
      PROVE  /\ InQueue(r)' = {} \/ InHand(r)' = {}
             /\ InQueue(r)' # {} \/ InHand(r)' # {} => answer'[r] = "pending"
             /\ Missing(r)' <=> Missing(r) /\ r # q
  <2>1. InHand(r)' = InHand(r)
    BY <1>1 DEF InHand
  <2>2. CASE r = q
    <3>1. Len(queue) + 1 \in InQueue(r)'
      BY <1>2, <2>2 DEF InQueue
    <3> QED
      BY <2>1, <2>2, <3>1 DEF Missing
  <2>3. CASE r # q
    <3>1. InQueue(r)' = InQueue(r)
      BY <1>2, <2>3 DEF InQueue
    <3> QED
      BY <2>1, <2>3, <3>1 DEF NoEventTwice, Missing
  <2> QED
    BY <2>2, <2>3
<1>6. NoEventTwice'
  BY <1>1, <1>4, <1>5 DEF NoEventTwice, EventInHand
<1> QED
  BY <1>5, <1>6

LEMMA NothingMissingInitially ==
  ASSUME Init
  PROVE  NoEventTwice /\ \A r \in Requests : ~Missing(r)
<1>1. \A r \in Requests : InQueue(r) = {} /\ InHand(r) = {}
  BY DispatcherAssumption DEF Init, InQueue, InHand
<1> QED
  BY <1>1 DEF Init, NoEventTwice, EventInHand, Missing

(* Every unanswered request is in one place, every answered one in none.   *)
THEOREM RequestsConserved == Spec => []EachRequestOnce
<1>1. Init => EachRequestOnce
  BY NothingMissingInitially DEF EachRequestOnce
<1>2. WaitInv /\ EachRequestOnce /\ [Next]_vars => EachRequestOnce'
  <2> SUFFICES ASSUME WaitInv, EachRequestOnce, [Next]_vars PROVE EachRequestOnce'
    OBVIOUS
  <2>1. ASSUME NEW q \in Requests, Produce(q) PROVE EachRequestOnce'
    <3>1. InQueue(q) = {} /\ InHand(q) = {}
      BY <2>1 DEF Produce, EachRequestOnce, NoEventTwice
    <3> QED
      BY <2>1, <3>1, EnqueueAddsRequest DEF Produce, EachRequestOnce, WaitInv
  <2>2. CASE DispatcherStep \/ UNCHANGED vars
    BY <2>2, DispatcherLosesNone DEF EachRequestOnce, NoneLost, WaitInv
  <2> QED
    BY <2>1, <2>2 DEF Next
<1> QED
  BY <1>1, <1>2, WaitInvariance, PTL DEF Spec

-----------------------------------------------------------------------------
(* Why the process goes down *)

(* A worker is left with an event that cannot be decoded. *)
FatalEvent == \E w \in Workers : wpc[w] = "handle" /\ event[w] \in Undecodable

(* The dispatcher brings the process down in no other way. *)
LEMMA DispatcherAborts ==
  ASSUME DispatcherStep \/ UNCHANGED vars
  PROVE  \/ UNCHANGED <<terminated, workerVars>>
         \/ ~terminated /\ UNCHANGED terminated
         \/ terminated' /\ FatalEvent'
<1>1. ASSUME NEW w \in Workers, ~terminated, WorkerStep(w) \/ wait_spurious(w)
      PROVE  UNCHANGED terminated \/ (terminated' /\ FatalEvent')
  <2>1. CASE handleUdpEvent(w) /\ event[w] \in Undecodable
    BY <2>1 DEF handleUdpEvent, workerVars, FatalEvent
  <2>2. CASE handleUdpEvent(w) /\ event[w] \notin Undecodable
    BY <2>2 DEF handleUdpEvent
  <2>3. CASE ~handleUdpEvent(w)
    BY <1>1, <2>3 DEF WorkerStep, worker_loop, try_dequeue, worker_lock,
                      wait_predicate, wait_block, worker_clear, wait_spurious
  <2> QED
    BY <2>1, <2>2, <2>3
<1>2. ASSUME notify_event_available \/ stop_exchange \/ stop_notify_all
      PROVE  UNCHANGED terminated
  BY <1>2 DEF notify_event_available, notify_set, notify_one, stop_exchange,
              stop_notify_all
<1>3. ASSUME Aborted \/ UNCHANGED vars PROVE UNCHANGED <<terminated, workerVars>>
  BY <1>3 DEF Aborted, vars
<1> QED
  BY <1>1, <1>2, <1>3 DEF DispatcherStep

(* The worker pool aborts only in from_bcd: nothing else a worker, its      *)
(* producer or the destructor does can end the process.                    *)
THEOREM OnlyUndecodableAborts == Spec => [](terminated => FatalEvent)
<1>1. Init => (terminated => FatalEvent)
  BY DEF Init
<1>2. (terminated => FatalEvent) /\ [Next]_vars => (terminated => FatalEvent)'
  <2> SUFFICES ASSUME terminated => FatalEvent, [Next]_vars, terminated'
               PROVE  FatalEvent'
    OBVIOUS
  <2>1. ASSUME NEW r \in Requests, ~terminated, Produce(r) PROVE FALSE
    BY <2>1 DEF Produce
  <2>2. CASE DispatcherStep \/ UNCHANGED vars
    BY <2>2, DispatcherAborts DEF FatalEvent, workerVars
  <2> QED
    BY <2>1, <2>2 DEF Next
<1> QED
  BY <1>1, <1>2, PTL DEF Spec

(* So if every datagram decodes, the workers never bring the process down. *)
THEOREM DecodableNeverAborts ==
  ASSUME Undecodable = {}
  PROVE  Spec => []NeverAborts
<1>1. (terminated => FatalEvent) => NeverAborts
  BY DEF FatalEvent, NeverAborts
<1> QED
  BY <1>1, OnlyUndecodableAborts, PTL
=============================================================================
