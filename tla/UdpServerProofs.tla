-------------------------- MODULE UdpServerProofs --------------------------
(***************************************************************************)
(* Proofs about the io thread in front of the worker pool.  The dispatcher's *)
(* part of the invariants is carried over by the action lemmas of           *)
(* EventDispatcherProofs.                                                  *)
(***************************************************************************)
EXTENDS UdpServer, EventDispatcherProofs

(* Steps of the io thread and of the network that leave the dispatcher's    *)
(* variables alone, but for the answer to a request.                       *)
LEMMA WaitInvUntouched ==
  ASSUME WaitInv, UNCHANGED <<queue, flagVars, holder, workerVars, ppc, dpc, faults>>,
         answer' \in [Requests -> Answers], terminated' \in BOOLEAN
  PROVE  WaitInv'
  BY DEF WaitInv, TypeOK, LockDiscipline, NoEventForgotten, WorkersStay,
         workerVars, flagVars

LEMMA UdpInvInitially == UdpInit => UdpInv
<1> SUFFICES ASSUME UdpInit PROVE UdpInv
  OBVIOUS
<1>1. WaitInv
  BY WaitInvInitially DEF UdpInit
<1>2. edge \in BOOLEAN
  BY DEF UdpInit
<1> QED
  BY <1>1, <1>2 DEF UdpInit, UdpInv, UdpTypeOK, WaitInv, NoDatagramStuck

LEMMA UdpInvStep == UdpInv /\ [UdpNext]_udpVars => UdpInv'
<1> SUFFICES ASSUME UdpInv, [UdpNext]_udpVars PROVE UdpInv'
  OBVIOUS
<1> USE DispatcherAssumption DEF vars, ioVars
<1>1. WaitInv /\ UdpTypeOK /\ TypeOK
  BY DEF UdpInv, WaitInv
<1>2. ASSUME NEW r \in Requests, arrive(r) PROVE UdpInv'
  <2>1. answer' \in [Requests -> Answers] /\ terminated' \in BOOLEAN
    BY <1>1, <1>2 DEF arrive, TypeOK, Answers
  <2>2. WaitInv'
    BY <1>1, <1>2, <2>1, WaitInvUntouched DEF arrive
  <2> QED
    BY <1>2, <2>2 DEF arrive, UdpInv, UdpTypeOK, WaitInv, NoDatagramStuck
<1>3. CASE start \/ epoll_loop \/ epoll_error
  <2>1. WaitInv'
    BY <1>1, <1>3, WaitInvUntouched DEF start, epoll_loop, epoll_error, TypeOK
  <2> QED
    BY <1>3, <2>1 DEF start, epoll_loop, epoll_error, UdpInv, UdpTypeOK, WaitInv,
                      NoDatagramStuck
<1>5. CASE recvfrom
  <2>1. WaitInv'
    BY <1>1, <1>5, WaitInvUntouched DEF recvfrom, TypeOK
  <2>2. CASE socket # <<>>
    <3>1. Head(socket) \in Requests /\ Tail(socket) \in Seq(Requests)
      BY <1>1, <2>2 DEF UdpTypeOK
    <3> QED
      BY <1>5, <2>1, <2>2, <3>1
         DEF recvfrom, UdpInv, UdpTypeOK, WaitInv, NoDatagramStuck
  <2>3. CASE socket = <<>>
    BY <1>5, <2>1, <2>3
       DEF recvfrom, UdpInv, UdpTypeOK, WaitInv, NoDatagramStuck
  <2> QED
    BY <2>2, <2>3
<1>6. CASE recv_error
  <2>1. WaitInv'
    BY <1>1, <1>6, WaitInvUntouched DEF recv_error, TypeOK
  <2> QED
    BY <1>6, <2>1 DEF recv_error, UdpInv, UdpTypeOK, WaitInv, NoDatagramStuck
<1>7. CASE enqueue_event
  <2>1. received \in Requests
    BY <1>7 DEF enqueue_event, UdpInv, UdpTypeOK
  <2>2. WaitInv'
    <3>1. CASE try_enqueue(received) /\ UNCHANGED answer
      BY <1>1, <1>7, <2>1, <3>1, EnqueueKeepsWaitInv DEF enqueue_event, TypeOK
    <3>2. CASE reject(received) /\ UNCHANGED <<queue, ppc>>
      <4>1. answer' \in [Requests -> Answers]
        BY <1>1, <3>2 DEF TypeOK, reject, send_response, Answers
      <4> QED
        BY <1>1, <1>7, <3>2, <4>1, WaitInvUntouched DEF enqueue_event, TypeOK
    <3> QED
      BY <1>7, <3>1, <3>2 DEF enqueue_event
  <2> QED
    BY <1>7, <2>2 DEF enqueue_event, AfterPacket, UdpInv, UdpTypeOK, WaitInv,
                      NoDatagramStuck
<1>8. CASE (DispatcherStep \/ UNCHANGED vars) /\ UNCHANGED ioVars
  <2>1. WaitInv'
    BY <1>1, <1>8, DispatcherKeepsWaitInv
  <2> QED
    BY <1>8, <2>1 DEF UdpInv, UdpTypeOK, WaitInv, NoDatagramStuck
<1> QED
  BY <1>2, <1>3, <1>5, <1>6, <1>7, <1>8
     DEF UdpNext, udpVars, process_incoming_packets

THEOREM UdpInvariance == UdpSpec => []UdpInv
<1> QED
  BY UdpInvInitially, UdpInvStep, PTL DEF UdpSpec

(* Every variable of server, queue and workers keeps its type. *)
THEOREM UdpTypes == UdpSpec => []UdpTypeOK
<1>1. UdpInv => UdpTypeOK
  BY DEF UdpInv
<1> QED
  BY <1>1, UdpInvariance, PTL

(* No datagram is left behind in the receive buffer without an edge. *)
THEOREM DatagramsDrained == UdpSpec => []NoDatagramStuck
<1>1. UdpInv => NoDatagramStuck
  BY DEF UdpInv
<1> QED
  BY <1>1, UdpInvariance, PTL

(* Nor is an event left behind in the queue, behind this producer. *)
THEOREM UdpEventsRemembered == UdpSpec => []NoEventForgotten
<1>1. UdpInv => NoEventForgotten
  BY DEF UdpInv, WaitInv
<1> QED
  BY <1>1, UdpInvariance, PTL

(* Two workers lose no wakeup to the io thread, although it notifies them   *)
(* without holding notify_mutex_.                                          *)
THEOREM UdpTwoWorkersStayAwake ==
  ASSUME TwoWorkers
  PROVE  UdpSpec => []NeverAllAsleep
<1>1. UdpInit => NeverAllAsleep
  BY DEF UdpInit, Init, NeverAllAsleep
<1>2. UdpInv /\ NeverAllAsleep /\ [UdpNext]_udpVars => NeverAllAsleep'
  <2> SUFFICES ASSUME UdpInv, NeverAllAsleep, [UdpNext]_udpVars
               PROVE  NeverAllAsleep'
    OBVIOUS
  <2>1. ASSUME ~DispatcherStep, ~UNCHANGED vars PROVE NeverAllAsleep'
    <3>1. UNCHANGED wpc /\ (ppc' = "set" \/ UNCHANGED <<queue, ppc>>)
      BY <2>1 DEF UdpNext, udpVars, arrive, start, epoll_loop, epoll_error,
                  process_incoming_packets, recvfrom, recv_error,
                  enqueue_event, try_enqueue, workerVars
    <3> QED
      BY <3>1 DEF NeverAllAsleep
  <2> QED
    BY <2>1, DispatcherStaysAwake DEF UdpInv
<1> QED
  BY <1>1, <1>2, UdpInvariance, PTL DEF UdpSpec

-----------------------------------------------------------------------------
(* Where each datagram is *)

(* What a step of the io thread or of the network leaves in the dispatcher. *)
LEMMA RequestsElsewhere ==
  ASSUME NoEventTwice, UNCHANGED <<queue, workerVars>>, NEW q \in Requests,
         InQueue(q) = {}, InHand(q) = {},
         \A r \in Requests \ {q} : answer'[r] = answer[r]
  PROVE  /\ NoEventTwice'
         /\ \A r \in Requests \ {q} : Missing(r)' <=> Missing(r)
         /\ Missing(q)' <=> answer'[q] = "pending"
  BY DEF NoEventTwice, EventInHand, InQueue, InHand, Missing, workerVars

(* A datagram is missing from the dispatcher exactly while the network's    *)
(* side has it, and then it is there once.                                 *)
LEMMA DatagramStep ==
  UdpInv /\ EachDatagramOnce /\ [UdpNext]_udpVars => EachDatagramOnce'
<1> SUFFICES ASSUME UdpInv, EachDatagramOnce, [UdpNext]_udpVars
             PROVE  EachDatagramOnce'
  OBVIOUS
<1> USE DispatcherAssumption
<1>1. TypeOK /\ UdpTypeOK /\ NoEventTwice
  BY DEF UdpInv, WaitInv, EachDatagramOnce
<1>2. ASSUME NEW q \in Requests, arrive(q) PROVE EachDatagramOnce'
  <2>1. InQueue(q) = {} /\ InHand(q) = {} /\ ~Missing(q)
    BY <1>1, <1>2 DEF arrive, NoEventTwice, Missing
  <2>2. /\ answer'[q] = "pending"
        /\ \A r \in Requests \ {q} : answer'[r] = answer[r]
        /\ UNCHANGED <<queue, workerVars, received>>
        /\ socket' = Append(socket, q)
    BY <1>1, <1>2 DEF arrive, TypeOK
  <2>3. /\ NoEventTwice'
        /\ \A r \in Requests \ {q} : Missing(r)' <=> Missing(r)
        /\ Missing(q)'
    BY <1>1, <2>1, <2>2, RequestsElsewhere
  <2>4. /\ Len(socket') = Len(socket) + 1 /\ Len(socket) \in Nat
        /\ socket'[Len(socket) + 1] = q
        /\ \A k \in 1 .. Len(socket) : socket'[k] = socket[k]
    BY <1>1, <2>2 DEF UdpTypeOK
  <2>5. received # q /\ \A k \in 1 .. Len(socket) : socket[k] # q
    BY <2>1 DEF EachDatagramOnce, InSocket
  <2>6. ASSUME NEW j \in 1 .. Len(socket'), NEW k \in 1 .. Len(socket'),
               socket'[j] = socket'[k]
        PROVE  j = k
    <3>1. /\ j \in 1 .. Len(socket) \/ j = Len(socket) + 1
          /\ k \in 1 .. Len(socket) \/ k = Len(socket) + 1
      BY <2>4
    <3>2. CASE j \in 1 .. Len(socket) /\ k \in 1 .. Len(socket)
      BY <2>4, <2>6, <3>2 DEF EachDatagramOnce
    <3> QED
      BY <2>4, <2>5, <2>6, <3>1, <3>2
  <2>7. Len(socket) + 1 \in InSocket(q)'
    BY <2>4 DEF InSocket
  <2>8. \A r \in Requests \ {q} : InSocket(r)' = InSocket(r)
    BY <2>4 DEF InSocket
  <2> QED
    BY <2>2, <2>3, <2>5, <2>6, <2>7, <2>8 DEF EachDatagramOnce
<1>3. CASE start \/ epoll_loop \/ epoll_error \/ recv_error
  <2>1. UNCHANGED <<queue, workerVars, answer, socket, received>>
    BY <1>3 DEF start, epoll_loop, epoll_error, recv_error, vars, ioVars
  <2> QED
    BY <2>1 DEF EachDatagramOnce, InSocket, Missing, NoEventTwice, EventInHand,
                InQueue, InHand, workerVars
<1>4. CASE recvfrom
  <2>1. UNCHANGED <<queue, workerVars, answer>>
    BY <1>4 DEF recvfrom, vars
  <2>2. NoEventTwice' /\ \A r \in Requests : Missing(r)' <=> Missing(r)
    BY <1>1, <2>1 DEF NoEventTwice, EventInHand, InQueue, InHand, Missing, workerVars
  <2>3. CASE socket = <<>>
    BY <1>4, <2>2, <2>3 DEF recvfrom, EachDatagramOnce, InSocket
  <2>4. CASE socket # <<>>
    <3>0. PICK q : q = Head(socket)
      OBVIOUS
    <3>1. received = NoRequest /\ received' = q /\ socket' = Tail(socket)
      BY <1>4, <2>4, <3>0 DEF recvfrom, UdpInv
    <3>2. /\ q = socket[1] /\ q \in Requests
          /\ 1 \in 1 .. Len(socket)
          /\ Len(socket) \in Nat /\ Len(socket') \in Nat
          /\ \A k \in 1 .. Len(socket') :
               k + 1 \in 1 .. Len(socket) /\ socket'[k] = socket[k + 1]
          /\ \A k \in 1 .. Len(socket) : k # 1 => k - 1 \in 1 .. Len(socket')
      BY <1>1, <2>4, <3>0, <3>1 DEF UdpTypeOK
    <3>3. ASSUME NEW j \in 1 .. Len(socket'), NEW k \in 1 .. Len(socket'),
                 socket'[j] = socket'[k]
          PROVE  j = k
      <4>1. j + 1 = k + 1
        BY <3>2, <3>3 DEF EachDatagramOnce
      <4> QED
        BY <4>1
    <3>4. InSocket(q)' = {} /\ 1 \in InSocket(q)
      <4>1. \A k \in 1 .. Len(socket') : k + 1 # 1
        OBVIOUS
      <4> QED
        BY <3>2, <4>1 DEF EachDatagramOnce, InSocket
    <3>5. ASSUME NEW r \in Requests, r # q
          PROVE  InSocket(r)' # {} <=> InSocket(r) # {}
      <4>1. ASSUME NEW k \in InSocket(r)' PROVE k + 1 \in InSocket(r)
        BY <3>2, <4>1 DEF InSocket
      <4>2. ASSUME NEW k \in InSocket(r) PROVE k - 1 \in InSocket(r)'
        <5>1. k # 1
          BY <3>1, <3>2, <3>5, <4>2 DEF InSocket
        <5>2. k - 1 \in 1 .. Len(socket')
          BY <3>2, <5>1, <4>2 DEF InSocket
        <5>3. socket'[k - 1] = socket[k]
          BY <3>2, <5>2, <4>2 DEF InSocket
        <5> QED
          BY <5>2, <5>3, <4>2 DEF InSocket
      <4> QED
        BY <4>1, <4>2
    <3>6. ASSUME NEW r \in Requests
          PROVE  /\ received' = r => InSocket(r)' = {}
                 /\ Missing(r)' <=> InSocket(r)' # {} \/ received' = r
      <4>1. CASE r = q
        BY <2>2, <3>1, <3>4, <4>1 DEF EachDatagramOnce
      <4>2. CASE r # q
        BY <2>2, <3>1, <3>5, <4>2 DEF EachDatagramOnce
      <4> QED
        BY <4>1, <4>2
    <3> QED
      BY <2>2, <3>3, <3>6 DEF EachDatagramOnce
  <2> QED
    BY <2>3, <2>4
<1>5. CASE enqueue_event
  <2>1. received \in Requests
    BY <1>5 DEF enqueue_event, UdpInv, UdpTypeOK
  <2>2. UNCHANGED <<workerVars, socket>> /\ received' = NoRequest
    BY <1>5 DEF enqueue_event
  <2>3. Missing(received) /\ InSocket(received) = {}
    BY <2>1 DEF EachDatagramOnce
  <2>4. /\ NoEventTwice'
        /\ \A r \in Requests : Missing(r)' <=> Missing(r) /\ r # received
    <3>1. CASE try_enqueue(received) /\ UNCHANGED answer
      <4>1. answer' = [answer EXCEPT ![received] = "pending"]
        BY <1>1, <2>1, <2>3, <3>1 DEF Missing, TypeOK
      <4> QED
        BY <1>1, <2>1, <2>2, <2>3, <3>1, <4>1, EnqueueAddsRequest DEF Missing
    <3>2. CASE reject(received) /\ UNCHANGED <<queue, ppc>>
      <4>1. /\ answer'[received] # "pending"
            /\ \A r \in Requests \ {received} : answer'[r] = answer[r]
        BY <1>1, <2>1, <3>2 DEF reject, send_response, TypeOK
      <4> QED
        BY <1>1, <2>1, <2>2, <2>3, <3>2, <4>1, RequestsElsewhere DEF Missing
    <3> QED
      BY <1>5, <3>1, <3>2 DEF enqueue_event
  <2>5. \A r \in Requests : InSocket(r)' = InSocket(r)
    BY <2>2 DEF InSocket
  <2> QED
    BY <2>1, <2>2, <2>3, <2>4, <2>5 DEF EachDatagramOnce
<1>6. CASE (DispatcherStep \/ UNCHANGED vars) /\ UNCHANGED ioVars
  <2>1. NoEventTwice' /\ \A r \in Requests : Missing(r)' <=> Missing(r)
    BY <1>1, <1>6, DispatcherLosesNone DEF NoneLost
  <2> QED
    BY <1>6, <2>1 DEF EachDatagramOnce, InSocket, ioVars
<1> QED
  BY <1>2, <1>3, <1>4, <1>5, <1>6 DEF UdpNext, udpVars, process_incoming_packets

(* Every datagram that is not answered is in exactly one place on its way   *)
(* through the three threads, and an answered one in none.                 *)
THEOREM DatagramsConserved == UdpSpec => []EachDatagramOnce
<1>1. UdpInit => EachDatagramOnce
  <2> SUFFICES ASSUME UdpInit PROVE EachDatagramOnce
    OBVIOUS
  <2>1. NoEventTwice /\ \A r \in Requests : ~Missing(r)
    BY NothingMissingInitially DEF UdpInit
  <2> QED
    BY <2>1, DispatcherAssumption DEF UdpInit, EachDatagramOnce, InSocket
<1> QED
  BY <1>1, DatagramStep, UdpInvariance, PTL DEF UdpSpec

-----------------------------------------------------------------------------
(* What the clients see *)

(* A worker answers the client of the event in its hand, who is waiting, or *)
(* brings the process down with an event that cannot be decoded.            *)
LEMMA WorkerServes ==
  ASSUME TypeOK, NoEventTwice, ~terminated, NEW w \in Workers, handleUdpEvent(w)
  PROVE  Service!Next
<1> USE DEF Service!Next, Service!Waiting
<1>1. event[w] \in Service!Waiting /\ event[w] \in Requests
  <2>1. event[w] \in Requests
    BY DEF handleUdpEvent, NoEventTwice, EventInHand, TypeOK
  <2>2. w \in InHand(event[w])
    BY DEF InHand
  <2> QED
    BY <2>1, <2>2 DEF NoEventTwice
<1>2. CASE event[w] \in Undecodable
  BY <1>1, <1>2 DEF handleUdpEvent, Service!GoDown
<1>3. CASE event[w] \notin Undecodable
  <2>1. PICK a \in {response(event[w]), "nothing"} :
          /\ a = "nothing" => "sendto" \in faults
          /\ answer' = [answer EXCEPT ![event[w]] = a]
          /\ UNCHANGED <<faults, terminated>>
    BY <1>3 DEF handleUdpEvent, send_response, response
  <2>2. CASE a = "nothing"
    BY <1>1, <2>1, <2>2 DEF Service!Lose, Service!Give
  <2>3. CASE a # "nothing" /\ event[w] \in Blacklisted
    BY <1>1, <2>1, <2>3 DEF response, Service!TurnAway, Service!Give
  <2>4. CASE a # "nothing" /\ event[w] \notin Blacklisted
    BY <1>1, <1>3, <2>1, <2>4 DEF response, Service!Admit, Service!Give
  <2> QED
    BY <2>2, <2>3, <2>4
<1> QED
  BY <1>2, <1>3

(* Nothing else the dispatcher does is seen. *)
LEMMA DispatcherServes ==
  ASSUME TypeOK, NoEventTwice, DispatcherStep \/ UNCHANGED vars
  PROVE  [Service!Next]_(Service!vars)
<1>1. ASSUME NEW w \in Workers, ~terminated, handleUdpEvent(w)
      PROVE  Service!Next
  BY <1>1, WorkerServes
<1>2. ASSUME NEW w \in Workers,
             (WorkerStep(w) /\ ~handleUdpEvent(w)) \/ wait_spurious(w)
      PROVE  UNCHANGED <<answer, faults, terminated>>
  BY <1>2 DEF WorkerStep, worker_loop, try_dequeue, worker_lock, wait_predicate,
              wait_block, worker_clear, wait_spurious
<1>3. ASSUME notify_event_available \/ stop_exchange \/ stop_notify_all
      PROVE  UNCHANGED <<answer, faults, terminated>>
  BY <1>3 DEF notify_event_available, notify_set, notify_one, stop_exchange,
              stop_notify_all
<1>4. ASSUME Aborted \/ UNCHANGED vars PROVE UNCHANGED <<answer, faults, terminated>>
  BY <1>4 DEF Aborted, vars
<1> QED
  BY <1>1, <1>2, <1>3, <1>4 DEF DispatcherStep, Service!vars

(* The io thread turns a client away only while the queue holds Capacity    *)
(* events, none of them this client's and each of a client of its own.      *)
LEMMA FullQueueCrowds ==
  ASSUME UdpInv, EachDatagramOnce, received \in Requests, Len(queue) >= Capacity
  PROVE  Service!Crowded(received) /\ received \in Service!Waiting
<1>1. TypeOK /\ NoEventTwice /\ Missing(received)
  BY DEF UdpInv, WaitInv, EachDatagramOnce
<1>2. ASSUME NEW k \in 1 .. Capacity
      PROVE  /\ k \in 1 .. Len(queue)
             /\ queue[k] \in Service!Waiting \ {received}
  <2>1. k \in 1 .. Len(queue) /\ queue[k] \in Requests
    BY <1>1, DispatcherAssumption DEF TypeOK
  <2>2. k \in InQueue(queue[k])
    BY <2>1 DEF InQueue
  <2> QED
    BY <1>1, <2>1, <2>2 DEF NoEventTwice, Missing, Service!Waiting
<1> DEFINE others == [k \in 1 .. Capacity |-> queue[k]]
<1>3. others \in [1 .. Capacity -> Service!Waiting \ {received}]
  BY <1>2
<1>4. \A j, k \in 1 .. Capacity : others[j] = others[k] => j = k
  BY <1>1, <1>2 DEF NoEventTwice
<1>5. received \in Service!Waiting
  BY <1>1 DEF Missing, Service!Waiting
<1> HIDE DEF others
<1> QED
  BY <1>3, <1>4, <1>5 DEF Service!Crowded

(* Every step of server and dispatcher is one of the service, or unseen. *)
LEMMA ServiceStep ==
  ASSUME UdpInv, EachDatagramOnce, [UdpNext]_udpVars
  PROVE  [Service!Next]_(Service!vars)
<1>1. TypeOK /\ NoEventTwice
  BY DEF UdpInv, WaitInv, EachDatagramOnce
<1>2. ASSUME NEW r \in Requests, ~terminated, arrive(r) PROVE Service!Next
  BY <1>2 DEF arrive, Service!Next, Service!Ask, Service!Waiting
<1>3. ASSUME start \/ epoll_loop \/ epoll_error \/ recvfrom
      PROVE  UNCHANGED <<answer, faults, terminated>>
  BY <1>3 DEF start, epoll_loop, epoll_error, recvfrom, vars
<1>4. ASSUME ~terminated, recv_error PROVE Service!Next
  BY <1>4 DEF recv_error, Service!Next, Service!GoDown
<1>5. ASSUME ~terminated, enqueue_event, answer' # answer PROVE Service!Next
  <2>1. received \in Requests /\ Len(queue) >= Capacity /\ reject(received)
        /\ UNCHANGED <<faults, terminated>>
    BY <1>5 DEF enqueue_event, UdpInv, UdpTypeOK
  <2>2. Service!Crowded(received) /\ received \in Service!Waiting
    BY <2>1, FullQueueCrowds
  <2>3. PICK a \in {"rejected", "nothing"} :
          /\ a = "nothing" => "sendto" \in faults
          /\ answer' = [answer EXCEPT ![received] = a]
    BY <2>1 DEF reject, send_response
  <2>4. CASE a = "nothing"
    BY <1>5, <2>1, <2>2, <2>3, <2>4 DEF Service!Next, Service!Lose, Service!Give
  <2>5. CASE a = "rejected"
    BY <1>5, <2>1, <2>2, <2>3, <2>5 DEF Service!Next, Service!TurnAway, Service!Give
  <2> QED
    BY <2>4, <2>5
<1>6. ASSUME enqueue_event PROVE UNCHANGED <<faults, terminated>>
  BY <1>6 DEF enqueue_event
<1>7. CASE (DispatcherStep \/ UNCHANGED vars) /\ UNCHANGED ioVars
  BY <1>1, <1>7, DispatcherServes
<1> QED
  BY <1>2, <1>3, <1>4, <1>5, <1>6, <1>7
     DEF UdpNext, udpVars, process_incoming_packets, Service!vars

(* Receive buffer, io thread, queue and workers together are the request    *)
(* service the clients were promised, for any number of workers and         *)
(* requests and any capacities.                                            *)
THEOREM ServiceImplemented == UdpSpec => ImplementsService
<1>1. UdpInit => Service!Init
  BY DEF UdpInit, Init, Service!Init
<1>2. UdpInv /\ EachDatagramOnce /\ [UdpNext]_udpVars
        => [Service!Next]_(Service!vars)
  BY ServiceStep
<1> QED
  BY <1>1, <1>2, UdpInvariance, DatagramsConserved, PTL
     DEF UdpSpec, ImplementsService, Service!Spec

-----------------------------------------------------------------------------
(* What the clients can rely on follows from RequestService alone; the      *)
(* server inherits it.                                                     *)

NeverAdmitted == \A r \in Blacklisted \cup Undecodable : answer[r] # "created"

(* Nobody on the blacklist, and nobody whose datagram does not decode, is   *)
(* ever told that a session was created.                                   *)
THEOREM BarredNeverAdmitted == UdpSpec => []NeverAdmitted
<1> USE DispatcherAssumption DEF NeverAdmitted
<1>1. Service!Init => NeverAdmitted
  BY DEF Service!Init
<1>2. UdpInv /\ NeverAdmitted /\ [Service!Next]_(Service!vars) => NeverAdmitted'
  <2> SUFFICES ASSUME UdpInv, NeverAdmitted, [Service!Next]_(Service!vars),
                      NEW q \in Blacklisted \cup Undecodable
               PROVE  answer'[q] # "created"
    OBVIOUS
  <2>1. answer \in [Requests -> Answers] /\ q \in Requests
    BY DEF UdpInv, UdpTypeOK, TypeOK
  <2>2. ASSUME NEW r \in Requests, Service!Admit(r) PROVE answer'[q] # "created"
    BY <2>1, <2>2 DEF Service!Admit, Service!Give
  <2>3. ASSUME NEW r \in Requests, Service!Ask(r) \/ Service!TurnAway(r) \/ Service!Lose(r)
        PROVE  answer'[q] # "created"
    BY <2>1, <2>3 DEF Service!Ask, Service!TurnAway, Service!Lose, Service!Give
  <2>4. CASE Service!GoDown \/ UNCHANGED Service!vars
    BY <2>4 DEF Service!GoDown, Service!vars
  <2> QED
    BY <2>2, <2>3, <2>4 DEF Service!Next
<1> QED
  BY <1>1, <1>2, ServiceImplemented, UdpInvariance, PTL
     DEF ImplementsService, Service!Spec

TurnedAwayUnderLoad ==
  \A r \in Requests \ Blacklisted :
    answer[r] = "pending" /\ answer'[r] = "rejected" => Service!Crowded(r)

(* Anybody else is turned away only at a moment when Capacity other clients *)
(* are waiting, although the io thread and the workers both answer and the  *)
(* queue is emptied while it looks.                                        *)
THEOREM OverloadIsReal == UdpSpec => [][TurnedAwayUnderLoad]_(Service!vars)
<1>1. UdpInv /\ [Service!Next]_(Service!vars)
        => [TurnedAwayUnderLoad]_(Service!vars)
  <2> SUFFICES ASSUME UdpInv, Service!Next, NEW q \in Requests \ Blacklisted,
                      answer[q] = "pending", answer'[q] = "rejected"
               PROVE  Service!Crowded(q)
    BY DEF TurnedAwayUnderLoad
  <2>1. answer \in [Requests -> Answers]
    BY DEF UdpInv, UdpTypeOK, TypeOK
  <2>2. ASSUME NEW r \in Requests, Service!TurnAway(r) PROVE Service!Crowded(q)
    <3>1. r = q
      BY <2>1, <2>2 DEF Service!TurnAway, Service!Give
    <3> QED
      BY <2>2, <3>1 DEF Service!TurnAway
  <2>3. ASSUME NEW r \in Requests, Service!Ask(r) \/ Service!Admit(r) \/ Service!Lose(r)
        PROVE  FALSE
    BY <2>1, <2>3 DEF Service!Ask, Service!Admit, Service!Lose, Service!Give
  <2>4. ASSUME Service!GoDown PROVE FALSE
    BY <2>4 DEF Service!GoDown
  <2> QED
    BY <2>2, <2>3, <2>4 DEF Service!Next
<1> QED
  BY <1>1, ServiceImplemented, UdpInvariance, PTL DEF ImplementsService, Service!Spec

(* Which system calls may fail is settled once and for all. *)
LEMMA FaultsFixed == [UdpNext]_udpVars => UNCHANGED faults
<1> SUFFICES ASSUME [UdpNext]_udpVars PROVE UNCHANGED faults
  OBVIOUS
<1>1. ASSUME NEW r \in Requests, arrive(r) PROVE UNCHANGED faults
  BY <1>1 DEF arrive
<1>2. CASE start \/ epoll_loop \/ epoll_error \/ process_incoming_packets
  BY <1>2 DEF start, epoll_loop, epoll_error, process_incoming_packets, recvfrom,
              recv_error, enqueue_event, vars
<1>3. ASSUME NEW w \in Workers, WorkerStep(w) \/ wait_spurious(w)
      PROVE  UNCHANGED faults
  BY <1>3 DEF WorkerStep, worker_loop, try_dequeue, handleUdpEvent, worker_lock,
              wait_predicate, wait_block, worker_clear, wait_spurious
<1>4. CASE notify_event_available \/ stop_exchange \/ stop_notify_all
  BY <1>4 DEF notify_event_available, notify_set, notify_one, stop_exchange,
              stop_notify_all
<1>5. CASE Aborted \/ UNCHANGED vars
  BY <1>5 DEF Aborted, vars
<1> QED
  BY <1>1, <1>2, <1>3, <1>4, <1>5 DEF UdpNext, DispatcherStep, udpVars

(* With the io thread in front there is one more way to end the process,    *)
(* an error of recvfrom.                                                    *)
THEOREM WhatAbortsTheServer ==
  UdpSpec => [](terminated => FatalEvent \/ "recvfrom" \in faults)
<1> DEFINE Cause == terminated => FatalEvent \/ "recvfrom" \in faults
<1>1. UdpInit => Cause
  BY DEF UdpInit, Init
<1>2. Cause /\ [UdpNext]_udpVars => Cause'
  <2> SUFFICES ASSUME Cause, [UdpNext]_udpVars, terminated',
                      "recvfrom" \notin faults
               PROVE  FatalEvent'
    BY FaultsFixed
  <2>1. ASSUME ~terminated, NEW r \in Requests, arrive(r) PROVE FALSE
    BY <2>1 DEF arrive
  <2>2. ASSUME ~terminated,
               start \/ epoll_loop \/ epoll_error \/ process_incoming_packets
        PROVE  FALSE
    BY <2>2 DEF start, epoll_loop, epoll_error, process_incoming_packets,
                recvfrom, recv_error, enqueue_event, vars
  <2>3. CASE DispatcherStep \/ UNCHANGED vars
    BY <2>3, DispatcherAborts DEF FatalEvent, workerVars
  <2> QED
    BY <2>1, <2>2, <2>3 DEF UdpNext, udpVars
<1> QED
  BY <1>1, <1>2, PTL DEF UdpSpec

(* The dispatcher's destructor hangs behind the io thread, too. *)
THEOREM UdpStopNeverReturns ==
  ASSUME Workers # {}
  PROVE  UdpSpec => []~StopReturned
<1>1. UdpInv => ~StopReturned
  BY DEF UdpInv, WaitInv, WorkersStay, StopReturned
<1> QED
  BY <1>1, UdpInvariance, PTL
=============================================================================
