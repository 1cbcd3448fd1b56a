-------------------------- MODULE UdpClientProofs --------------------------
(***************************************************************************)
(* Which reply a call of the client takes, for every number of requests.    *)
(***************************************************************************)
EXTENDS UdpClient, TLAPS

USE DEF NoReply, signalVars

(* The first packet of the buffer is a packet, and what remains is a        *)
(* buffer.                                                                 *)
LEMMA BufferHead ==
  ASSUME inbox \in Seq(Packet), inbox # <<>>
  PROVE  /\ Head(inbox) \in Packet
         /\ Head(inbox) = inbox[1]
         /\ Tail(inbox) \in Seq(Packet)
         /\ Len(Tail(inbox)) = Len(inbox) - 1
         /\ \A j \in 1 .. Len(Tail(inbox)) : Tail(inbox)[j] = inbox[j + 1]
  OBVIOUS

(* Taking the head leaves a buffer with each pending reply once, and        *)
(* without the one taken.                                                  *)
LEMMA TailPending ==
  ASSUME TypeOK, inbox # <<>>, PendingOnce, inbox' = Tail(inbox),
         UNCHANGED <<requests, replies>>
  PROVE  /\ PendingOnce'
         /\ Buffered' \subseteq Buffered
         /\ Head(inbox).of # NoReply =>
              /\ Head(inbox).of \in Buffered
              /\ Head(inbox).of \notin (requests \cup replies \cup Buffered)'
  <1>1. inbox \in Seq(Packet)
    BY DEF TypeOK
  <1>2. /\ Len(inbox') = Len(inbox) - 1
        /\ \A j \in 1 .. Len(inbox') : inbox'[j] = inbox[j + 1]
        /\ Head(inbox) = inbox[1]
        /\ Len(inbox) \in Nat \ {0}
    BY <1>1, BufferHead
  <1>3. Buffered' \subseteq Buffered
    <2>1. SUFFICES ASSUME NEW j \in 1 .. Len(inbox'), inbox'[j].of # NoReply
                   PROVE inbox'[j].of \in Buffered
      BY DEF Buffered
    <2>2. j + 1 \in 1 .. Len(inbox) /\ inbox'[j] = inbox[j + 1]
      BY <1>2, SMT
    <2> QED BY <2>1, <2>2 DEF Buffered
  <1>4. Head(inbox).of # NoReply => Head(inbox).of \in Buffered
    <2>1. 1 \in 1 .. Len(inbox)
      BY <1>2, SMT
    <2> QED BY <2>1, <1>2 DEF Buffered
  <1>5. Head(inbox).of # NoReply => Head(inbox).of \notin Buffered'
    <2>1. SUFFICES ASSUME NEW j \in 1 .. Len(inbox'), inbox'[j].of = inbox[1].of,
                          inbox[1].of # NoReply
                   PROVE FALSE
      BY <1>2 DEF Buffered
    <2>2. j + 1 \in 1 .. Len(inbox) /\ 1 \in 1 .. Len(inbox) /\ j + 1 # 1
      BY <1>2, SMT
    <2> QED BY <1>2, <2>1, <2>2 DEF PendingOnce
  <1>6. \A j, k \in 1 .. Len(inbox') :
          inbox'[j].of = inbox'[k].of /\ inbox'[j].of # NoReply => j = k
    <2>1. SUFFICES ASSUME NEW j \in 1 .. Len(inbox'), NEW k \in 1 .. Len(inbox'),
                          inbox'[j].of = inbox'[k].of, inbox'[j].of # NoReply
                   PROVE j = k
      OBVIOUS
    <2>2. j + 1 \in 1 .. Len(inbox) /\ k + 1 \in 1 .. Len(inbox)
      BY <1>2, SMT
    <2>3. j + 1 = k + 1
      BY <1>2, <2>1, <2>2 DEF PendingOnce
    <2> QED BY <2>3, SMT
  <1>7. PendingOnce'
    BY <1>3, <1>6 DEF PendingOnce
  <1>8. Head(inbox).of # NoReply => Head(inbox).of \notin (requests \cup replies)'
    BY <1>4 DEF PendingOnce
  <1> QED BY <1>3, <1>4, <1>5, <1>7, <1>8

(* A packet at the end of the buffer. *)
LEMMA AppendPending ==
  ASSUME TypeOK, NEW p \in Packet, inbox' = Append(inbox, p)
  PROVE  /\ inbox' \in Seq(Packet) /\ inbox' # <<>>
         /\ Buffered' = Buffered \cup ({p.of} \ {NoReply})
         /\ (\A j, k \in 1 .. Len(inbox) :
                inbox[j].of = inbox[k].of /\ inbox[j].of # NoReply => j = k)
            /\ p.of \notin Buffered
              => \A j, k \in 1 .. Len(inbox') :
                   inbox'[j].of = inbox'[k].of /\ inbox'[j].of # NoReply => j = k
  <1>1. inbox \in Seq(Packet)
    BY DEF TypeOK
  <1>2. /\ inbox' \in Seq(Packet) /\ inbox' # <<>>
        /\ Len(inbox') = Len(inbox) + 1
        /\ Len(inbox) \in Nat
        /\ \A j \in 1 .. Len(inbox) : inbox'[j] = inbox[j]
        /\ inbox'[Len(inbox) + 1] = p
    BY <1>1
  <1>3. 1 .. Len(inbox') = 1 .. Len(inbox) \cup {Len(inbox) + 1}
    BY <1>2, SMT
  <1>4. Buffered' = Buffered \cup ({p.of} \ {NoReply})
    <2>1. \A q : q \in Buffered' <=>
            q # NoReply /\ \E j \in 1 .. Len(inbox') : inbox'[j].of = q
      BY DEF Buffered
    <2>2. \A q : q \in Buffered <=>
            q # NoReply /\ \E j \in 1 .. Len(inbox) : inbox[j].of = q
      BY DEF Buffered
    <2>3. \A q : (\E j \in 1 .. Len(inbox') : inbox'[j].of = q)
                  <=> (\E j \in 1 .. Len(inbox) : inbox[j].of = q) \/ p.of = q
      BY <1>2, <1>3
    <2> QED BY <2>1, <2>2, <2>3, Zenon
  <1>5. ASSUME \A j, k \in 1 .. Len(inbox) :
                 inbox[j].of = inbox[k].of /\ inbox[j].of # NoReply => j = k,
               p.of \notin Buffered,
               NEW j \in 1 .. Len(inbox'), NEW k \in 1 .. Len(inbox'),
               inbox'[j].of = inbox'[k].of, inbox'[j].of # NoReply
        PROVE  j = k
    <2>1. \A m \in 1 .. Len(inbox) : inbox[m].of = p.of => p.of = NoReply
      BY <1>5 DEF Buffered
    <2> QED BY <1>2, <1>3, <1>5, <2>1
  <1> QED BY <1>2, <1>4, <1>5

-----------------------------------------------------------------------------
(* What a call's end leaves alone. *)
LEMMA FinishEffect ==
  ASSUME TypeOK, NEW r \in SendResult, finish(r)
  PROVE  /\ UNCHANGED <<args, n, signalVars, duplicated>>
         /\ total' \in Nat /\ success' \in Nat
         /\ exit_code' \in {0, 1, 2}
         /\ pc' \in {"report", "closing"}
  BY DEF TypeOK, finish, args

(* Steps that neither take nor add a reply nor send a request. *)
LEMMA RepliesUntouched ==
  ASSUME ClientInv, TypeOK', UNCHANGED <<n, inbox, taken, duplicated>>,
         requests' \subseteq requests, replies' \subseteq replies,
         \/ pc' \in {"report", "closing", "sleep", "exited", "deadlocked",
                    "loop", "receive"}
         \/ pc' = pc,
         pc' = "receive" => inbox # <<>> /\ (pc = "select" \/ pc = "receive")
  PROVE  ClientInv'
  <1>1. Buffered' = Buffered
    BY DEF Buffered
  <1>2. ~duplicated' => PendingOnce'
    BY <1>1 DEF ClientInv, PendingOnce
  <1>3. ~duplicated' => PendingUntaken'
    BY <1>1 DEF ClientInv, PendingUntaken
  <1>4. FreshUntilGap' /\ NoReplyTakenTwice'
    BY DEF ClientInv, FreshUntilGap, NoReplyTakenTwice, NoGapBefore
  <1> QED BY <1>2, <1>3, <1>4 DEF ClientInv

LEMMA InvInitially == Init => ClientInv
  <1> SUFFICES ASSUME Init PROVE ClientInv
    OBVIOUS
  <1>1. TypeOK
    <2>1. imsi_ok \in BOOLEAN /\ mode \in {"single", "periodic"}
      BY Zenon DEF Init
    <2>2. n \in 0 .. MaxRequests
      BY ClientAssumption DEF Init
    <2>3. inbox \in Seq(Packet) /\ taken \in [Ids -> Ids \cup {NoReply}]
      BY DEF Init
    <2> QED BY <2>1, <2>2, <2>3 DEF Init, TypeOK
  <1>2. Buffered = {}
    BY DEF Init, Buffered
  <1>3. PendingOnce /\ PendingUntaken
    BY <1>2 DEF Init, PendingOnce, PendingUntaken
  <1> QED BY <1>1, <1>3 DEF Init, ClientInv, FreshUntilGap, NoReplyTakenTwice, Ids

(* A new call: its number is not that of any reply under way. *)
LEMMA MainLoopStep == ClientInv /\ main_loop => ClientInv'
  <1> SUFFICES ASSUME ClientInv, main_loop PROVE ClientInv'
    OBVIOUS
  <1>1. TypeOK'
    <2>1. n \in 0 .. MaxRequests /\ MaxRequests \in Nat
      BY ClientAssumption DEF ClientInv, TypeOK
    <2>2. n' \in 0 .. MaxRequests
      BY <2>1 DEF main_loop
    <2> QED BY <2>2 DEF ClientInv, TypeOK, main_loop, args, mainVars, netVars
  <1>2. CASE pc' = "closing"
    <2>1. UNCHANGED n
      BY <1>2 DEF main_loop
    <2> QED BY <1>1, <1>2, <2>1, RepliesUntouched DEF main_loop, netVars
  <1>3. CASE pc' = "send"
    <2>1. n' = n + 1 /\ n < MaxRequests
      BY <1>3 DEF main_loop
    <2>2. n \in Nat /\ MaxRequests \in Nat
      BY ClientAssumption DEF ClientInv, TypeOK
    <2>3. n' \in Ids /\ taken[n'] = NoReply
      BY <2>1, <2>2 DEF ClientInv, Ids
    <2>4. UNCHANGED <<inbox, taken, duplicated, requests, replies>>
      BY DEF main_loop, netVars
    <2>5. Buffered' = Buffered
      BY <2>4 DEF Buffered
    <2>6. ~duplicated' => PendingOnce'
      BY <2>4, <2>5 DEF ClientInv, PendingOnce
    <2>7. ~duplicated' => PendingUntaken'
      BY <2>1, <2>2, <2>4, <2>5, <1>3 DEF ClientInv, PendingUntaken
    <2>8. FreshUntilGap' /\ NoReplyTakenTwice'
      BY <2>4 DEF ClientInv, FreshUntilGap, NoReplyTakenTwice, NoGapBefore
    <2>9. /\ \A m \in Ids : m > n' => taken'[m] = NoReply
          /\ ~duplicated' => \A m \in Ids : taken'[m] <= m
      BY <2>1, <2>2, <2>4 DEF ClientInv, Ids, TypeOK
    <2> QED BY <1>1, <1>3, <2>3, <2>4, <2>6, <2>7, <2>8, <2>9 DEF ClientInv
  <1> QED BY <1>2, <1>3 DEF main_loop

(* Sending puts the number of the current call under way, for the first    *)
(* time.                                                                   *)
LEMMA SendStep == ClientInv /\ send => ClientInv'
  <1> SUFFICES ASSUME ClientInv, send PROVE ClientInv'
    OBVIOUS
  <1>1. CASE ~imsi_ok
    <2>1. finish("INVALID_RESPONSE") /\ UNCHANGED <<requests, replies, inbox, taken>>
      BY <1>1 DEF send
    <2>2. TypeOK'
      BY <2>1, FinishEffect DEF ClientInv, TypeOK, SendResult, args
    <2> QED BY <2>1, <2>2, FinishEffect, RepliesUntouched DEF ClientInv, SendResult
  <1>2. CASE imsi_ok
    <2>1. /\ pc = "send" /\ pc' = "select"
          /\ requests' = requests \cup {n}
          /\ UNCHANGED <<args, mainVars, n, taken, signalVars, replies,
                         inbox, duplicated>>
      BY <1>2 DEF send
    <2>2. n \in Ids /\ taken[n] = NoReply
      BY <2>1 DEF ClientInv
    <2>3. TypeOK'
      BY <2>1, <2>2 DEF ClientInv, TypeOK, args, mainVars
    <2>4. Buffered' = Buffered
      BY <2>1 DEF Buffered
    <2>5. ~duplicated' => PendingOnce'
      BY <2>1, <2>4 DEF ClientInv, PendingOnce, PendingUntaken
    <2>6. ~duplicated => \A m \in Ids : taken[m] # n
      BY <2>2 DEF ClientInv, Ids
    <2>7. ~duplicated' => PendingUntaken'
      BY <2>1, <2>2, <2>4, <2>6 DEF ClientInv, PendingUntaken, Ids
    <2>8. FreshUntilGap' /\ NoReplyTakenTwice'
      BY <2>1 DEF ClientInv, FreshUntilGap, NoReplyTakenTwice, NoGapBefore
    <2> QED BY <2>1, <2>2, <2>3, <2>5, <2>7, <2>8 DEF ClientInv
  <1> QED BY <1>1, <1>2

(* Taking the first packet of the buffer. *)
LEMMA ReceiveStep == ClientInv /\ receive_response => ClientInv'
  <1> SUFFICES ASSUME ClientInv, receive_response PROVE ClientInv'
    OBVIOUS
  <1> DEFINE k == Head(inbox).of
  <1>1. /\ pc = "receive" /\ inbox # <<>>
        /\ n \in Ids /\ taken[n] = NoReply
        /\ TypeOK
    BY DEF ClientInv, receive_response
  <1>2. /\ inbox' = Tail(inbox)
        /\ taken' = [taken EXCEPT ![n] = k]
        /\ UNCHANGED <<requests, replies>>
    BY DEF receive_response, LeftOver
  <1>3. PICK r \in SendResult : finish(r)
    BY DEF receive_response, SendResult
  <1>4. /\ UNCHANGED <<args, n, signalVars, duplicated>>
        /\ total' \in Nat /\ success' \in Nat
        /\ exit_code' \in {0, 1, 2}
        /\ pc' \in {"report", "closing"}
    BY <1>1, <1>3, FinishEffect
  <1>5. Head(inbox) \in Packet /\ Tail(inbox) \in Seq(Packet)
    BY <1>1, BufferHead DEF TypeOK
  <1>6. k \in Ids \cup {NoReply}
    BY <1>5 DEF Packet
  <1>7. taken' \in [Ids -> Ids \cup {NoReply}]
    BY <1>1, <1>2, <1>6 DEF TypeOK
  <1>8. TypeOK'
    BY <1>1, <1>2, <1>4, <1>5, <1>7 DEF TypeOK, args
  <1>9. \A m \in Ids : taken'[m] = IF m = n THEN k ELSE taken[m]
    BY <1>1, <1>2 DEF TypeOK
  <1>10. \A m \in Ids : m > n' => taken'[m] = NoReply
    BY <1>1, <1>4, <1>9 DEF ClientInv, Ids
  <1>11. ASSUME ~duplicated
         PROVE  /\ PendingOnce'
                /\ Buffered' \subseteq Buffered
                /\ k # NoReply =>
                     /\ k \in Buffered
                     /\ k \notin (requests \cup replies \cup Buffered)'
    BY <1>1, <1>2, <1>11, TailPending DEF ClientInv
  <1>12. ASSUME ~duplicated
         PROVE  k # NoReply => k \in 1 .. n /\ \A m \in Ids : taken[m] # k
    BY <1>11, <1>12 DEF ClientInv, PendingUntaken
  <1>13. ~duplicated' => PendingUntaken'
    <2>1. SUFFICES ASSUME ~duplicated, NEW q \in (requests \cup replies \cup Buffered)'
                   PROVE  q \in 1 .. n /\ \A m \in Ids : taken'[m] # q
      BY <1>4 DEF PendingUntaken
    <2>2. q \in requests \cup replies \cup Buffered /\ q # k
      BY <1>1, <1>2, <1>8, <1>11, <2>1 DEF TypeOK, Ids, Buffered
    <2>3. q \in 1 .. n /\ \A m \in Ids : taken[m] # q
      BY <2>1, <2>2 DEF ClientInv, PendingUntaken
    <2> QED BY <1>9, <2>2, <2>3
  <1>14. ~duplicated' => \A m \in Ids : taken'[m] <= m
    BY <1>1, <1>4, <1>9, <1>12 DEF ClientInv, Ids
  <1>15. NoReplyTakenTwice'
    BY <1>4, <1>9, <1>12 DEF ClientInv, NoReplyTakenTwice
  <1>16. FreshUntilGap'
    <2>1. SUFFICES ASSUME ~duplicated, NEW j \in Ids, NoGapBefore(j)'
                   PROVE  taken'[j] \in {NoReply, j}
      BY <1>4 DEF FreshUntilGap
    <2>2. CASE j > n
      BY <1>10, <1>4, <2>1, <2>2
    <2>3. ASSUME NEW i \in Ids, i <= j, i <= n PROVE NoGapBefore(i)
      BY <1>1, <1>9, <2>1, <2>3 DEF NoGapBefore, Ids
    <2>4. CASE j < n
      <3>1. NoGapBefore(j)
        BY <1>1, <2>3, <2>4 DEF Ids
      <3> QED BY <1>1, <1>9, <2>1, <2>4, <3>1 DEF ClientInv, FreshUntilGap, Ids
    <2>5. CASE j = n
      <3>1. ASSUME NEW i \in Ids, i < n PROVE taken[i] = i
        <4>1. NoGapBefore(i)
          BY <1>1, <2>3, <2>5, <3>1 DEF Ids
        <4>2. taken[i] # NoReply
          BY <1>9, <2>1, <2>5, <3>1 DEF NoGapBefore, Ids
        <4> QED BY <2>1, <4>1, <4>2 DEF ClientInv, FreshUntilGap
      <3> SUFFICES ASSUME k # NoReply PROVE taken'[j] = j
        BY <1>9, <2>5
      <3>2. k \in 1 .. n /\ \A m \in Ids : taken[m] # k
        BY <1>12, <2>1
      <3>3. k \in Ids /\ n \in Nat
        BY <1>6, <3>2, <1>1 DEF Ids
      <3>4. ~ k < n
        BY <3>1, <3>2, <3>3
      <3>5. k = n
        <4> HIDE DEF k
        <4> QED BY <3>2, <3>3, <3>4
      <3> QED BY <1>9, <2>5, <3>5
    <2> QED BY <1>1, <2>2, <2>4, <2>5 DEF Ids
  <1> QED BY <1>4, <1>8, <1>10, <1>11, <1>13, <1>14, <1>15, <1>16 DEF ClientInv

(* A packet is discarded. *)
LEMMA DiscardStep == ClientInv /\ nothing_after_select => ClientInv'
  <1> SUFFICES ASSUME ClientInv, nothing_after_select PROVE ClientInv'
    OBVIOUS
  <1>1. /\ pc = "receive" /\ inbox # <<>> /\ TypeOK
        /\ finish("TIMEOUT")
        /\ inbox' = Tail(inbox)
        /\ UNCHANGED <<requests, replies, taken>>
    BY DEF ClientInv, nothing_after_select
  <1>2. /\ UNCHANGED <<args, n, signalVars, duplicated>>
        /\ total' \in Nat /\ success' \in Nat
        /\ exit_code' \in {0, 1, 2}
        /\ pc' \in {"report", "closing"}
    BY <1>1, FinishEffect DEF SendResult
  <1>3. TypeOK'
    BY <1>1, <1>2, BufferHead DEF TypeOK, args
  <1>4. ~duplicated => PendingOnce' /\ Buffered' \subseteq Buffered
    BY <1>1, TailPending DEF ClientInv
  <1>5. ~duplicated' => PendingUntaken'
    BY <1>1, <1>2, <1>4 DEF ClientInv, PendingUntaken
  <1>6. FreshUntilGap' /\ NoReplyTakenTwice'
    BY <1>1, <1>2 DEF ClientInv, FreshUntilGap, NoReplyTakenTwice, NoGapBefore
  <1> QED BY <1>1, <1>2, <1>3, <1>4, <1>5, <1>6 DEF ClientInv

(* A reply reaches the buffer. *)
LEMMA DeliverStep ==
  ASSUME ClientInv, NEW k \in Ids, deliver(k),
         UNCHANGED <<clientVars, signalVars>>
  PROVE  ClientInv'
  <1> DEFINE p == [of |-> k, text |-> "valid"]
  <1>1. /\ k \in replies /\ inbox' = Append(inbox, p)
        /\ UNCHANGED requests
        /\ \/ replies' = replies \ {k} /\ UNCHANGED duplicated
           \/ duplicated' = TRUE /\ UNCHANGED replies
    BY DEF deliver
  <1>2. p \in Packet /\ p.of = k /\ k # NoReply
    BY DEF Packet, Texts, Ids
  <1>3. TypeOK
    BY DEF ClientInv
  <1>4. inbox' \in Seq(Packet) /\ inbox' # <<>> /\ Buffered' = Buffered \cup {k}
    BY <1>1, <1>2, <1>3, AppendPending
  <1>5. TypeOK'
    BY <1>1, <1>3, <1>4 DEF TypeOK, clientVars, args, mainVars
  <1>6. ASSUME ~duplicated' PROVE PendingOnce' /\ PendingUntaken'
    <2>1. ~duplicated /\ replies' = replies \ {k}
      BY <1>1, <1>6
    <2>2. k \notin Buffered /\ k \notin requests
      BY <1>1, <2>1 DEF ClientInv, PendingOnce
    <2>3. \A j, m \in 1 .. Len(inbox') :
            inbox'[j].of = inbox'[m].of /\ inbox'[j].of # NoReply => j = m
      BY <1>1, <1>2, <1>3, <2>1, <2>2, AppendPending DEF ClientInv, PendingOnce
    <2>4. PendingOnce'
      BY <1>1, <1>4, <2>1, <2>2, <2>3 DEF ClientInv, PendingOnce
    <2>5. PendingUntaken'
      BY <1>1, <1>4, <2>1 DEF ClientInv, PendingUntaken, clientVars
    <2> QED BY <2>4, <2>5
  <1>7. FreshUntilGap' /\ NoReplyTakenTwice'
    BY <1>1 DEF ClientInv, FreshUntilGap, NoReplyTakenTwice, NoGapBefore, clientVars
  <1> QED BY <1>1, <1>4, <1>5, <1>6, <1>7 DEF ClientInv, clientVars

(* A request reaches the server. *)
LEMMA ServeStep ==
  ASSUME ClientInv, NEW k \in Ids, serve(k),
         UNCHANGED <<clientVars, signalVars>>
  PROVE  ClientInv'
  <1>1. /\ k \in requests
        /\ requests' = requests \ {k} /\ replies' = replies \cup {k}
        /\ UNCHANGED <<inbox, duplicated>>
    BY DEF serve
  <1>2. TypeOK'
    BY <1>1 DEF ClientInv, TypeOK, clientVars, args, mainVars
  <1>3. Buffered' = Buffered
    BY <1>1 DEF Buffered
  <1>4. ~duplicated' => PendingOnce'
    BY <1>1, <1>3 DEF ClientInv, PendingOnce
  <1>5. ~duplicated' => PendingUntaken'
    BY <1>1, <1>3 DEF ClientInv, PendingUntaken, clientVars
  <1>6. FreshUntilGap' /\ NoReplyTakenTwice'
    BY <1>1 DEF ClientInv, FreshUntilGap, NoReplyTakenTwice, NoGapBefore, clientVars
  <1> QED BY <1>1, <1>2, <1>4, <1>5, <1>6 DEF ClientInv, clientVars

(* A packet of nobody's is no reply under way. *)
LEMMA StrangerStep ==
  ASSUME ClientInv, stranger, UNCHANGED <<clientVars, signalVars>>
  PROVE  ClientInv'
  <1>1. PICK t \in Texts : inbox' = Append(inbox, [of |-> NoReply, text |-> t])
    BY DEF stranger
  <1> DEFINE p == [of |-> NoReply, text |-> t]
  <1>2. p \in Packet /\ p.of = NoReply
    BY DEF Packet
  <1>3. TypeOK /\ NoReply \notin Buffered
    BY DEF ClientInv, Buffered
  <1>4. inbox' \in Seq(Packet) /\ inbox' # <<>> /\ Buffered' = Buffered
    BY <1>1, <1>2, <1>3, AppendPending
  <1>5. UNCHANGED <<requests, replies, duplicated>>
    BY DEF stranger
  <1>6. TypeOK'
    BY <1>3, <1>4, <1>5 DEF TypeOK, clientVars, args, mainVars
  <1>7. ~duplicated' => PendingOnce'
    <2>1. PendingOnce =>
            \A j, m \in 1 .. Len(inbox') :
              inbox'[j].of = inbox'[m].of /\ inbox'[j].of # NoReply => j = m
      BY <1>1, <1>2, <1>3, AppendPending DEF PendingOnce
    <2> QED BY <1>4, <1>5, <2>1 DEF ClientInv, PendingOnce
  <1>8. ~duplicated' => PendingUntaken'
    BY <1>4, <1>5 DEF ClientInv, PendingUntaken, clientVars
  <1>9. FreshUntilGap' /\ NoReplyTakenTwice'
    BY <1>5 DEF ClientInv, FreshUntilGap, NoReplyTakenTwice, NoGapBefore, clientVars
  <1> QED BY <1>4, <1>5, <1>6, <1>7, <1>8, <1>9 DEF ClientInv, clientVars

-----------------------------------------------------------------------------
LEMMA ClientInvStep == ClientInv /\ [Next]_vars => ClientInv'
  <1> SUFFICES ASSUME ClientInv, [Next]_vars PROVE ClientInv'
    OBVIOUS
  <1> USE DEF args, mainVars, netVars
  <1>1. CASE select
    <2>1. TypeOK'
      BY <1>1, FinishEffect DEF select, ClientInv, TypeOK, SendResult
    <2>2. CASE inbox # <<>>
      BY <1>1, <2>1, <2>2, RepliesUntouched DEF select, Ready, TimedOut
    <2>3. CASE inbox = <<>>
      BY <1>1, <2>1, <2>3, FinishEffect, RepliesUntouched
      DEF select, Ready, TimedOut, ClientInv, SendResult
    <2> QED BY <2>2, <2>3
  <1>2. CASE report \/ sleep
    <2>1. TypeOK'
      BY <1>2 DEF report, sleep, ClientInv, TypeOK
    <2> QED BY <1>2, <2>1, RepliesUntouched DEF report, sleep
  <1>3. CASE call_failed
    <2>1. TypeOK'
      BY <1>3, FinishEffect DEF call_failed, ClientInv, TypeOK, SendResult
    <2> QED BY <1>3, <2>1, FinishEffect, RepliesUntouched
        DEF call_failed, ClientInv, SendResult
  <1>4. CASE start
    <2>1. TypeOK'
      BY <1>4 DEF start, ClientInv, TypeOK
    <2> QED BY <1>4, <2>1, RepliesUntouched DEF start, ClientInv
  <1>5. CASE signal_handler
    <2>1. TypeOK'
      BY <1>5 DEF signal_handler, ClientInv, TypeOK
    <2> QED BY <1>5, <2>1, RepliesUntouched DEF signal_handler, ClientInv
  <1>6. ASSUME NEW k \in Ids, lose(k), UNCHANGED <<clientVars, signalVars>>
        PROVE  ClientInv'
    <2>1. TypeOK'
      BY <1>6 DEF lose, ClientInv, TypeOK, clientVars
    <2> QED BY <1>6, <2>1, RepliesUntouched DEF lose, clientVars, ClientInv
  <1>7. CASE UNCHANGED vars
    <2>1. TypeOK'
      BY <1>7 DEF vars, ClientInv, TypeOK, clientVars
    <2> QED BY <1>7, <2>1, RepliesUntouched DEF vars, clientVars, ClientInv
  <1>8. CASE Network
    BY <1>6, <1>8, DeliverStep, ServeStep, StrangerStep DEF Network
  <1> QED BY <1>1, <1>2, <1>3, <1>4, <1>5, <1>7, <1>8, MainLoopStep, SendStep,
             ReceiveStep, DiscardStep
      DEF Next, ClientStep, Halted

(* The client's inductive invariant. *)
THEOREM ClientInvariance == Spec => []ClientInv
  BY InvInitially, ClientInvStep, PTL DEF Spec

(* A call of send_imsi_with_response takes the reply to its own request as  *)
(* long as every earlier call got a reply.                                 *)
THEOREM RepliesAreFresh == Spec => []FreshUntilGap
  <1>1. ClientInv => FreshUntilGap
    BY DEF ClientInv
  <1> QED BY <1>1, ClientInvariance, PTL

(* Calls never share a reply, also once they are late. *)
THEOREM RepliesCountOnce == Spec => []NoReplyTakenTwice
  <1>1. ClientInv => NoReplyTakenTwice
    BY DEF ClientInv
  <1> QED BY <1>1, ClientInvariance, PTL

(* In a call of send_imsi_with_response. *)
Calling == pc \in {"send", "select", "receive"}

Statistics ==
  /\ success <= total
  /\ mode = "periodic" /\ pc # "deadlocked"
       => n = total + (IF Calling THEN 1 ELSE 0)

LEMMA FinishCounts ==
  ASSUME TypeOK, Statistics, Calling, NEW r, finish(r)
  PROVE  Statistics'
  BY DEF TypeOK, Statistics, Calling, finish, args

(* The statistics of periodic mode add up: every call is counted once, in   *)
(* whichever of its ways it returns, and none is a success without being    *)
(* counted.  A call that a signal left waiting for itself never returns.    *)
THEOREM CallsAreCounted == Spec => []Statistics
<1>1. Init => Statistics
  BY DEF Init, Statistics, Calling
<1>2. ClientInv /\ Statistics /\ [Next]_vars => Statistics'
  <2> SUFFICES ASSUME ClientInv, Statistics, [Next]_vars PROVE Statistics'
    OBVIOUS
  <2>1. TypeOK
    BY DEF ClientInv
  <2>2. ASSUME UNCHANGED <<mode, total, success, n>>,
               pc' # "deadlocked" => (Calling' <=> Calling) /\ pc # "deadlocked"
        PROVE  Statistics'
    BY <2>2 DEF Statistics
  <2>3. CASE start \/ report \/ sleep
    BY <2>2, <2>3 DEF start, report, sleep, Calling, args, mainVars
  <2>4. CASE main_loop
    BY <2>1, <2>4 DEF main_loop, Statistics, TypeOK, Calling, args, mainVars
  <2>5. CASE send
    BY <2>1, <2>2, <2>5, FinishCounts DEF send, Calling, args, mainVars
  <2>6. CASE select
    BY <2>1, <2>2, <2>6, FinishCounts DEF select, Calling, args, mainVars
  <2>7. CASE receive_response \/ call_failed \/ nothing_after_select
    BY <2>1, <2>7, FinishCounts
       DEF receive_response, call_failed, nothing_after_select, Calling
  <2>8. CASE Network \/ Halted \/ UNCHANGED vars
    BY <2>8 DEF Network, Halted, vars, clientVars, args, mainVars, Calling, Statistics
  <2>9. CASE signal_handler
    BY <2>2, <2>9 DEF signal_handler, Logging, args, mainVars, Calling
  <2> QED
    BY <2>3, <2>4, <2>5, <2>6, <2>7, <2>8, <2>9 DEF Next, ClientStep
<1> QED
  BY <1>1, <1>2, ClientInvariance, PTL DEF Spec
=============================================================================
