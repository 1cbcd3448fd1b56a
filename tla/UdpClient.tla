----------------------------- MODULE UdpClient -----------------------------
(***************************************************************************)
(* The test client (src/client/udp_client.cpp, src/client/main.cpp): one    *)
(* socket, one request at a time, a select with a timeout for the reply, in *)
(* single-shot or periodic mode.  A reply carries nothing that tells which  *)
(* request it answers; the model keeps that in the packet's field `of' for  *)
(* the properties only, the client never looks at it.                      *)
(*                                                                         *)
(* The network and the server are external: requests and replies may be     *)
(* lost, duplicated, delayed and reordered, and somebody other than the     *)
(* server may send to the client's socket.                                 *)
(***************************************************************************)
EXTENDS Naturals, Sequences

CONSTANTS
  MaxRequests,    \* bound: calls of send_imsi_with_response
  SocketCapacity  \* bound: datagrams in the client's receive buffer

ASSUME ClientAssumption ==
  /\ MaxRequests \in Nat \ {0}
  /\ SocketCapacity \in Nat \ {0}

SendResult == {"SUCCESS", "SEND_FAILED", "TIMEOUT", "INVALID_RESPONSE",
               "NETWORK_ERROR"}

Ids == 1 .. MaxRequests
NoReply == 0

(* "valid" stands for "created" and "rejected". *)
Texts == {"valid", "empty", "other"}
Packet == [of : Ids \cup {NoReply}, text : Texts]

VARIABLES
  mode, imsi_ok,       \* the command line: how often to send, is the IMSI one?
  shutdown_requested,  \* set by the signal handler
  pc,                  \* the client's only thread
  n,                   \* the current call of send_imsi_with_response
  total, success,      \* the statistics of periodic mode
  exit_code,           \* what main returned
  requests, replies,   \* what is under way, by request
  inbox,               \* the receive buffer of sock
  taken,               \* history: the request whose reply each call took
  signalled,           \* history: SIGINT or SIGTERM has arrived
  duplicated           \* history: the network has delivered a reply twice

args == <<mode, imsi_ok>>
mainVars == <<total, success, exit_code>>
netVars == <<requests, replies, inbox, duplicated>>
clientVars == <<args, mainVars, pc, n, taken>>
signalVars == <<shutdown_requested, signalled>>
vars == <<clientVars, signalVars, netVars>>

TypeOK ==
  /\ mode \in {"single", "periodic"} /\ imsi_ok \in BOOLEAN
  /\ shutdown_requested \in BOOLEAN /\ signalled \in BOOLEAN
  /\ pc \in {"start", "loop", "send", "select", "receive", "report", "sleep",
            "closing", "exited", "deadlocked"}
  /\ n \in 0 .. MaxRequests
  /\ total \in Nat /\ success \in Nat
  /\ exit_code \in {0, 1, 2}
  /\ requests \subseteq Ids /\ replies \subseteq Ids
  /\ inbox \in Seq(Packet)
  /\ taken \in [Ids -> Ids \cup {NoReply}]
  /\ duplicated \in BOOLEAN

Init ==
  /\ mode \in {"single", "periodic"} /\ imsi_ok \in BOOLEAN
  /\ shutdown_requested = FALSE /\ signalled = FALSE
  /\ pc = "start"
  /\ n = 0 /\ total = 0 /\ success = 0
  /\ exit_code = 0
  /\ requests = {} /\ replies = {}
  /\ inbox = <<>>
  /\ taken = [k \in Ids |-> NoReply]
  /\ duplicated = FALSE

-----------------------------------------------------------------------------
(* The client *)

(* The configuration, the arguments or the socket may be refused. *)
start ==
  /\ pc = "start"
  /\ \/ pc' = "loop" /\ UNCHANGED mainVars
     \/ pc' = "closing" /\ exit_code' = 1 /\ UNCHANGED <<total, success>>
  /\ UNCHANGED <<args, n, taken, signalVars, netVars>>

(* while (!shutdown_requested), or the one call of single-shot mode. *)
main_loop ==
  /\ pc = "loop"
  /\ \/ /\ mode = "periodic" /\ shutdown_requested
        /\ pc' = "closing"
        /\ UNCHANGED n
     \/ /\ mode = "single" \/ ~shutdown_requested
        /\ n < MaxRequests
        /\ n' = n + 1
        /\ pc' = "send"
  /\ UNCHANGED <<args, mainVars, taken, signalVars, netVars>>

(* A call returns r, which main counts, or takes for its exit code. *)
finish(r) ==
  /\ \/ /\ mode = "periodic"
        /\ total' = total + 1
        /\ success' = success + (IF r = "SUCCESS" THEN 1 ELSE 0)
        /\ pc' = "report"
        /\ UNCHANGED exit_code
     \/ /\ mode = "single"
        /\ exit_code' = CASE r = "SUCCESS" -> 0 [] r = "TIMEOUT" -> 2 [] OTHER -> 1
        /\ pc' = "closing"
        /\ UNCHANGED <<total, success>>
  /\ UNCHANGED <<args, n, signalVars, duplicated>>

(* Anything but an IMSI ends in the handler of send_imsi_with_response. *)
send ==
  /\ pc = "send"
  /\ \/ ~imsi_ok /\ finish("INVALID_RESPONSE") /\ UNCHANGED requests
     \/ /\ imsi_ok
        /\ requests' = requests \cup {n}
        /\ pc' = "select"
        /\ UNCHANGED <<args, mainVars, n, signalVars, duplicated>>
  /\ UNCHANGED <<replies, inbox, taken>>

(* Variants: what select returns is not looked at; it has no timeout. *)
Ready_assumed == TRUE
TimedOut_never == FALSE

Ready == inbox # <<>>
TimedOut == inbox = <<>>

select ==
  /\ pc = "select"
  /\ \/ /\ Ready
        /\ pc' = "receive"
        /\ UNCHANGED <<args, mainVars, n, signalVars, duplicated>>
     \/ TimedOut /\ finish("TIMEOUT")
  /\ UNCHANGED <<requests, replies, inbox, taken>>

(* Variant: MSG_PEEK. *)
LeftOver_all == inbox

LeftOver == Tail(inbox)

(* Whatever comes first counts as the reply; a packet from elsewhere gets   *)
(* a warning in the log.                                                   *)
receive_response ==
  /\ pc = "receive"
  /\ finish(IF Head(inbox).text = "valid" THEN "SUCCESS" ELSE "INVALID_RESPONSE")
  /\ inbox' = LeftOver
  /\ taken' = [taken EXCEPT ![n] = Head(inbox).of]
  /\ UNCHANGED <<requests, replies>>

(* The client writes how the call or the program ended to its log. *)
report ==
  /\ \/ pc = "report" /\ pc' = "sleep"
     \/ pc = "closing" /\ pc' = "exited"
  /\ UNCHANGED <<args, mainVars, n, taken, signalVars, netVars>>

sleep ==
  /\ pc = "sleep"
  /\ pc' = "loop"
  /\ UNCHANGED <<args, mainVars, n, taken, signalVars, netVars>>

ClientStep ==
  \/ start \/ main_loop \/ send \/ select \/ receive_response
  \/ report \/ sleep

(* sendto fails; select is interrupted by a signal or fails, recvfrom fails. *)
call_failed ==
  /\ \/ pc = "send" /\ imsi_ok /\ finish("SEND_FAILED")
     \/ pc \in {"select", "receive"} /\ finish("NETWORK_ERROR")
  /\ UNCHANGED <<requests, replies, inbox, taken>>

(* recvfrom finds nothing after all: the kernel has discarded the datagram. *)
nothing_after_select ==
  /\ pc = "receive"
  /\ finish("TIMEOUT")
  /\ inbox' = Tail(inbox)
  /\ UNCHANGED <<requests, replies, taken>>

(* Where the only thread may be inside spdlog, holding a sink's mutex. *)
Logging == pc \in {"start", "send", "receive", "report", "closing"}

(* Runs on the client's only thread, on top of whatever it was doing, and   *)
(* logs before it sets the flag: if the thread holds the sink's mutex,      *)
(* which is not recursive, the handler waits for itself.                   *)
signal_handler ==
  /\ signalled' = TRUE
  /\ \/ shutdown_requested' = TRUE /\ UNCHANGED pc
     \/ Logging /\ pc' = "deadlocked" /\ UNCHANGED shutdown_requested
  /\ UNCHANGED <<args, mainVars, n, taken, netVars>>

-----------------------------------------------------------------------------
(* The server and the network *)

serve(k) ==
  /\ k \in requests
  /\ requests' = requests \ {k}
  /\ replies' = replies \cup {k}
  /\ UNCHANGED <<inbox, duplicated>>

(* Delivers the reply to k, or a copy of it. *)
deliver(k) ==
  /\ k \in replies
  /\ Len(inbox) < SocketCapacity
  /\ inbox' = Append(inbox, [of |-> k, text |-> "valid"])
  /\ \/ replies' = replies \ {k} /\ UNCHANGED duplicated
     \/ duplicated' = TRUE /\ UNCHANGED replies
  /\ UNCHANGED requests

lose(k) ==
  /\ k \in requests \cup replies
  /\ requests' = requests \ {k}
  /\ replies' = replies \ {k}
  /\ UNCHANGED <<inbox, duplicated>>

stranger ==
  /\ Len(inbox) < SocketCapacity
  /\ \E t \in Texts : inbox' = Append(inbox, [of |-> NoReply, text |-> t])
  /\ UNCHANGED <<requests, replies, duplicated>>

Network ==
  /\ stranger \/ \E k \in Ids : serve(k) \/ deliver(k) \/ lose(k)
  /\ UNCHANGED <<clientVars, signalVars>>

Over == pc \in {"exited", "deadlocked"}
Halted == Over /\ UNCHANGED vars

-----------------------------------------------------------------------------
Next ==
  \/ ClientStep \/ call_failed \/ nothing_after_select
  \/ ~Over /\ (signal_handler \/ Network)
  \/ Halted

Spec == Init /\ [][Next]_vars

(* The client runs; the network owes it nothing. *)
FairSpec == Spec /\ WF_vars(ClientStep)

-----------------------------------------------------------------------------
(* Every call before call k took a reply. *)
NoGapBefore(k) == \A m \in Ids : m < k => taken[m] # NoReply

(* Replies carry no identification and the receive buffer is not drained    *)
(* after a timeout, yet a call takes the reply to its own request as long   *)
(* as every call before it took a reply, whatever is delayed or reordered.  *)
(* From the first call on that timed out, or took a stranger's packet for   *)
(* the reply, a late reply counts for a later request.                      *)
FreshUntilGap ==
  ~duplicated =>
    \A k \in Ids : NoGapBefore(k) => taken[k] \in {NoReply, k}

(* No reply is counted for two requests, late replies included, unless the  *)
(* network itself has duplicated one.                                      *)
NoReplyTakenTwice ==
  ~duplicated =>
    \A j, k \in Ids : taken[j] = taken[k] /\ taken[j] # NoReply => j = k

(* After a signal the client exits, however silent the server is and        *)
(* wherever the signal finds it, with the one exception that signal_handler *)
(* interrupts a spdlog call: then its own spdlog::info, before the flag is  *)
(* set, may wait for the interrupted thread for ever (client/main.cpp:18).  *)
SignalStopsClient == signalled ~> Over

-----------------------------------------------------------------------------
(* The inductive invariant: where the replies not yet taken can be. *)
Buffered == {inbox[j].of : j \in 1 .. Len(inbox)} \ {NoReply}

PendingOnce ==
  /\ requests \cap replies = {}
  /\ (requests \cup replies) \cap Buffered = {}
  /\ \A j, k \in 1 .. Len(inbox) :
       inbox[j].of = inbox[k].of /\ inbox[j].of # NoReply => j = k

PendingUntaken ==
  \A k \in requests \cup replies \cup Buffered :
    /\ k \in 1 .. n
    /\ pc = "send" => k # n
    /\ \A m \in Ids : taken[m] # k

(* Each reply under way is in one place and nobody's yet, so that what the  *)
(* current call takes from the buffer is new. *)
ClientInv ==
  /\ TypeOK
  /\ pc \in {"send", "select", "receive"} => n \in Ids /\ taken[n] = NoReply
  /\ pc = "receive" => inbox # <<>>
  /\ \A m \in Ids : m > n => taken[m] = NoReply
  /\ ~duplicated => \A m \in Ids : taken[m] <= m
  /\ ~duplicated => PendingOnce /\ PendingUntaken
  /\ FreshUntilGap
  /\ NoReplyTakenTwice
=============================================================================
