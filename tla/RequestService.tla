--------------------------- MODULE RequestService ---------------------------
(***************************************************************************)
(* What a subscriber may expect of pgw_server's UDP port, without sockets, *)
(* queues, workers or locks: a request is answered at most once, and only  *)
(* after it was made; an IMSI on the blacklist is never admitted; any      *)
(* other is turned away only if Capacity other requests are waiting at     *)
(* that moment.  An answer gets lost only where sendto may fail, and the   *)
(* service goes down only where recvfrom may fail or a fatal request is    *)
(* waiting; after that nothing is answered.                                *)
(***************************************************************************)
EXTENDS Naturals

CONSTANTS
  Requests,
  Refused,    \* requests for an IMSI on the blacklist
  Fatal,      \* requests that cannot be decoded
  Capacity,
  FaultSets   \* the sets of system calls that may fail in a behaviour

VARIABLES
  answer,     \* per slot: "pending", or what the client got last
  faults,     \* the system calls that may fail in this one
  down        \* the service has ended

vars == <<answer, faults, down>>

Init ==
  /\ answer = [r \in Requests |-> "nothing"]
  /\ faults \in FaultSets
  /\ down = FALSE

Waiting == {r \in Requests : answer[r] = "pending"}

(* Capacity requests beside r are waiting. *)
Crowded(r) ==
  \E others \in [1 .. Capacity -> Waiting \ {r}] :
    \A j, k \in 1 .. Capacity : others[j] = others[k] => j = k

Ask(r) ==
  /\ r \notin Waiting
  /\ answer' = [answer EXCEPT ![r] = "pending"]
  /\ UNCHANGED <<faults, down>>

Give(r, a) ==
  /\ r \in Waiting
  /\ answer' = [answer EXCEPT ![r] = a]
  /\ UNCHANGED <<faults, down>>

Admit(r) == r \notin Refused \cup Fatal /\ Give(r, "created")

TurnAway(r) == (r \in Refused \/ Crowded(r)) /\ Give(r, "rejected")

Lose(r) == "sendto" \in faults /\ Give(r, "nothing")

GoDown ==
  /\ "recvfrom" \in faults \/ Waiting \cap Fatal # {}
  /\ down' = TRUE
  /\ UNCHANGED <<answer, faults>>

Next ==
  /\ ~down
  /\ \/ \E r \in Requests : Ask(r) \/ Admit(r) \/ TurnAway(r) \/ Lose(r)
     \/ GoDown

Spec == Init /\ [][Next]_vars
=============================================================================
