-------------------------- MODULE SessionLifecycle --------------------------
(***************************************************************************)
(* What the session table promises its users, without threads, locks or    *)
(* flags: a subscriber has at most one session; it is admitted, kept alive *)
(* by activity, and ended for one reason, and each of those changes is     *)
(* journalled in the same step.  A session expires only after Timeout      *)
(* without activity and is shut down only once a stop was requested.  An   *)
(* IMSI that is on the blacklist for good is never admitted, one that was  *)
(* never on it is never refused.                                           *)
(***************************************************************************)
EXTENDS Integers

CONSTANTS Imsi, Valid, Blacklist, Editable, Timeout

VARIABLES
  time,
  alive,       \* subscribers with a session
  since,       \* their last activity
  stopping,    \* a graceful shutdown was requested
  open, last   \* the journal: balance and latest record of each IMSI

vars == <<time, alive, since, stopping, open, last>>

Init ==
  /\ time = 0
  /\ alive = {}
  /\ since = [i \in Imsi |-> 0]
  /\ stopping = FALSE
  /\ open = [i \in Imsi |-> 0]
  /\ last = [i \in Imsi |-> "NONE"]

Journal(S, action, delta) ==
  /\ open' = [i \in Imsi |-> IF i \in S THEN open[i] + delta ELSE open[i]]
  /\ last' = [i \in Imsi |-> IF i \in S THEN action ELSE last[i]]

Admit(i) ==
  /\ i \in Valid \ alive
  /\ i \notin Blacklist \ Editable
  /\ alive' = alive \cup {i}
  /\ since' = [since EXCEPT ![i] = time]
  /\ Journal({i}, "CREATED", 1)
  /\ UNCHANGED <<time, stopping>>

Refuse(i) ==
  /\ i \in Blacklist \cup Editable
  /\ Journal({i}, "REJECTED", 0)
  /\ UNCHANGED <<time, alive, since, stopping>>

Touch(i) ==
  /\ i \in alive
  /\ since' = [since EXCEPT ![i] = time]
  /\ UNCHANGED <<time, alive, stopping, open, last>>

Expire(S) ==
  /\ S \subseteq alive
  /\ \A i \in S : time - since[i] >= Timeout
  /\ alive' = alive \ S
  /\ Journal(S, "TIMEOUT", -1)
  /\ UNCHANGED <<time, since, stopping>>

ShutDown(i) ==
  /\ stopping
  /\ i \in alive
  /\ alive' = alive \ {i}
  /\ Journal({i}, "GRACEFUL_SHUTDOWN", -1)
  /\ UNCHANGED <<time, since, stopping>>

(* remove_session: the one way to end a session that leaves no record.     *)
Forget(i) ==
  /\ i \in alive
  /\ alive' = alive \ {i}
  /\ UNCHANGED <<time, since, stopping, open, last>>

RequestStop ==
  /\ stopping' = TRUE
  /\ UNCHANGED <<time, alive, since, open, last>>

Pass ==
  /\ time' = time + 1
  /\ UNCHANGED <<alive, since, stopping, open, last>>

Next ==
  \/ \E i \in Imsi : Admit(i) \/ Refuse(i) \/ Touch(i) \/ ShutDown(i) \/ Forget(i)
  \/ \E S \in SUBSET Imsi : Expire(S)
  \/ RequestStop
  \/ Pass

Spec == Init /\ [][Next]_vars
=============================================================================
