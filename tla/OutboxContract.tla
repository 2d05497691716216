--------------------------- MODULE OutboxContract ---------------------------
(***************************************************************************)
(* What the transactional outbox promises to a producer: an event that was *)
(* emitted is published only after some handler run succeeded on it, is    *)
(* otherwise kept pending or parked where an operator sees it, and a       *)
(* parked event leaves that state only by an operator's decision, which    *)
(* never publishes it.  Workers, leases, generations, attempts and crashes *)
(* are not visible at this level.                                          *)
(***************************************************************************)
CONSTANT Events

VARIABLES
  status,      \* status[e]: the life of event e
  succeeded    \* events on which some handler run returned PUBLISHED

contractVars == <<status, succeeded>>

ContractInit ==
  /\ status = [e \in Events |-> "absent"]
  /\ succeeded = {}

Move(e, from, to) ==
  /\ status[e] = from
  /\ status' = [status EXCEPT ![e] = to]
  /\ UNCHANGED succeeded

Emit(e)  == Move(e, "absent", "pending")
Park(e)  == Move(e, "pending", "parked")
Close(e) == Move(e, "parked", "closed")

Publish(e) ==
  /\ e \in succeeded
  /\ Move(e, "pending", "published")

\* At-least-once delivery: a handler may succeed again, and a stale run may
\* succeed after the event was settled by another run.
Succeed(e) ==
  /\ status[e] # "absent"
  /\ succeeded' = succeeded \cup {e}
  /\ UNCHANGED status

ContractNext ==
  \E e \in Events : Emit(e) \/ Publish(e) \/ Park(e) \/ Close(e) \/ Succeed(e)

ContractSpec == ContractInit /\ [][ContractNext]_contractVars
=============================================================================
