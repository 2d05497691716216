---------------------------- MODULE ServiceOrder ----------------------------
(***************************************************************************)
(* Orders the owner serves by hand: a counted unit or a service.  The       *)
(* counted stock with its ledger (quantity-stock.ts, the counted part of    *)
(* repository.ts), the task a paid order becomes (fulfillment.ts,           *)
(* manual-fulfillment.ts), and the owner's two buttons: complete a task,     *)
(* adjust the count.  The grant a press spends is OwnerAuthority's, the      *)
(* settlement Checkout's; the notice of each of the task's two events has a  *)
(* key of its own and changes nothing else.                                 *)
(***************************************************************************)
EXTENDS Integers, FiniteSets, FiniteSetsExt

CONSTANTS ServiceOrders,
          Counted,       \* those after the counted variant; the others are a service
          TaskRuns,      \* runs of the OrderPaid handler
          TaskPresses,   \* presses of a task's confirm button
          StockPresses,  \* presses of an adjustment's confirm button
          Deltas,        \* what the owner may adjust the count by
          FirstStock,    \* the count the variant was created with
          MaxStockVersion, \* bound: changes of the count
          NoService

ASSUME ServiceAssumption ==
  /\ Counted \subseteq ServiceOrders /\ NoService \notin ServiceOrders
  /\ Deltas \subseteq Int \ {0} /\ FirstStock \in Nat /\ MaxStockVersion \in Nat \ {0}

VARIABLES served,      \* "order": status and version
          reserve,     \* the order's RESERVE row, and whether it was released or delivered
          count,       \* variant_quantity_stock: available_quantity, version
          adjusted,    \* idempotency keys with an ADJUST row: <<expected version, delta>>
          task,        \* manual_fulfillment_task: status and version
          paidQueue,   \* orders with an unpublished OrderPaid
          taskRun,     \* a handler run: its order and what it does next
          taskPress,   \* a press: the task and the versions its screen showed
          stockPress   \* a press: the key of its screen, what it does next

countVars == <<count, adjusted, stockPress>>
taskVars == <<served, reserve, task, paidQueue, taskRun, taskPress>>
serviceVars == <<countVars, taskVars>>

Asleep == [of |-> NoService, at |-> "idle"]
Unpressed == [of |-> NoService, order |-> 0, task |-> 0]
Untouched == [at |-> "idle", key |-> <<0, 0>>]

ServiceTypeOK ==
  /\ served \in [ServiceOrders ->
       [status : {"none", "PENDING_PAYMENT", "PAID", "PROCESSING", "COMPLETED", "CANCELLED",
                   "EXPIRED"},
        version : 0 .. 4]]
  /\ reserve \in [ServiceOrders -> {"none", "held", "released", "delivered"}]
  /\ count \in [available : Nat, version : 1 .. MaxStockVersion]
  /\ adjusted \subseteq (1 .. MaxStockVersion) \X Deltas
  /\ task \in [ServiceOrders -> [status : {"none", "OPEN", "COMPLETED"}, version : 0 .. 2]]
  /\ paidQueue \subseteq ServiceOrders
  /\ taskRun \in [TaskRuns -> [of : ServiceOrders \cup {NoService}, at : {"idle", "loaded", "made"}]]
  /\ taskPress \in [TaskPresses -> [of : ServiceOrders \cup {NoService}, order : 0 .. 4, task : 0 .. 2]]
  /\ stockPress \in [StockPresses ->
       [at : {"idle", "asked", "looked"}, key : {<<0, 0>>} \cup ((1 .. MaxStockVersion) \X Deltas)]]

ServiceInit ==
  /\ served = [o \in ServiceOrders |-> [status |-> "none", version |-> 0]]
  /\ reserve = [o \in ServiceOrders |-> "none"]
  /\ count = [available |-> FirstStock, version |-> 1] /\ adjusted = {}
  /\ task = [o \in ServiceOrders |-> [status |-> "none", version |-> 0]]
  /\ paidQueue = {}
  /\ taskRun = [r \in TaskRuns |-> Asleep]
  /\ taskPress = [c \in TaskPresses |-> Unpressed]
  /\ stockPress = [a \in StockPresses |-> Untouched]

Moved(o, to) == [served EXCEPT ![o] = [status |-> to, version |-> @.version + 1]]

\* Every change of the count raises its version.
Recount(delta) ==
  /\ count.version < MaxStockVersion
  /\ count' = [available |-> count.available + delta, version |-> count.version + 1]

-----------------------------------------------------------------------------
(* Before the handler.                                                      *)

\* reserveQuantityStockForOrder, in the transaction that places the order.
PlaceServiceOrder(o) ==
  /\ served[o].status = "none"
  /\ served' = Moved(o, "PENDING_PAYMENT")
  /\ IF o \in Counted
     THEN count.available >= 1 /\ Recount(-1) /\ reserve' = [reserve EXCEPT ![o] = "held"]
     ELSE UNCHANGED <<count, reserve>>
  /\ UNCHANGED <<adjusted, stockPress, task, paidQueue, taskRun,
                 taskPress>>

\* releaseTypedStockForOrder, in the transaction in which the buyer cancels it.
CancelServiceOrder(o) ==
  /\ served[o].status = "PENDING_PAYMENT"
  /\ served' = Moved(o, "CANCELLED")
  /\ IF reserve[o] = "held"
     THEN Recount(1) /\ reserve' = [reserve EXCEPT ![o] = "released"]
     ELSE UNCHANGED <<count, reserve>>
  /\ UNCHANGED <<adjusted, stockPress, task, paidQueue, taskRun,
                 taskPress>>

\* recoverExpiredOrdersBatch frees reservations of units only: a counted one stays.
ExpireServiceOrder(o) ==
  /\ served[o].status = "PENDING_PAYMENT"
  /\ served' = Moved(o, "EXPIRED")
  /\ UNCHANGED <<countVars, reserve, task, paidQueue, taskRun, taskPress>>

PayServiceOrder(o) ==
  /\ served[o].status = "PENDING_PAYMENT"
  /\ served' = Moved(o, "PAID") /\ paidQueue' = paidQueue \cup {o}
  /\ UNCHANGED <<countVars, reserve, task, taskRun, taskPress>>

-----------------------------------------------------------------------------
(* fulfillPaidOrder for an order without units.                             *)

\* The locked read asks for a RESERVE row that was not released.
IsServable(o) == o \in Counted => reserve[o] \in {"held", "delivered"}

\* queueFileDelivery looks at the order first, under its lock: what is neither PAID
\* nor PROCESSING is parked for review, so a run repeated after the end is.
LoadServiceOrder(r, o) ==
  /\ taskRun[r] = Asleep /\ o \in paidQueue
  /\ IF served[o].status \in {"PAID", "PROCESSING"}
     THEN taskRun' = [taskRun EXCEPT ![r] = [of |-> o, at |-> "loaded"]] /\ UNCHANGED paidQueue
     ELSE paidQueue' = paidQueue \ {o} /\ UNCHANGED taskRun
  /\ UNCHANGED <<countVars, served, reserve, task, taskPress>>

\* Mutant: the task that is there is not looked for.
MakeTaskAgain(r) ==
  LET o == taskRun[r].of IN
  /\ taskRun[r].at = "loaded"
  /\ task' = [task EXCEPT ![o] = [status |-> "OPEN", version |-> 1]]
  /\ served' = IF served[o].status = "PAID" THEN Moved(o, "PROCESSING") ELSE served
  /\ taskRun' = [taskRun EXCEPT ![r].at = "made"]
  /\ UNCHANGED <<countVars, reserve, paidQueue, taskPress>>

\* fulfillPaidOrder's transaction under the order's lock.  What is refused leaves
\* the event to be retried, as a run that dies does: a counted unit that is not
\* held, a service with no active definition.
MakeTask(r) ==
  LET o == taskRun[r].of IN
  /\ taskRun[r].at = "loaded"
  /\ \/ served[o].status = "COMPLETED" /\ UNCHANGED <<served, task>>
     \/ /\ served[o].status \in {"PAID", "PROCESSING"} /\ IsServable(o)
        /\ task' = IF task[o].status = "none"
                   THEN [task EXCEPT ![o] = [status |-> "OPEN", version |-> 1]] ELSE task
        /\ served' = IF served[o].status = "PAID" THEN Moved(o, "PROCESSING") ELSE served
  /\ taskRun' = [taskRun EXCEPT ![r].at = "made"]
  /\ UNCHANGED <<countVars, reserve, paidQueue, taskPress>>

PublishPaid(r) ==
  /\ taskRun[r].at = "made"
  /\ paidQueue' = paidQueue \ {taskRun[r].of}
  /\ taskRun' = [taskRun EXCEPT ![r] = Asleep]
  /\ UNCHANGED <<countVars, served, reserve, task, taskPress>>

\* The run dies, or outlives its lease and its acknowledgement is refused.
TaskRunDies(r) ==
  /\ taskRun[r] # Asleep
  /\ taskRun' = [taskRun EXCEPT ![r] = Asleep]
  /\ UNCHANGED <<countVars, served, reserve, task, paidQueue, taskPress>>

-----------------------------------------------------------------------------
(* The owner.                                                               *)

\* The task's screen, whose button carries "<order version>:<task version>".
OpenTask(c, o) ==
  /\ taskPress[c] = Unpressed /\ task[o].status = "OPEN"
  /\ taskPress' = [taskPress EXCEPT ![c] =
                     [of |-> o, order |-> served[o].version, task |-> task[o].version]]
  /\ UNCHANGED <<countVars, served, reserve, task, paidQueue, taskRun>>

\* Mutant: the ledger is not told that the unit went out.
CompleteWithoutLedger(c) ==
  LET o == taskPress[c].of IN
  /\ taskPress[c] # Unpressed
  /\ taskPress' = [taskPress EXCEPT ![c] = Unpressed]
  /\ task' = [task EXCEPT ![o] = [status |-> "COMPLETED", version |-> 2]]
  /\ served' = IF task[o].status = "OPEN" THEN Moved(o, "COMPLETED") ELSE served
  /\ UNCHANGED <<countVars, reserve, paidQueue, taskRun>>

IsCompletable(p) ==
  /\ task[p.of].status = "OPEN"
  /\ served[p.of].version = p.order /\ task[p.of].version = p.task
  /\ served[p.of].status = "PROCESSING"
  /\ p.of \in Counted => reserve[p.of] = "held"

\* completeManualFulfillmentTaskInTransaction, in the confirmation's transaction.
CompleteTask(c) ==
  LET o == taskPress[c].of IN
  /\ taskPress[c] # Unpressed
  /\ taskPress' = [taskPress EXCEPT ![c] = Unpressed]
  /\ IF IsCompletable(taskPress[c])
     THEN /\ task' = [task EXCEPT ![o] = [status |-> "COMPLETED", version |-> @.version + 1]]
          /\ reserve' = IF o \in Counted THEN [reserve EXCEPT ![o] = "delivered"] ELSE reserve
          /\ served' = Moved(o, "COMPLETED")
     ELSE UNCHANGED <<task, reserve, served>>
  /\ UNCHANGED <<countVars, paidQueue, taskRun>>

\* quantityAdjustPreview: the key names the version the owner saw and the delta.
AskAdjust(a, delta) ==
  /\ stockPress[a].at = "idle" /\ count.available + delta >= 0
  /\ stockPress' = [stockPress EXCEPT ![a] = [at |-> "asked", key |-> <<count.version, delta>>]]
  /\ UNCHANGED <<count, adjusted, taskVars>>

\* A second press of the same screen.
PressAgain(a, b) ==
  /\ stockPress[a].at = "idle" /\ stockPress[b].at # "idle"
  /\ stockPress' = [stockPress EXCEPT ![a] = [at |-> "asked", key |-> stockPress[b].key]]
  /\ UNCHANGED <<count, adjusted, taskVars>>

\* adjustQuantityStock looks for the key first; a row of it is the answer.
LookForKey(a) ==
  /\ stockPress[a].at = "asked"
  /\ stockPress' = [stockPress EXCEPT ![a] =
                      IF @.key \in adjusted THEN Untouched ELSE [@ EXCEPT !.at = "looked"]]
  /\ UNCHANGED <<count, adjusted, taskVars>>

\* Mutant: what was read before the lock is trusted.
AdjustUnchecked(a) ==
  LET key == stockPress[a].key IN
  /\ stockPress[a].at = "looked"
  /\ stockPress' = [stockPress EXCEPT ![a] = Untouched]
  /\ IF count.available + key[2] >= 0
     THEN Recount(key[2]) /\ adjusted' = adjusted \cup {key}
     ELSE UNCHANGED <<count, adjusted>>
  /\ UNCHANGED taskVars

\* Under the lock on the count: the key again, then the version, then the sign.
AdjustCount(a) ==
  LET key == stockPress[a].key IN
  /\ stockPress[a].at = "looked"
  /\ stockPress' = [stockPress EXCEPT ![a] = Untouched]
  /\ IF key \notin adjusted /\ key[1] = count.version /\ count.available + key[2] >= 0
     THEN Recount(key[2]) /\ adjusted' = adjusted \cup {key}
     ELSE UNCHANGED <<count, adjusted>>
  /\ UNCHANGED taskVars

ServiceNext ==
  \/ \E o \in ServiceOrders :
       \/ PlaceServiceOrder(o) \/ CancelServiceOrder(o) \/ ExpireServiceOrder(o)
       \/ PayServiceOrder(o)
       \/ \E r \in TaskRuns : LoadServiceOrder(r, o)
       \/ \E c \in TaskPresses : OpenTask(c, o)
  \/ \E r \in TaskRuns : MakeTask(r) \/ PublishPaid(r) \/ TaskRunDies(r)
  \/ \E c \in TaskPresses : CompleteTask(c)
  \/ \E a \in StockPresses :
       \/ LookForKey(a) \/ AdjustCount(a)
       \/ \E delta \in Deltas : AskAdjust(a, delta)
       \/ \E b \in StockPresses : PressAgain(a, b)

ServiceSpec == ServiceInit /\ [][ServiceNext]_serviceVars

-----------------------------------------------------------------------------
Total(keys) == MapThenSumSet(LAMBDA k : k[2], keys)

(* The ledger adds up: what was there at first and what the owner adjusted,   *)
(* each press of one screen once, is on the shelf, delivered, or held: also by *)
(* an order the worker expired.  A unit leaves exactly with the task that      *)
(* hands it over, and the task ends with its order, whatever runs and presses *)
(* overlap.                                                                  *)
ServedOnceFromStock ==
  /\ ServiceTypeOK
  /\ count.available + Cardinality({o \in Counted : reserve[o] \in {"held", "delivered"}})
       = FirstStock + Total(adjusted)
  /\ \A o \in ServiceOrders :
       /\ task[o].status = "COMPLETED" <=> served[o].status = "COMPLETED"
       /\ task[o].status = "OPEN" <=> served[o].status = "PROCESSING"
       /\ reserve[o] = "delivered" <=> o \in Counted /\ task[o].status = "COMPLETED"
       /\ served[o].status = "PAID" => o \in paidQueue
=============================================================================
