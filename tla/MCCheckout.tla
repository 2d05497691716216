----------------------------- MODULE MCCheckout -----------------------------
(*************************************************************************)
(* What customers and the owner decide, in one run: the checkouts of three  *)
(* orders; the mode of the store, which the owner changes with a second     *)
(* factor by the confirm buttons of two screens; the files he imports and   *)
(* the worker sends; and the orders he serves himself, from a count he may  *)
(* adjust.  A behaviour runs one of them, chosen at the start.              *)
(*************************************************************************)
EXTENDS Checkout, OwnerAuthority, FileDelivery, ServiceOrder, TLC

CONSTANTS c1, c2, o1, o2, o3

VARIABLE focus

\* Two orders after one asset and one after a counted unit, all three after a
\* code that one customer may use once.
LastCounted == (o1 :> "DISCRETE") @@ (o2 :> "DISCRETE") @@ (o3 :> "QUANTITY")
FirstTwice == (o1 :> c1) @@ (o2 :> c1) @@ (o3 :> c2)
OneEach == [c \in Customers |-> 1]

OneOff == {-1}

\* Presses and runs have the same names in the owner's modules.
Alike == Permutations(Presses)

CounterInit ==
  /\ focus \in {"checkout", "owner", "file", "service"}
  /\ Init /\ OwnerInit /\ FileInit /\ ServiceInit
  /\ focus # "owner" => store.mode = "OPEN"

CounterNext ==
  \/ focus = "checkout" /\ Next /\ UNCHANGED <<focus, ownerVars, fileVars, serviceVars>>
  \/ focus = "owner" /\ OwnerNext /\ UNCHANGED <<focus, vars, fileVars, serviceVars>>
  \/ focus = "file" /\ FileNext /\ UNCHANGED <<focus, vars, ownerVars, serviceVars>>
  \/ focus = "service" /\ ServiceNext /\ UNCHANGED <<focus, vars, ownerVars, fileVars>>

CounterSpec ==
  CounterInit /\ [][CounterNext]_<<focus, vars, ownerVars, fileVars, serviceVars>>
=============================================================================
