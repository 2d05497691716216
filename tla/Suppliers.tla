------------------------------ MODULE Suppliers ------------------------------
(***************************************************************************)
(* The shop as a buyer: the asset of a paid order (supplier/service.ts) and  *)
(* the owner's trial purchase (supplier/canary.ts).  Both buy through        *)
(* purchase-core.ts, each with a store of its own, and promise the same.     *)
(***************************************************************************)
EXTENDS SupplierPurchase, SupplierCanary

(* What is bought from a supplier, for an order or to try him, is bought once,  *)
(* as it was approved, and the shop's record of it is true.                  *)
BoughtAsApproved ==
  [][BoughtOnceAndRecorded' /\ CanaryBuysAsApproved]_<<supplierVars, canaryVars>>
=============================================================================
