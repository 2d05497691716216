------------------------------- MODULE MCShop -------------------------------
(*************************************************************************)
(* What moves money, goods and messages beside the checkout, in one run:    *)
(* the wallet, preorders, the purchase at a supplier and its trial by the    *)
(* owner, the import of stock, warranty, notices and broadcasts.  A          *)
(* behaviour runs one of the modules, chosen at the start.                   *)
(*************************************************************************)
EXTENDS Wallet, Preorder, Suppliers, StockImport, Warranty, Messages, TLC

CONSTANTS c1, o1, p1, p2, f1, f2, a1

VARIABLE focus

shopVars == <<focus, walletVars, preorderVars, supplierVars, canaryVars, importVars,
              warrantyVars, noticeVars, broadcastVars>>

BuyerIsC1 == o1 :> c1
OneDong == o1 :> 1

\* A preorder with a balance to pay and one that is paid with its deposit.
Deposits == (p1 :> 1) @@ (p2 :> 2)
Balances == (p1 :> 2) @@ (p2 :> 0)

FirstText == CHOOSE c \in Contents : TRUE

FirstCost == CHOOSE c \in Costs : TRUE

\* One text lists a credential once, the other lists it twice.
Lines == (f1 :> <<a1>>) @@ (f2 :> <<a1, a1>>)

\* Wallet transactions, canary and purchase runs, notice runs, the audience, importers and
\* claims share model values: a behaviour runs one of the modules, and none tells its own
\* apart, so one permutation is sound for them all.
Alike == Permutations(WalletTxns)

\* The modules that are not run keep one initial state.
ShopInit ==
  /\ focus \in {"wallet", "preorder", "supplier", "canary", "import", "warranty", "notice",
                "broadcast"}
  /\ WalletInit /\ PreorderInit /\ SupplierInit /\ ImportInit /\ WarrantyInit
  /\ NotificationInit /\ BroadcastInit /\ CanaryInit
  /\ focus # "canary" => offer.cost = FirstCost
  /\ focus # "broadcast" => optedIn = {}
  /\ focus # "notice" => \A n \in Notices : campaign[n].content = FirstText

ShopNext ==
  \/ /\ focus = "wallet"
     /\ WalletNext
     /\ UNCHANGED <<focus, canaryVars, preorderVars, supplierVars, importVars,
                    warrantyVars, noticeVars, broadcastVars>>
  \/ /\ focus = "preorder"
     /\ PreorderNext
     /\ UNCHANGED <<focus, canaryVars, walletVars, supplierVars, importVars,
                    warrantyVars, noticeVars, broadcastVars>>
  \/ /\ focus = "supplier"
     /\ SupplierNext
     /\ UNCHANGED <<focus, canaryVars, walletVars, preorderVars, importVars,
                    warrantyVars, noticeVars, broadcastVars>>
  \/ /\ focus = "canary"
     /\ CanaryNext
     /\ UNCHANGED <<focus, walletVars, preorderVars, supplierVars, importVars,
                    warrantyVars, noticeVars, broadcastVars>>
  \/ /\ focus = "import"
     /\ ImportNext
     /\ UNCHANGED <<focus, canaryVars, walletVars, preorderVars, supplierVars,
                    warrantyVars, noticeVars, broadcastVars>>
  \/ /\ focus = "warranty"
     /\ WarrantyNext
     /\ UNCHANGED <<focus, canaryVars, walletVars, preorderVars, supplierVars,
                    importVars, noticeVars, broadcastVars>>
  \/ /\ focus = "notice"
     /\ NotificationNext
     /\ UNCHANGED <<focus, canaryVars, walletVars, preorderVars, supplierVars,
                    importVars, warrantyVars, broadcastVars>>
  \/ /\ focus = "broadcast"
     /\ BroadcastNext
     /\ UNCHANGED <<focus, canaryVars, walletVars, preorderVars, supplierVars,
                    importVars, warrantyVars, noticeVars>>

ShopSpec == ShopInit /\ [][ShopNext]_shopVars

(* Types of the module that runs: accounts, reservations, records, units and  *)
(* deliveries.                                                               *)
ShopTypeOK ==
  /\ focus = "wallet" => WalletTypeOK
  /\ focus = "preorder" => PreorderTypeOK
  /\ focus = "supplier" => SupplierTypeOK
  /\ focus = "canary" => CanaryTypeOK
  /\ focus = "import" => ImportTypeOK
  /\ focus = "warranty" => WarrantyTypeOK
  /\ focus = "notice" => NotificationTypeOK
  /\ focus = "broadcast" => BroadcastTypeOK
=============================================================================
